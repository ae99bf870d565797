--------------------------- MODULE LifecycleProofs ---------------------------
(***************************************************************************)
(* What ends a process that has taken messages without finalization, for   *)
(* any number of update workers.                                           *)
(***************************************************************************)
EXTENDS Lifecycle, TLAPS

\* Only a webhook has a listener, and only workers of Run take messages.
EndInv ==
    /\ NoErrorSkipsFinalization
    /\ hook => cfg.mode = "webhook"
    /\ took => stage \in {"running", "down"}

LEMMA EndInit == Init => EndInv
BY DEF Init, EndInv, NoErrorSkipsFinalization

\* The ways a process ends.
LEMMA EndDies ==
  ASSUME EndInv,
         Kill \/ SetUpFails \/ HookFails \/ BlobPanics \/ VideoPanics
              \/ SessionPanics \/ Finalize
  PROVE  EndInv'
<1> USE DEF EndInv, NoErrorSkipsFinalization, Die, envVars, runVars
<1>1. CASE Kill
  BY <1>1 DEF Kill
<1>2. CASE SetUpFails
  <2>1. ~took
    BY <1>2 DEF SetUpFails, SetupStages
  <2> QED
    BY <1>2, <2>1 DEF SetUpFails
<1>3. CASE HookFails
  BY <1>3 DEF HookFails
<1>4. CASE BlobPanics
  BY <1>4 DEF BlobPanics
<1>5. CASE VideoPanics \/ SessionPanics
  BY <1>5 DEF VideoPanics, SessionPanics
<1>6. CASE Finalize
  <2>1. finalized' # "no"
    BY <1>6 DEF Finalize
  <2> QED
    BY <1>6, <2>1 DEF Finalize
<1> QED
  BY <1>1, <1>2, <1>3, <1>4, <1>5, <1>6

\* main on its way to Run.
LEMMA EndStarts ==
  ASSUME EndInv, Start \/ (SettingUp /\ ~SetUpFails)
  PROVE  EndInv'
<1> USE DEF EndInv, NoErrorSkipsFinalization
<1>1. CASE Start
  BY <1>1 DEF Start, envVars
<1>2. CASE StartWorkers
  BY <1>2 DEF StartWorkers, envVars, history
<1>3. ASSUME NEW s \in SetupStages, NEW next \in SetupStages, SetUp(s, next)
      PROVE  EndInv'
  BY <1>3 DEF SetUp, SetupStages, envVars, history
<1> QED
  BY <1>1, <1>2, <1>3
     DEF SettingUp, SetUpSession, SetUpTelegram, SetUpAMQP, SetUpDB, SetupStages

\* Steps that neither start nor end anything.
LEMMA EndStays ==
  ASSUME EndInv,
         \/ Outage \/ Settle \/ Signal \/ WatchSignal \/ HealthFails
         \/ ConsumersStart \/ ConsumersFail \/ TakeMessage \/ ConsumersReturn
         \/ TakeCommand \/ StopPolling \/ UpdatersReturn \/ UNCHANGED vars
  PROVE  EndInv'
<1>1. UNCHANGED <<cfg, stage, hook, finalized, ended>>
  BY DEF Outage, Settle, Signal, WatchSignal, HealthFails, ConsumersStart,
         ConsumersFail, TakeMessage, ConsumersReturn, TakeCommand, StopPolling,
         UpdatersReturn, vars, envVars, mainVars, history
<1>2. took' = took \/ stage = "running"
  BY DEF Outage, Settle, Signal, WatchSignal, HealthFails, ConsumersStart,
         ConsumersFail, TakeMessage, ConsumersReturn, TakeCommand, StopPolling,
         UpdatersReturn, vars, history, Running
<1> QED
  BY <1>1, <1>2 DEF EndInv, NoErrorSkipsFinalization

\* In every configuration, whatever fails, is signalled or is restarted, a process
\* that has taken messages goes through finalization, unless it is killed, panics
\* or has a webhook listener fail.
THEOREM LifecycleNoErrorSkipsFinalization == Spec => []NoErrorSkipsFinalization
<1>1. EndInv /\ [Next]_vars => EndInv'
  BY EndDies, EndStarts, EndStays DEF Next, SettingUp
<1>2. EndInv => NoErrorSkipsFinalization
  BY DEF EndInv
<1> QED
  BY <1>1, <1>2, EndInit, PTL DEF Spec

-----------------------------------------------------------------------------
(* Type correctness.                                                       *)

\* The parts of the type, so that each step has few to look at.
EnvType == cfg \in Configs /\ up \subseteq Deps /\ calm \in BOOLEAN

MainType ==
    /\ stage \in SetupStages \cup {"running", "down"}
    /\ ctxDone \in BOOLEAN /\ signalled \in BOOLEAN
    /\ health \in {"off", "serving", "failed"} /\ hook \in BOOLEAN

RunType ==
    /\ connected \in BOOLEAN
    /\ consumers \in {"off", "setup", "taking", "gone"}
    /\ updates \in {"none", "open", "closed"}
    /\ updaters \in 0 .. UpdateWorkers

HistoryType ==
    /\ took \in BOOLEAN
    /\ finalized \in {"no", "failed", "done"}
    /\ ended \in {"not", "returned", "fatal", "panic", "killed"}

TypeParts == EnvType /\ MainType /\ RunType /\ HistoryType

LEMMA TypeInParts == TypeParts <=> LifecycleTypeOK
BY DEF TypeParts, EnvType, MainType, RunType, HistoryType, LifecycleTypeOK

LEMMA TypeInit == Init => TypeParts
<1> SUFFICES ASSUME Init PROVE TypeParts
  OBVIOUS
<1>1. EnvType
  BY DEF Init, EnvType
<1>2. MainType
  BY DEF Init, MainType, SetupStages
<1>3. RunType
  <2>1. 0 \in 0 .. UpdateWorkers
    BY UpdateWorkersOK
  <2> QED
    BY <2>1 DEF Init, RunType
<1>4. HistoryType
  BY DEF Init, HistoryType
<1> QED
  BY <1>1, <1>2, <1>3, <1>4 DEF TypeParts

LEMMA EnvTypeStep == TypeParts /\ [Next]_vars => EnvType'
BY DEF TypeParts, EnvType, Next, SettingUp, Outage, Settle, Signal, Kill, Start,
       SetUpSession, SetUpTelegram, SetUpAMQP, SetUpDB, SetUp, SetUpFails,
       StartWorkers, WatchSignal, HealthFails, HookFails, ConsumersStart,
       ConsumersFail, TakeMessage, BlobPanics, VideoPanics, ConsumersReturn, TakeCommand,
       SessionPanics, StopPolling, UpdatersReturn, Finalize, Die, vars, envVars

LEMMA MainTypeStep == TypeParts /\ [Next]_vars => MainType'
BY DEF TypeParts, MainType, Next, SettingUp, Outage, Settle, Signal, Kill, Start,
       SetUpSession, SetUpTelegram, SetUpAMQP, SetUpDB, SetUp, SetUpFails,
       StartWorkers, WatchSignal, HealthFails, HookFails, ConsumersStart,
       ConsumersFail, TakeMessage, BlobPanics, VideoPanics, ConsumersReturn, TakeCommand,
       SessionPanics, StopPolling, UpdatersReturn, Finalize, Die, vars, mainVars,
       SetupStages

LEMMA RunTypeStep == TypeParts /\ [Next]_vars => RunType'
<1> SUFFICES ASSUME TypeParts, [Next]_vars PROVE RunType'
  OBVIOUS
<1>1. 0 \in 0 .. UpdateWorkers /\ UpdateWorkers \in 0 .. UpdateWorkers
  BY UpdateWorkersOK
<1>2. updaters > 0 => updaters - 1 \in 0 .. UpdateWorkers
  BY UpdateWorkersOK DEF TypeParts, RunType
<1> QED
  BY <1>1, <1>2 DEF TypeParts, RunType, Next, SettingUp, Outage, Settle, Signal, Kill,
       Start, SetUpSession, SetUpTelegram, SetUpAMQP, SetUpDB, SetUp, SetUpFails,
       StartWorkers, WatchSignal, HealthFails, HookFails, ConsumersStart,
       ConsumersFail, TakeMessage, BlobPanics, VideoPanics, ConsumersReturn, TakeCommand,
       UpdateComes, SessionPanics, StopPolling, UpdatersReturn, Finalize, Die,
       vars, runVars

LEMMA HistoryTypeStep == TypeParts /\ [Next]_vars => HistoryType'
BY DEF TypeParts, HistoryType, Next, SettingUp, Outage, Settle, Signal, Kill, Start,
       SetUpSession, SetUpTelegram, SetUpAMQP, SetUpDB, SetUp, SetUpFails,
       StartWorkers, WatchSignal, HealthFails, HookFails, ConsumersStart,
       ConsumersFail, TakeMessage, BlobPanics, VideoPanics, ConsumersReturn, TakeCommand,
       SessionPanics, StopPolling, UpdatersReturn, Finalize, Die, vars, history

\* No more update workers end than have been started, and whatever starts,
\* fails or ends is in one of the states the model names.
THEOREM LifecycleTypeCorrect == Spec => []LifecycleTypeOK
<1>1. TypeParts /\ [Next]_vars => TypeParts'
  BY EnvTypeStep, MainTypeStep, RunTypeStep, HistoryTypeStep DEF TypeParts
<1> QED
  BY <1>1, TypeInit, TypeInParts, PTL DEF Spec

=============================================================================
