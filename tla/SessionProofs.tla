---------------------------- MODULE SessionProofs ----------------------------
(* Invariants of Session, proved for any users, workers and number of messages. *)
EXTENDS Session, TLAPS

PCs == {"idle", "load", "loaded", "event", "action", "flush"}

\* What makes NobodyMuted and ParsedOnce inductive: a machine has run the
\* action once when it is on its way back to Default, and not before.
Progress(d) ==
    /\ pc[d] # "idle" => user[d] \in Users
    /\ pc[d] \in {"load", "loaded"} => parses[d] = 0
    /\ pc[d] = "event" =>
          \/ curr[d] = Default /\ event[d] = "parse_video" /\ parses[d] = 0
          \/ /\ curr[d] = ParsingVideoState /\ event[d] = "go_to_default"
             /\ parses[d] = 1
    /\ pc[d] = "action" =>
          \/ curr[d] = ParsingVideoState /\ parses[d] = 0
          \/ curr[d] = Default /\ parses[d] = 1
    /\ pc[d] = "flush" => curr[d] = Default /\ parses[d] = 1

SessionInv ==
    SessionTypeOK /\ NobodyMuted /\ \A d \in UpdateWorkers : Progress(d)

LEMMA InitSession == Init => SessionInv
<1> SUFFICES ASSUME Init PROVE SessionInv
  OBVIOUS
<1> USE DEF Init
<1>1. SessionTypeOK
  BY DEF SessionTypeOK, Stored, Events
<1>2. NobodyMuted
  BY DEF NobodyMuted
<1>3. \A d \in UpdateWorkers : Progress(d)
  BY DEF Progress
<1> QED
  BY <1>1, <1>2, <1>3 DEF SessionInv

\* Transitions of the two states, event by event.
LEMMA Table ==
    /\ "parse_video" \in DOMAIN Transition[Default]
    /\ Transition[Default]["parse_video"] = ParsingVideoState
    /\ "go_to_default" \in DOMAIN Transition[ParsingVideoState]
    /\ Transition[ParsingVideoState]["go_to_default"] = Default
  BY DEF Transition, Default, ParsingVideoState, States

\* A step of one worker leaves the machines and the messages of others alone.
LEMMA OthersProgress ==
  ASSUME SessionInv, NEW d \in UpdateWorkers, Handle(d),
         NEW e \in UpdateWorkers, e # d
  PROVE  /\ Progress(e)'
         /\ (pc[e] = "loaded")' => (curr[e] = Default)'
         /\ (pc[e] \notin {"idle", "load"})' => (curr[e] # "")'
<1>1. /\ pc'[e] = pc[e] /\ user'[e] = user[e] /\ curr'[e] = curr[e]
      /\ event'[e] = event[e] /\ parses'[e] = parses[e]
  BY DEF SessionInv, SessionTypeOK, Handle, Receive, LoadNew, LoadStored,
         BackendFails, Dispatch, Move, Execute, Flush, Goto, machine
<1> QED
  BY <1>1 DEF SessionInv, SessionTypeOK, NobodyMuted, Progress

\* What a worker's own step makes of its machine and of the backend.
LEMMA OwnProgress ==
  ASSUME SessionInv, NEW d \in UpdateWorkers, Handle(d)
  PROVE  /\ Progress(d)'
         /\ (pc[d] = "loaded")' => (curr[d] = Default)'
         /\ (pc[d] \notin {"idle", "load"})' => (curr[d] # "")'
<1> USE DEF SessionInv, SessionTypeOK, NobodyMuted, Progress, Goto,
            Default, ParsingVideoState
<1>1. ASSUME NEW u \in Users, Receive(d, u)
      PROVE  Progress(d)' /\ pc'[d] = "load"
  BY <1>1 DEF Receive
<1>2. CASE LoadNew(d)
  BY <1>2 DEF LoadNew
<1>3. CASE LoadStored(d)
  BY <1>3 DEF LoadStored
<1>4. CASE BackendFails(d)
  BY <1>4 DEF BackendFails, machine
<1>5. CASE Dispatch(d)
  BY <1>5 DEF Dispatch
<1>6. CASE Move(d)
  <2>1. /\ pc \in [UpdateWorkers -> PCs] /\ pc[d] = "event"
        /\ curr \in [UpdateWorkers -> States \cup {""}]
        /\ user[d] \in Users /\ parses' = parses /\ user' = user
    BY <1>6 DEF Move, PCs
  <2>2. CASE curr[d] = Default /\ event[d] = "parse_video" /\ parses[d] = 0
    <3>1. /\ pc' = [pc EXCEPT ![d] = "action"]
          /\ curr' = [curr EXCEPT ![d] = ParsingVideoState]
      BY ONLY <1>6, <2>2, Table DEF Move, Goto, Default
    <3> QED
      BY <2>1, <2>2, <3>1
  <2>3. CASE /\ curr[d] = ParsingVideoState /\ event[d] = "go_to_default"
             /\ parses[d] = 1
    <3>1. /\ pc' = [pc EXCEPT ![d] = "action"]
          /\ curr' = [curr EXCEPT ![d] = Default]
      BY ONLY <1>6, <2>3, Table DEF Move, Goto, ParsingVideoState
    <3> QED
      BY <2>1, <2>3, <3>1
  <2> QED
    BY <2>1, <2>2, <2>3
<1>7. CASE Execute(d)
  <2>1. /\ pc \in [UpdateWorkers -> PCs] /\ pc[d] = "action"
        /\ curr' = curr /\ event \in [UpdateWorkers -> Events]
        /\ user[d] \in Users /\ user' = user
        /\ parses \in [UpdateWorkers -> Nat]
    BY <1>7 DEF Execute, PCs
  <2>2. CASE curr[d] = ParsingVideoState /\ parses[d] = 0
    <3>1. /\ pc' = [pc EXCEPT ![d] = "event"]
          /\ event' = [event EXCEPT ![d] = "go_to_default"]
          /\ parses' = [parses EXCEPT ![d] = 1]
      BY ONLY <1>7, <2>2 DEF Execute, ActionEvent, Goto, ParsingVideoState
    <3> QED
      BY <2>1, <2>2, <3>1
  <2>3. CASE curr[d] = Default /\ parses[d] = 1
    <3>1. /\ pc' = [pc EXCEPT ![d] = "flush"]
          /\ parses' = [parses EXCEPT ![d] = 1]
      BY ONLY <1>7, <2>3
      DEF Execute, ActionEvent, Goto, ParsingVideoState, Default
    <3> QED
      BY <2>1, <2>3, <3>1
  <2> QED
    BY <1>7, <2>2, <2>3 DEF Execute
<1>8. CASE Flush(d)
  BY <1>8 DEF Flush, machine
<1> QED
  BY <1>1, <1>2, <1>3, <1>4, <1>5, <1>6, <1>7, <1>8 DEF Handle

\* Flush is the only writer of the backend, and writes Default.
LEMMA BackendStep ==
  ASSUME SessionInv, NEW d \in UpdateWorkers, Handle(d)
  PROVE  /\ (backend \in [Users -> Stored \cup {None}])'
         /\ (\A u \in Users : backend[u] # None => backend[u].current = Default)'
<1>1. CASE Flush(d)
  <2> DEFINE session == [current |-> curr[d], previous |-> prev[d]]
  <2>1. /\ curr[d] = Default /\ user[d] \in Users
        /\ prev[d] \in States \cup {""}
        /\ backend \in [Users -> Stored \cup {None}]
        /\ \A u \in Users : backend[u] # None => backend[u].current = Default
    BY <1>1 DEF Flush, SessionInv, SessionTypeOK, NobodyMuted, Progress
  <2>2. session \in Stored /\ session.current = Default
    BY <2>1 DEF Stored, States, Default, ParsingVideoState
  <2>3. backend' = [backend EXCEPT ![user[d]] = session]
    BY <1>1 DEF Flush
  <2> HIDE DEF session
  <2> QED
    BY <2>1, <2>2, <2>3
<1>2. CASE backend' = backend
  BY <1>2 DEF SessionInv, SessionTypeOK, NobodyMuted
<1> QED
  BY <1>1, <1>2
  DEF Handle, Receive, LoadNew, LoadStored, BackendFails, Dispatch, Move,
      Execute

\* The types of what a worker writes.
LEMMA HandleTypes ==
  ASSUME SessionInv, NEW d \in UpdateWorkers, Handle(d)
  PROVE  SessionTypeOK'
<1>0. /\ (backend \in [Users -> Stored \cup {None}])'
      /\ \A e \in UpdateWorkers :
            (pc[e] \notin {"idle", "load"})' => (curr[e] # "")'
  BY BackendStep, OthersProgress, OwnProgress
<1> DEFINE Typed ==
        /\ pc \in [UpdateWorkers ->
                      {"idle", "load", "loaded", "event", "action", "flush"}]
        /\ user \in [UpdateWorkers -> Users \cup {None}]
        /\ curr \in [UpdateWorkers -> States \cup {""}]
        /\ prev \in [UpdateWorkers -> States \cup {""}]
        /\ event \in [UpdateWorkers -> Events]
        /\ parses \in [UpdateWorkers -> Nat]
        /\ received \in Nat
<1>1. Typed
  BY DEF SessionInv, SessionTypeOK
<1> USE DEF Goto, States, Events, Default, ParsingVideoState
<1>2. ASSUME NEW u \in Users, Receive(d, u) PROVE Typed'
  <2>1. /\ "load" \in PCs /\ u \in Users \cup {None}
        /\ "noop" \in Events /\ 0 \in Nat /\ "" \in States \cup {""}
    BY DEF PCs
  <2> QED
    <3>1. received + 1 \in Nat
      <4>1. received \in Nat
        BY <1>1
      <4> QED
        BY ONLY <4>1
    <3>2. pc' \in [UpdateWorkers -> PCs] /\ user' \in [UpdateWorkers -> Users \cup {None}]
      BY ONLY <1>1, <1>2, <2>1 DEF Receive, Goto, PCs
    <3>3. /\ curr' \in [UpdateWorkers -> States \cup {""}]
          /\ prev' \in [UpdateWorkers -> States \cup {""}]
      BY ONLY <1>1, <1>2, <2>1 DEF Receive
    <3>4. /\ event' \in [UpdateWorkers -> Events]
          /\ parses' \in [UpdateWorkers -> Nat]
      BY ONLY <1>1, <1>2, <2>1 DEF Receive
    <3> QED
      BY ONLY <1>2, <3>1, <3>2, <3>3, <3>4 DEF Receive, PCs
<1>3. ASSUME LoadNew(d) PROVE Typed'
  BY <1>1, <1>3 DEF LoadNew
<1>4. ASSUME LoadStored(d) PROVE Typed'
  <2>0. user[d] \in Users
    BY <1>4 DEF LoadStored, SessionInv, Progress
  <2>1. backend[user[d]] \in Stored
    BY ONLY <1>4, <2>0, SessionInv DEF LoadStored, SessionInv, SessionTypeOK
  <2>2. /\ backend[user[d]].current \in States
        /\ backend[user[d]].previous \in States \cup {""}
    BY <2>1 DEF Stored
  <2> QED
    BY <1>1, <1>4, <2>2 DEF LoadStored
<1>5. ASSUME BackendFails(d) PROVE Typed'
  BY <1>1, <1>5 DEF BackendFails, machine
<1>6. ASSUME Dispatch(d) PROVE Typed'
  BY <1>1, <1>6 DEF Dispatch
<1>7. ASSUME Move(d) PROVE Typed'
  <2>1. /\ Transition[curr[d]][event[d]] \in States
        /\ event[d] \in DOMAIN Transition[curr[d]]
    BY <1>7, Table DEF Move, SessionInv, Progress
  <2> QED
    BY <1>1, <1>7, <2>1 DEF Move
<1>8. ASSUME Execute(d) PROVE Typed'
  <2>1. ActionEvent(curr[d]) \in Events
    BY DEF ActionEvent
  <2> QED
    <3>1. PICK n \in Nat : parses' = [parses EXCEPT ![d] = n]
      <4>1. parses[d] \in Nat
        BY <1>1
      <4>2. parses[d] + (IF curr[d] = ParsingVideoState THEN 1 ELSE 0) \in Nat
        BY ONLY <4>1
      <4> QED
        BY ONLY <1>8, <4>2 DEF Execute
    <3>2. PICK p \in PCs : pc' = [pc EXCEPT ![d] = p]
      BY ONLY <1>8 DEF Execute, PCs, Goto
    <3>3. pc' \in [UpdateWorkers -> PCs]
      BY ONLY <1>1, <3>2 DEF PCs
    <3>4. event' \in [UpdateWorkers -> Events]
      <4>1. event \in [UpdateWorkers -> Events]
        BY <1>1
      <4> QED
        BY ONLY <1>8, <2>1, <4>1 DEF Execute
    <3>5. parses' \in [UpdateWorkers -> Nat]
      <4>1. parses \in [UpdateWorkers -> Nat]
        BY <1>1
      <4> QED
        BY ONLY <3>1, <4>1
    <3> QED
      BY ONLY <1>1, <1>8, <3>3, <3>4, <3>5 DEF Execute, PCs
<1>9. ASSUME Flush(d) PROVE Typed'
  BY <1>1, <1>9 DEF Flush, machine
<1>10. Typed'
  BY <1>2, <1>3, <1>4, <1>5, <1>6, <1>7, <1>8, <1>9 DEF Handle
<1> QED
  BY <1>0, <1>10 DEF SessionTypeOK

LEMMA StepSession == SessionInv /\ [Next]_vars => SessionInv'
<1> SUFFICES ASSUME SessionInv, [Next]_vars PROVE SessionInv'
  OBVIOUS
<1>1. ASSUME NEW d \in UpdateWorkers, Handle(d) PROVE SessionInv'
  <2>1. \A e \in UpdateWorkers :
            Progress(e)' /\ ((pc[e] = "loaded")' => (curr[e] = Default)')
    BY <1>1, OthersProgress, OwnProgress
  <2>2. NobodyMuted'
    BY <1>1, <2>1, BackendStep DEF NobodyMuted
  <2> QED
    BY <1>1, <2>1, <2>2, HandleTypes DEF SessionInv
<1>2. ASSUME NEW u \in Users, Expire(u) PROVE SessionInv'
  BY <1>2 DEF Expire, machine, SessionInv, SessionTypeOK, NobodyMuted, Progress
<1>3. CASE UNCHANGED vars
  BY <1>3 DEF vars, machine, SessionInv, SessionTypeOK, NobodyMuted, Progress
<1> QED
  BY <1>1, <1>2, <1>3 DEF Next

\* Session is type correct: handleMessage never runs an unset state machine.
THEOREM SessionTypeCorrect == Spec => []SessionTypeOK
<1>1. SessionInv => SessionTypeOK
  BY DEF SessionInv
<1> QED
  BY <1>1, InitSession, StepSession, PTL DEF Spec

\* No session keeps handleMessage from parsing a user's messages.
THEOREM SessionNobodyMuted == Spec => []NobodyMuted
<1>1. SessionInv => NobodyMuted
  BY DEF SessionInv
<1> QED
  BY <1>1, InitSession, StepSession, PTL DEF Spec

\* Every message whose session can be loaded is parsed once.
THEOREM SessionParsedOnce == Spec => []ParsedOnce
<1>1. SessionInv => ParsedOnce
  BY Table DEF SessionInv, Progress, ParsedOnce
<1> QED
  BY <1>1, InitSession, StepSession, PTL DEF Spec

=============================================================================
