----------------------------- MODULE MediaProofs -----------------------------
(***************************************************************************)
(* What fetch and upload keep true of the queues, the metadata table and   *)
(* the jobs, for any number of workers, videos and links, either storage   *)
(* and any combination of errors, interrupts and crashes.                  *)
(***************************************************************************)
EXTENDS Media, TLAPS, FiniteSetTheorems

Contents == {"absent", "uncached", "partial", "whole"}

\* The conjuncts of MediaTypeOK about the workers.
WorkerTypes ==
    /\ pc \in [Workers -> FetchPCs \cup UploadPCs]
    /\ \A w \in FetchWorkers : pc[w] \in FetchPCs
    /\ \A w \in UploadWorkers : pc[w] \in UploadPCs
    /\ cur \in [Workers -> Upload \cup {None}]
    /\ \A w \in Workers : pc[w] = "idle" <=> cur[w] = None
    /\ seen \in [Workers -> Contents]

\* Those about everything else.
DataTypes ==
    /\ toFetch \in [Videos -> Nat]
    /\ toUpload \in [Upload -> Nat]
    /\ row \in [Videos -> Contents]
    /\ blob \in [Videos -> {"absent", "partial", "whole"}]
    /\ opener \in [Videos -> FetchWorkers \cup {None}]
    /\ ctxDone \in BOOLEAN
    /\ unfetched \in [Videos -> Nat]
    /\ unuploaded \in [Videos -> Nat]
    /\ links \in Nat
    /\ owed \in [Videos -> Int]
    /\ stranded \subseteq Videos
    /\ cut \subseteq Videos
    /\ suspect \subseteq Videos

\* What an upload saves is what it sent.
SavesSent ==
    \A w \in UploadWorkers : pc[w] = "save" => seen[w] \in {"partial", "whole"}

TypeInv == WorkerTypes /\ DataTypes /\ SavesSent

-----------------------------------------------------------------------------
(* Type correctness.                                                       *)

LEMMA InHandType ==
  ASSUME WorkerTypes, NEW w \in Workers, pc[w] # "idle"
  PROVE  /\ cur[w] \in Upload /\ Video(w) \in Videos
         /\ cur[w] = [video |-> Video(w), format |-> cur[w].format]
         /\ cur[w].format \in BOOLEAN
BY DEF WorkerTypes, Video, Upload

LEMMA GotoType ==
  ASSUME WorkerTypes, NEW w \in Workers, pc[w] # "idle", NEW label, label # "idle",
         w \in FetchWorkers => label \in FetchPCs,
         w \in UploadWorkers => label \in UploadPCs,
         pc' = [pc EXCEPT ![w] = label], cur' = cur,
         seen' \in [Workers -> Contents]
  PROVE  WorkerTypes'
<1>1. FetchWorkers \cap UploadWorkers = {} /\ FetchWorkers \subseteq Workers
      /\ UploadWorkers \subseteq Workers
  BY MediaConstantsOK DEF Workers
<1> QED
  BY <1>1 DEF WorkerTypes, Workers

LEMMA ReturnType ==
  ASSUME WorkerTypes, NEW w \in Workers, Return(w)
  PROVE  WorkerTypes'
<1>1. FetchWorkers \subseteq Workers /\ UploadWorkers \subseteq Workers
  BY DEF Workers
<1> QED
  BY <1>1 DEF WorkerTypes, Return, FetchPCs, UploadPCs

LEMMA TakeType ==
  ASSUME WorkerTypes, NEW w \in Workers, NEW m \in Upload,
         pc' = [pc EXCEPT ![w] = "lookup"], cur' = [cur EXCEPT ![w] = m],
         UNCHANGED seen
  PROVE  WorkerTypes'
<1>1. FetchWorkers \subseteq Workers /\ UploadWorkers \subseteq Workers /\ m # None
  BY MediaConstantsOK DEF Workers
<1> QED
  BY <1>1 DEF WorkerTypes, FetchPCs, UploadPCs

LEMMA TypesTogether == MediaTypeOK <=> WorkerTypes /\ DataTypes
BY DEF MediaTypeOK, WorkerTypes, DataTypes, Contents

LEMMA TypeInit == Init => TypeInv
<1> SUFFICES ASSUME Init PROVE TypeInv
  OBVIOUS
<1>1. FetchWorkers \subseteq Workers /\ UploadWorkers \subseteq Workers
  BY DEF Workers
<1>2. WorkerTypes /\ SavesSent
  BY <1>1 DEF Init, WorkerTypes, SavesSent, Contents, FetchPCs, UploadPCs
<1>3. /\ toFetch \in [Videos -> Nat] /\ toUpload \in [Upload -> Nat]
      /\ unfetched \in [Videos -> Nat] /\ unuploaded \in [Videos -> Nat]
      /\ owed \in [Videos -> Int]
  BY DEF Init
<1>4. /\ row \in [Videos -> Contents]
      /\ blob \in [Videos -> {"absent", "partial", "whole"}]
      /\ opener \in [Videos -> FetchWorkers \cup {None}]
  BY DEF Init, Contents
<1>5. ctxDone \in BOOLEAN /\ links \in Nat /\ stranded \subseteq Videos
      /\ cut \subseteq Videos /\ suspect \subseteq Videos
  BY DEF Init
<1> QED
  BY <1>2, <1>3, <1>4, <1>5 DEF TypeInv, DataTypes

\* The calls of fetch.
LEMMA TypeFetching ==
  ASSUME TypeInv, NEW w \in FetchWorkers, Fetching(w), ~ GiveUp(w)
  PROVE  TypeInv'
<1> USE DEF TypeInv
<1>0. /\ w \in Workers /\ w \notin UploadWorkers /\ FetchWorkers \subseteq Workers
      /\ UploadWorkers \subseteq Workers
      /\ pc \in [Workers -> FetchPCs \cup UploadPCs] /\ seen \in [Workers -> Contents]
  BY MediaConstantsOK DEF Workers, WorkerTypes
<1>1. ASSUME NEW v \in Videos, TakeFetch(w, v) PROVE TypeInv'
  <2>0. PICK m : m = [video |-> v, format |-> FALSE]
    OBVIOUS
  <2>1. m \in Upload
    BY <2>0 DEF Upload
  <2>2. WorkerTypes'
    BY <1>0, <1>1, <2>0, <2>1, TakeType DEF TakeFetch
  <2>3. DataTypes'
    BY <1>1 DEF TakeFetch, storeVars, jobVars, history, DataTypes
  <2>4. SavesSent'
    BY <1>0, <1>1 DEF TakeFetch, SavesSent
  <2> QED
    BY <2>2, <2>3, <2>4
<1>2. ASSUME NEW label, label # "idle", label \in FetchPCs, pc[w] # "idle",
             pc' = [pc EXCEPT ![w] = label], cur' = cur,
             \A x \in Workers : x # w => seen'[x] = seen[x],
             seen' \in [Workers -> Contents]
      PROVE  WorkerTypes' /\ SavesSent'
  <2>1. WorkerTypes'
    BY <1>0, <1>2, GotoType
  <2>2. SavesSent'
    BY <1>0, <1>2 DEF SavesSent
  <2> QED
    BY <2>1, <2>2
<1>3. CASE FetchLookup(w)
  <2>1. Video(w) \in Videos
    BY <1>0, <1>3, InHandType DEF FetchLookup
  <2>2. PICK label \in {"probe", "check", "publish"} : pc' = [pc EXCEPT ![w] = label]
    BY <1>3 DEF FetchLookup
  <2>3. /\ pc[w] # "idle" /\ cur' = cur
        /\ seen' = [seen EXCEPT ![w] = row[Video(w)]] /\ row[Video(w)] \in Contents
    BY <1>3, <2>1 DEF FetchLookup, DataTypes
  <2>4. WorkerTypes' /\ SavesSent'
    BY <1>0, <1>2, <2>2, <2>3 DEF FetchPCs
  <2>5. DataTypes'
    BY <1>3 DEF FetchLookup, queueVars, storeVars, jobVars, history, DataTypes
  <2> QED
    BY <2>4, <2>5
<1>4. CASE \/ FetchProbe(w) \/ FetchCheck(w) \/ PutObject(w) \/ OpenFile(w)
           \/ WriteFile(w) \/ FetchSave(w)
  <2>0. pc[w] # "idle"
    BY <1>4 DEF FetchProbe, FetchCheck, PutObject, OpenFile, WriteFile, FetchSave
  <2>1. PICK label \in {"create", "save", "publish", "writing"} : Goto(w, label)
    BY <1>4 DEF FetchProbe, FetchCheck, PutObject, OpenFile, WriteFile, FetchSave,
                AfterCreate
  <2>2. WorkerTypes' /\ SavesSent'
    BY <1>0, <1>2, <2>0, <2>1 DEF FetchPCs, Goto
  <2>3. Video(w) \in Videos
    BY <1>0, <2>0, InHandType
  <2>4. ASSUME FetchProbe(w) \/ FetchCheck(w) PROVE DataTypes'
    BY <2>4 DEF FetchProbe, FetchCheck, queueVars, storeVars, jobVars, history,
                DataTypes
  <2>5. ASSUME PutObject(w) PROVE DataTypes'
    BY <2>3, <2>5 DEF PutObject, queueVars, jobVars, history, DataTypes
  <2>6. ASSUME OpenFile(w) PROVE DataTypes'
    BY <2>3, <2>6 DEF OpenFile, queueVars, jobVars, history, DataTypes
  <2>7. ASSUME WriteFile(w) PROVE DataTypes'
    BY <2>3, <2>7 DEF WriteFile, queueVars, jobVars, history, DataTypes
  <2>8. ASSUME FetchSave(w) PROVE DataTypes'
    BY <2>3, <2>8 DEF FetchSave, queueVars, jobVars, history, DataTypes, Contents
  <2>9. DataTypes'
    BY <1>4, <2>4, <2>5, <2>6, <2>7, <2>8
  <2> QED
    BY <2>2, <2>9
<1>5. CASE FetchPublish(w)
  <2>0. PICK m : m = [video |-> Video(w), format |-> TRUE]
    OBVIOUS
  <2>1. Video(w) \in Videos
    BY <1>0, <1>5, InHandType DEF FetchPublish
  <2>2. m \in Upload
    BY <2>0, <2>1 DEF Upload
  <2>3. /\ toUpload' = [toUpload EXCEPT ![m] = @ + 1]
        /\ UNCHANGED <<toFetch, storeVars, jobVars, history>>
    BY <1>5, <2>0 DEF FetchPublish
  <2>4. toUpload' \in [Upload -> Nat]
    BY <2>2, <2>3 DEF DataTypes
  <2>5. DataTypes'
    BY <2>3, <2>4 DEF storeVars, jobVars, history, DataTypes
  <2>6. WorkerTypes' /\ SavesSent'
    BY <1>0, <1>5, ReturnType DEF FetchPublish, Return, SavesSent
  <2> QED
    BY <2>5, <2>6
<1> QED
  BY <1>1, <1>3, <1>4, <1>5 DEF Fetching

\* The calls of upload.
LEMMA TypeUploading ==
  ASSUME TypeInv, NEW w \in UploadWorkers, Uploading(w), ~ GiveUp(w)
  PROVE  TypeInv'
<1> USE DEF TypeInv
<1>0. /\ w \in Workers /\ w \notin FetchWorkers /\ FetchWorkers \subseteq Workers
      /\ UploadWorkers \subseteq Workers
      /\ pc \in [Workers -> FetchPCs \cup UploadPCs] /\ seen \in [Workers -> Contents]
  BY MediaConstantsOK DEF Workers, WorkerTypes
<1>1. ASSUME NEW m \in Upload, TakeUpload(w, m) PROVE TypeInv'
  <2>1. WorkerTypes'
    BY <1>0, <1>1, TakeType DEF TakeUpload
  <2>2. DataTypes'
    BY <1>1 DEF TakeUpload, storeVars, jobVars, history, DataTypes
  <2>3. SavesSent'
    BY <1>0, <1>1 DEF TakeUpload, SavesSent
  <2> QED
    BY <2>1, <2>2, <2>3
<1>2. ASSUME Return(w) PROVE WorkerTypes' /\ SavesSent'
  BY <1>0, <1>2, ReturnType DEF Return, SavesSent
<1>3. CASE UploadUnknown(w) \/ UploadMissing(w)
  <2>1. Requeue(w) /\ pc[w] # "idle"
    BY <1>3 DEF UploadUnknown, UploadMissing
  <2>2. Video(w) \in Videos
    BY <1>0, <2>1, InHandType
  <2>3. DataTypes'
    BY <2>1, <2>2 DEF Requeue, storeVars, jobVars, history, DataTypes
  <2> QED
    BY <1>2, <2>1, <2>3 DEF Requeue
<1>4. CASE UploadShare(w)
  <2>1. Video(w) \in Videos
    BY <1>0, <1>4, InHandType DEF UploadShare
  <2>2. DataTypes'
    BY <1>4, <2>1 DEF UploadShare, Serve, Show, queueVars, storeVars, jobVars,
                      DataTypes
  <2> QED
    BY <1>2, <1>4, <2>2 DEF UploadShare
<1>5. CASE UploadLookup(w)
  <2>1. WorkerTypes'
    BY <1>0, <1>5, GotoType DEF UploadLookup, Goto, UploadPCs
  <2>2. DataTypes' /\ SavesSent'
    BY <1>0, <1>5 DEF UploadLookup, Goto, queueVars, storeVars, jobVars, history,
                      DataTypes, SavesSent
  <2> QED
    BY <2>1, <2>2
<1>6. CASE UploadSend(w)
  <2>1. Video(w) \in Videos
    BY <1>0, <1>6, InHandType DEF UploadSend
  <2>2. blob[Video(w)] \in {"partial", "whole"}
    BY <1>6, <2>1 DEF UploadSend, DataTypes
  <2>3. seen' \in [Workers -> Contents]
    BY <1>0, <1>6, <2>2 DEF UploadSend, Contents
  <2>4. WorkerTypes'
    BY <1>0, <1>6, <2>3, GotoType DEF UploadSend, UploadPCs
  <2>5. DataTypes'
    BY <1>6, <2>1 DEF UploadSend, Serve, Show, queueVars, storeVars, jobVars,
                      DataTypes
  <2>6. SavesSent'
    BY <1>0, <1>6, <2>2 DEF UploadSend, SavesSent
  <2> QED
    BY <2>4, <2>5, <2>6
<1>7. CASE UploadSave(w)
  <2>1. Video(w) \in Videos
    BY <1>0, <1>7, InHandType DEF UploadSave
  <2>2. WorkerTypes'
    BY <1>0, <1>7, GotoType DEF UploadSave, Goto, UploadPCs
  <2>3. DataTypes'
    BY <1>0, <1>7, <2>1 DEF UploadSave, Goto, queueVars, jobVars, history, DataTypes
  <2>4. SavesSent'
    BY <1>0, <1>7 DEF UploadSave, Goto, SavesSent
  <2> QED
    BY <2>2, <2>3, <2>4
<1>8. CASE UploadDelete(w)
  <2>1. Video(w) \in Videos
    BY <1>0, <1>8, InHandType DEF UploadDelete
  <2>2. DataTypes'
    BY <1>8, <2>1 DEF UploadDelete, queueVars, jobVars, history, DataTypes
  <2> QED
    BY <1>2, <1>8, <2>2 DEF UploadDelete
<1> QED
  BY <1>1, <1>3, <1>4, <1>5, <1>6, <1>7, <1>8 DEF Uploading

\* A job that is left counts once more, and so may the video it is for.
LEMMA LeaveJobCounts ==
  ASSUME NEW w \in Workers, LeaveJob(w),
         unfetched \in [Videos -> Nat], unuploaded \in [Videos -> Nat],
         owed \in [Videos -> Int], Video(w) \in Videos
  PROVE  \E i, j, k \in {0, 1} :
           /\ unfetched' = [unfetched EXCEPT ![Video(w)] = @ + i]
           /\ unuploaded' = [unuploaded EXCEPT ![Video(w)] = @ + j]
           /\ owed' = [owed EXCEPT ![Video(w)] = @ + k]
<1>1. CASE w \in FetchWorkers
  <2>1. /\ unfetched' = [unfetched EXCEPT ![Video(w)] = @ + 1]
        /\ unuploaded' = [unuploaded EXCEPT ![Video(w)] = @ + 0]
        /\ owed' = [owed EXCEPT ![Video(w)] = @ + 0]
    BY <1>1 DEF LeaveJob
  <2> QED
    BY <2>1
<1>2. CASE w \notin FetchWorkers /\ pc[w] \in {"save", "delete"}
  <2>1. /\ unfetched' = [unfetched EXCEPT ![Video(w)] = @ + 0]
        /\ unuploaded' = [unuploaded EXCEPT ![Video(w)] = @ + 1]
        /\ owed' = [owed EXCEPT ![Video(w)] = @ + 1]
    BY <1>2 DEF LeaveJob
  <2> QED
    BY <2>1
<1>3. CASE w \notin FetchWorkers /\ pc[w] \notin {"save", "delete"}
  <2>1. /\ unfetched' = [unfetched EXCEPT ![Video(w)] = @ + 0]
        /\ unuploaded' = [unuploaded EXCEPT ![Video(w)] = @ + 1]
        /\ owed' = [owed EXCEPT ![Video(w)] = @ + 0]
    BY <1>3 DEF LeaveJob
  <2> QED
    BY <2>1
<1> QED
  BY <1>1, <1>2, <1>3

\* A call that fails, and what it may have done.
LEMMA TypeGiveUp ==
  ASSUME TypeInv, NEW w \in Workers, GiveUp(w)
  PROVE  TypeInv'
<1> USE DEF TypeInv
<1>0. pc[w] # "idle" /\ Video(w) \in Videos
  BY InHandType DEF GiveUp
<1>1. WorkerTypes' /\ SavesSent'
  <2>1. WorkerTypes'
    BY ReturnType DEF GiveUp, LeaveJob
  <2>2. UploadWorkers \subseteq Workers /\ pc \in [Workers -> FetchPCs \cup UploadPCs]
    BY DEF Workers, WorkerTypes
  <2>3. SavesSent'
    BY <2>2 DEF GiveUp, LeaveJob, Return, SavesSent
  <2> QED
    BY <2>1, <2>3
<1>2. /\ UNCHANGED <<toFetch, toUpload, ctxDone, links, stranded>>
      /\ unfetched' \in [Videos -> Nat] /\ unuploaded' \in [Videos -> Nat]
      /\ owed' \in [Videos -> Int]
  <2>1. UNCHANGED <<toFetch, toUpload, ctxDone, links, stranded>>
    BY DEF GiveUp, queueVars
  <2>2. /\ unfetched \in [Videos -> Nat] /\ unuploaded \in [Videos -> Nat]
        /\ owed \in [Videos -> Int]
    BY DEF DataTypes
  <2>3. \E i, j, k \in {0, 1} :
          /\ unfetched' = [unfetched EXCEPT ![Video(w)] = @ + i]
          /\ unuploaded' = [unuploaded EXCEPT ![Video(w)] = @ + j]
          /\ owed' = [owed EXCEPT ![Video(w)] = @ + k]
    BY <1>0, <2>2, LeaveJobCounts DEF GiveUp
  <2> QED
    BY <1>0, <2>1, <2>2, <2>3
<1>3. /\ row' \in [Videos -> Contents]
      /\ blob' \in [Videos -> {"absent", "partial", "whole"}]
      /\ opener' \in [Videos -> FetchWorkers \cup {None}] /\ cut' \subseteq Videos
  <2>1. CASE UNCHANGED <<storeVars, cut>>
    BY <2>1 DEF storeVars, DataTypes
  <2>2. CASE TookEffect(w)
    <3>1. w \in UploadWorkers /\ pc[w] = "save" => seen[w] \in Contents
      BY DEF SavesSent, Contents
    <3>2. w \in FetchWorkers \/ w \in UploadWorkers
      BY DEF Workers
    <3>3. row' \in [Videos -> Contents]
      BY <1>0, <2>2, <3>1, <3>2 DEF TookEffect, storeVars, DataTypes, Contents
    <3>4. /\ blob' \in [Videos -> {"absent", "partial", "whole"}]
          /\ opener' \in [Videos -> FetchWorkers \cup {None}] /\ cut' \subseteq Videos
      BY <1>0, <2>2 DEF TookEffect, Show, storeVars, DataTypes
    <3> QED
      BY <3>3, <3>4
  <2> QED
    BY <2>1, <2>2 DEF GiveUp
<1>4. suspect' \subseteq Videos
  BY <1>0 DEF GiveUp, DataTypes
<1>5. DataTypes'
  BY <1>2, <1>3, <1>4 DEF DataTypes
<1> QED
  BY <1>1, <1>5

LEMMA WaitingType ==
  ASSUME DataTypes, NEW v \in Videos
  PROVE  Waiting(v) \in Nat
<1>1. /\ [video |-> v, format |-> TRUE] \in Upload
      /\ [video |-> v, format |-> FALSE] \in Upload
  BY DEF Upload
<1>2. /\ toUpload[[video |-> v, format |-> TRUE]] \in Nat
      /\ toUpload[[video |-> v, format |-> FALSE]] \in Nat
      /\ toFetch[v] \in Nat
  BY <1>1 DEF DataTypes
<1> QED
  BY <1>2 DEF Waiting

LEMMA TypeOthers ==
  ASSUME TypeInv,
         \/ \E v \in Videos : SendLink(v)
         \/ Interrupt \/ Restart \/ Crash
  PROVE  TypeInv'
<1> USE DEF TypeInv
<1>1. ASSUME NEW v \in Videos, SendLink(v) PROVE TypeInv'
  BY <1>1 DEF SendLink, storeVars, workerVars, jobVars, WorkerTypes, DataTypes,
              SavesSent
<1>2. CASE Interrupt
  BY <1>2 DEF Interrupt, queueVars, storeVars, workerVars, history, WorkerTypes,
              DataTypes, SavesSent
<1>3. CASE Restart
  <2>1. \A m \in Upload : m.video \in Videos
    BY DEF Upload
  <2>2. toUpload' \in [Upload -> Nat] /\ toFetch' \in [Videos -> Nat]
    BY <1>3, <2>1 DEF Restart, DataTypes
  <2> QED
    BY <1>3, <2>2 DEF Restart, storeVars, workerVars, history, WorkerTypes,
                      DataTypes, SavesSent
<1>4. CASE Crash
  <2>1. \A v \in Videos : Waiting(v) \in Int
    BY WaitingType
  <2>2. DataTypes'
    BY <1>4, <2>1 DEF Crash, queueVars, DataTypes
  <2>3. WorkerTypes' /\ SavesSent'
    BY <1>4 DEF Crash, WorkerTypes, SavesSent, FetchPCs, UploadPCs, Workers
  <2> QED
    BY <2>2, <2>3
<1> QED
  BY <1>1, <1>2, <1>3, <1>4

LEMMA TypeStep == TypeInv /\ [Next]_vars => TypeInv'
<1> SUFFICES ASSUME TypeInv, [Next]_vars PROVE TypeInv'
  OBVIOUS
<1>1. CASE Next
  <2>1. ASSUME NEW w \in FetchWorkers, Fetching(w) PROVE TypeInv'
    BY <2>1, TypeFetching, TypeGiveUp DEF Workers
  <2>2. ASSUME NEW w \in UploadWorkers, Uploading(w) PROVE TypeInv'
    BY <2>2, TypeUploading, TypeGiveUp DEF Workers
  <2> QED
    BY <1>1, <2>1, <2>2, TypeOthers DEF Next
<1>2. CASE UNCHANGED vars
  BY <1>2 DEF vars, queueVars, storeVars, workerVars, jobVars, history, TypeInv,
              WorkerTypes, DataTypes, SavesSent
<1> QED
  BY <1>1, <1>2

LEMMA TypeInvariant == Spec => []TypeInv
BY TypeInit, TypeStep, PTL DEF Spec

\* Every variable of Media keeps its type, the counts of messages and jobs
\* included: no message is taken from an empty queue.
THEOREM MediaTypeCorrect == Spec => []MediaTypeOK
<1>1. TypeInv => MediaTypeOK
  BY TypesTogether DEF TypeInv
<1> QED
  BY <1>1, TypeInvariant, PTL

-----------------------------------------------------------------------------
(* The row comes before the message that carries its format.               *)

\* Past its lookup, a fetch that has found or saved the row relies on it.
RowKnown(w) ==
    /\ pc[w] \in {"check", "publish"} => row[Video(w)] # "absent"
    /\ pc[w] \in {"probe", "create", "writing"} /\ seen[w] # "absent"
         => row[Video(w)] # "absent"

RowInv == RowBeforeUpload /\ \A w \in FetchWorkers : RowKnown(w)

\* No step removes a row.
LEMMA RowsStay ==
  ASSUME TypeInv, [Next]_vars
  PROVE  \A v \in Videos : row[v] # "absent" => row'[v] # "absent"
<1>0. row \in [Videos -> Contents]
  BY DEF TypeInv, DataTypes
<1>1. ASSUME NEW w \in Workers, pc[w] = "save", NEW c \in Contents, c # "absent",
             row' = [row EXCEPT ![Video(w)] = c]
      PROVE  \A v \in Videos : row[v] # "absent" => row'[v] # "absent"
  BY <1>0, <1>1
<1>2. ASSUME NEW w \in UploadWorkers, pc[w] = "save"
      PROVE  seen[w] \in Contents /\ seen[w] # "absent"
  BY <1>2 DEF TypeInv, SavesSent, Contents
<1>3. ASSUME NEW w \in Workers, GiveUp(w)
      PROVE  \A v \in Videos : row[v] # "absent" => row'[v] # "absent"
  <2>1. CASE UNCHANGED row
    BY <2>1
  <2>2. ASSUME pc[w] = "save",
               row' = [row EXCEPT ![Video(w)] =
                           IF w \in FetchWorkers THEN "uncached" ELSE seen[w]]
        PROVE  \A v \in Videos : row[v] # "absent" => row'[v] # "absent"
    BY <1>1, <1>2, <2>2 DEF Workers, Contents
  <2> QED
    BY <1>3, <2>1, <2>2 DEF GiveUp, TookEffect, storeVars
<1>4. ASSUME NEW w \in FetchWorkers, Fetching(w), ~ GiveUp(w)
      PROVE  \A v \in Videos : row[v] # "absent" => row'[v] # "absent"
  <2>1. CASE FetchSave(w)
    BY <1>1, <2>1 DEF FetchSave, Contents, Workers
  <2>2. CASE UNCHANGED row
    BY <2>2
  <2> QED
    BY <1>4, <2>1, <2>2 DEF Fetching, TakeFetch, FetchLookup, FetchProbe,
         FetchCheck, PutObject, OpenFile, WriteFile, FetchPublish, storeVars
<1>5. ASSUME NEW w \in UploadWorkers, Uploading(w), ~ GiveUp(w)
      PROVE  \A v \in Videos : row[v] # "absent" => row'[v] # "absent"
  <2>1. CASE UploadSave(w)
    BY <1>1, <1>2, <2>1 DEF UploadSave, Workers
  <2>2. CASE UNCHANGED row
    BY <2>2
  <2> QED
    BY <1>5, <2>1, <2>2 DEF Uploading, TakeUpload, UploadUnknown, UploadShare,
         UploadLookup, UploadMissing, UploadSend, UploadDelete, Requeue, storeVars
<1>6. CASE UNCHANGED row
  BY <1>6
<1> QED
  BY <1>3, <1>4, <1>5, <1>6
  DEF Next, SendLink, Interrupt, Restart, Crash, vars, storeVars, Workers

\* Only a fetch that relies on a row puts a message with a format into a queue.
LEMMA RowFetching ==
  ASSUME TypeInv, RowInv, NEW w \in FetchWorkers, Fetching(w), ~ GiveUp(w),
         \A v \in Videos : row[v] # "absent" => row'[v] # "absent"
  PROVE  RowInv'
<1>0. /\ w \in Workers /\ w \notin UploadWorkers /\ FetchWorkers \subseteq Workers
      /\ UploadWorkers \subseteq Workers
      /\ pc \in [Workers -> FetchPCs \cup UploadPCs] /\ seen \in [Workers -> Contents]
      /\ cur \in [Workers -> Upload \cup {None}] /\ row \in [Videos -> Contents]
      /\ toUpload \in [Upload -> Nat]
      /\ \A x \in Workers : pc[x] # "idle" => Video(x) \in Videos
  BY MediaConstantsOK, InHandType DEF Workers, TypeInv, WorkerTypes, DataTypes
<1>1. /\ \A x \in Workers : x # w => pc'[x] = pc[x] /\ cur'[x] = cur[x] /\ seen'[x] = seen[x]
      /\ \A v \in Videos :
           toUpload'[[video |-> v, format |-> TRUE]]
             = toUpload[[video |-> v, format |-> TRUE]]
           \/ row[v] # "absent"
  <2>1. CASE FetchPublish(w)
    <3>1. row[Video(w)] # "absent"
      BY <2>1 DEF FetchPublish, RowInv, RowKnown
    <3>2. \A v \in Videos : v # Video(w) =>
            toUpload'[[video |-> v, format |-> TRUE]]
              = toUpload[[video |-> v, format |-> TRUE]]
      <4>1. \A v \in Videos : v # Video(w) =>
              [video |-> v, format |-> TRUE] # [video |-> Video(w), format |-> TRUE]
        OBVIOUS
      <4>2. \A v \in Videos : [video |-> v, format |-> TRUE] \in Upload
        BY DEF Upload
      <4>3. PICK m : m = [video |-> Video(w), format |-> TRUE]
        OBVIOUS
      <4>4. toUpload' = [toUpload EXCEPT ![m] = @ + 1]
        BY <2>1, <4>3 DEF FetchPublish
      <4>5. \A n \in Upload : n # m => toUpload'[n] = toUpload[n]
        BY <1>0, <4>4
      <4> QED
        BY <4>1, <4>2, <4>3, <4>5
    <3> QED
      BY <1>0, <2>1, <3>1, <3>2 DEF FetchPublish, Return
  <2>2. CASE ~ FetchPublish(w)
    BY <1>0, <2>2 DEF Fetching, TakeFetch, FetchLookup, FetchProbe, FetchCheck,
         PutObject, OpenFile, WriteFile, FetchSave, Goto, queueVars
  <2> QED
    BY <2>1, <2>2
<1>2. RowBeforeUpload'
  <2>1. \A x \in UploadWorkers : cur'[x] = cur[x]
    BY <1>0, <1>1
  <2> QED
    BY <1>1, <2>1 DEF RowInv, RowBeforeUpload
<1>3. \A x \in FetchWorkers : x # w => RowKnown(x)'
  <2>1. ASSUME NEW x \in FetchWorkers, x # w PROVE RowKnown(x)'
    <3>1. /\ pc'[x] = pc[x] /\ seen'[x] = seen[x] /\ Video(x)' = Video(x)
          /\ pc[x] # "idle" => Video(x) \in Videos
      BY <1>0, <1>1, <2>1 DEF Video
    <3>2. RowKnown(x)
      BY DEF RowInv
    <3> QED
      BY <3>1, <3>2 DEF RowKnown
  <2> QED
    BY <2>1
<1>4. RowKnown(w)'
  <2>1. CASE (\E v \in Videos : TakeFetch(w, v)) \/ FetchPublish(w)
    BY <1>0, <2>1 DEF TakeFetch, FetchPublish, Return, RowKnown
  <2>2. CASE FetchLookup(w)
    <3>1. /\ Video(w)' = Video(w) /\ Video(w) \in Videos /\ row' = row
          /\ seen'[w] = row[Video(w)]
      BY <1>0, <2>2 DEF FetchLookup, Video, storeVars
    <3>2. row[Video(w)] = "absent" => pc'[w] = "probe"
      BY <1>0, <2>2 DEF FetchLookup
    <3> QED
      BY <3>1, <3>2 DEF RowKnown
  <2>3. CASE FetchSave(w)
    <3>1. /\ Video(w)' = Video(w) /\ row'[Video(w)] = "uncached" /\ pc'[w] = "publish"
      BY <1>0, <2>3 DEF FetchSave, Goto, Video
    <3> QED
      BY <3>1 DEF RowKnown
  <2>4. CASE \/ FetchProbe(w) \/ FetchCheck(w) \/ PutObject(w) \/ OpenFile(w)
             \/ WriteFile(w)
    <3>1. /\ UNCHANGED <<cur, seen, row>>
          /\ pc'[w] \in {"create", "publish", "writing", "save"}
          /\ pc[w] \in {"probe", "check", "create", "writing"}
          /\ pc'[w] = "publish" /\ pc[w] # "check" => seen[w] # "absent"
      BY <1>0, <2>4 DEF FetchProbe, FetchCheck, PutObject, OpenFile, WriteFile,
           AfterCreate, Goto, storeVars
    <3>2. RowKnown(w) /\ Video(w)' = Video(w)
      BY <3>1 DEF RowInv, Video
    <3> QED
      BY <3>1, <3>2 DEF RowKnown
  <2> QED
    BY <2>1, <2>2, <2>3, <2>4 DEF Fetching
<1> QED
  BY <1>2, <1>3, <1>4 DEF RowInv

LEMMA RowUploading ==
  ASSUME TypeInv, RowInv, NEW w \in UploadWorkers, Uploading(w), ~ GiveUp(w),
         \A v \in Videos : row[v] # "absent" => row'[v] # "absent"
  PROVE  RowInv'
<1>0. /\ w \in Workers /\ w \notin FetchWorkers /\ FetchWorkers \subseteq Workers
      /\ UploadWorkers \subseteq Workers
      /\ pc \in [Workers -> FetchPCs \cup UploadPCs] /\ seen \in [Workers -> Contents]
      /\ cur \in [Workers -> Upload \cup {None}] /\ toUpload \in [Upload -> Nat]
      /\ \A x \in Workers : pc[x] # "idle" => Video(x) \in Videos
      /\ None \notin Upload
  BY MediaConstantsOK, InHandType DEF Workers, TypeInv, WorkerTypes, DataTypes
<1>1. \A x \in FetchWorkers : RowKnown(x)'
  <2>1. \A x \in Workers : x # w => pc'[x] = pc[x] /\ cur'[x] = cur[x] /\ seen'[x] = seen[x]
    BY <1>0 DEF Uploading, TakeUpload, UploadUnknown, UploadShare, UploadLookup,
         UploadMissing, UploadSend, UploadSave, UploadDelete, Requeue, Goto, Return
  <2>2. ASSUME NEW x \in FetchWorkers PROVE RowKnown(x)'
    <3>1. /\ pc'[x] = pc[x] /\ seen'[x] = seen[x] /\ Video(x)' = Video(x)
          /\ pc[x] # "idle" => Video(x) \in Videos
      BY <1>0, <2>1 DEF Video
    <3>2. RowKnown(x)
      BY DEF RowInv
    <3> QED
      BY <3>1, <3>2 DEF RowKnown
  <2> QED
    BY <2>2
<1>2. ASSUME NEW m \in Upload, TakeUpload(w, m) PROVE RowBeforeUpload'
  <2>1. ASSUME NEW v \in Videos, row'[v] = "absent"
        PROVE  /\ toUpload'[[video |-> v, format |-> TRUE]] = 0
               /\ \A x \in UploadWorkers :
                    cur'[x] # None => cur'[x] # [video |-> v, format |-> TRUE]
    <3>0. PICK n : n = [video |-> v, format |-> TRUE]
      OBVIOUS
    <3>1. row[v] = "absent" /\ n \in Upload
      BY <2>1, <3>0 DEF Upload
    <3>2. toUpload[n] = 0 /\ \A x \in UploadWorkers : cur[x] # None => cur[x] # n
      BY <3>0, <3>1 DEF RowInv, RowBeforeUpload
    <3>3. /\ toUpload[m] > 0 /\ toUpload' = [toUpload EXCEPT ![m] = @ - 1]
          /\ cur' = [cur EXCEPT ![w] = m]
      BY <1>2 DEF TakeUpload
    <3>4. m # n
      BY <3>2, <3>3
    <3>5. toUpload'[n] = 0 /\ \A x \in UploadWorkers : cur'[x] # None => cur'[x] # n
      BY <1>0, <3>1, <3>2, <3>3, <3>4
    <3> QED
      BY <3>0, <3>5
  <2> QED
    BY <2>1 DEF RowBeforeUpload
<1>3. ASSUME \A m \in Upload : ~ TakeUpload(w, m) PROVE RowBeforeUpload'
  <2>1. /\ toUpload' = toUpload
        /\ \A x \in UploadWorkers : cur'[x] = cur[x] \/ cur'[x] = None
    BY <1>0, <1>3 DEF Uploading, UploadUnknown, UploadShare, UploadLookup,
         UploadMissing, UploadSend, UploadSave, UploadDelete, Requeue, Goto,
         Return, queueVars
  <2> QED
    BY <2>1 DEF RowInv, RowBeforeUpload
<1> QED
  BY <1>1, <1>2, <1>3 DEF RowInv

LEMMA RowOthers ==
  ASSUME TypeInv, RowInv,
         \/ \E w \in Workers : GiveUp(w)
         \/ \E v \in Videos : SendLink(v)
         \/ Interrupt \/ Restart \/ Crash \/ UNCHANGED vars,
         \A v \in Videos : row[v] # "absent" => row'[v] # "absent"
  PROVE  RowInv'
<1>0. /\ FetchWorkers \subseteq Workers /\ UploadWorkers \subseteq Workers
      /\ pc \in [Workers -> FetchPCs \cup UploadPCs]
      /\ cur \in [Workers -> Upload \cup {None}] /\ toUpload \in [Upload -> Nat]
      /\ \A x \in Workers : pc[x] # "idle" => Video(x) \in Videos
  BY InHandType DEF Workers, TypeInv, WorkerTypes, DataTypes
<1>1. /\ \A x \in Workers :
           \/ pc'[x] = "idle" /\ cur'[x] = None
           \/ pc'[x] = pc[x] /\ cur'[x] = cur[x] /\ seen'[x] = seen[x]
      /\ \A v \in Videos : toUpload'[[video |-> v, format |-> TRUE]]
                             = toUpload[[video |-> v, format |-> TRUE]]
  <2>1. CASE Restart
    <3>1. \A v \in Videos : [video |-> v, format |-> TRUE] \in Upload
      BY DEF Upload
    <3>2. ASSUME NEW m \in Upload, m.format = TRUE PROVE toUpload'[m] = toUpload[m]
      BY <1>0, <2>1, <3>2 DEF Restart
    <3> QED
      BY <2>1, <3>1, <3>2 DEF Restart, workerVars
  <2>2. CASE ~ Restart
    BY <1>0, <2>2 DEF GiveUp, LeaveJob, Return, SendLink, Interrupt, Crash, vars,
         workerVars, queueVars
  <2> QED
    BY <2>1, <2>2
<1>2. RowBeforeUpload'
  BY <1>0, <1>1 DEF RowInv, RowBeforeUpload
<1>3. ASSUME NEW x \in FetchWorkers PROVE RowKnown(x)'
  <2>1. CASE pc'[x] = "idle"
    BY <2>1 DEF RowKnown
  <2>2. CASE pc'[x] # "idle"
    <3>1. /\ pc'[x] = pc[x] /\ seen'[x] = seen[x] /\ Video(x)' = Video(x)
          /\ Video(x) \in Videos
      BY <1>0, <1>1, <2>2 DEF Video
    <3>2. RowKnown(x)
      BY DEF RowInv
    <3> QED
      BY <3>1, <3>2 DEF RowKnown
  <2> QED
    BY <2>1, <2>2
<1> QED
  BY <1>2, <1>3 DEF RowInv

LEMMA RowStep == TypeInv /\ RowInv /\ [Next]_vars => RowInv'
<1> SUFFICES ASSUME TypeInv, RowInv, [Next]_vars PROVE RowInv'
  OBVIOUS
<1>1. \A v \in Videos : row[v] # "absent" => row'[v] # "absent"
  BY RowsStay
<1>2. ASSUME NEW w \in FetchWorkers, Fetching(w) PROVE RowInv'
  BY <1>1, <1>2, RowFetching, RowOthers DEF Workers
<1>3. ASSUME NEW w \in UploadWorkers, Uploading(w) PROVE RowInv'
  BY <1>1, <1>3, RowUploading, RowOthers DEF Workers
<1> QED
  BY <1>1, <1>2, <1>3, RowOthers DEF Next

LEMMA RowInit == Init => RowInv
<1> SUFFICES ASSUME Init PROVE RowInv
  OBVIOUS
<1>1. /\ \A w \in Workers : pc[w] = "idle" /\ cur[w] = None
      /\ \A v \in Videos : toUpload[[video |-> v, format |-> TRUE]] = 0
  <2>1. \A v \in Videos : [video |-> v, format |-> TRUE] \in Upload
    BY DEF Upload
  <2> QED
    BY <2>1 DEF Init
<1> QED
  BY <1>1 DEF RowInv, RowBeforeUpload, RowKnown, Workers

\* A message that carries a format never meets a missing row: upload asks for
\* the row of a format only after fetch has saved it, whatever fails between.
THEOREM MediaRowBeforeUpload == Spec => []RowBeforeUpload
<1>1. RowInv => RowBeforeUpload
  BY DEF RowInv
<1> QED
  BY <1>1, TypeInvariant, RowInit, RowStep, PTL DEF Spec

-----------------------------------------------------------------------------
(* What is owed is somewhere.                                              *)

LEMMA WaitingFetch ==
  ASSUME DataTypes, NEW u \in Videos, NEW i \in Int,
         toFetch' = [toFetch EXCEPT ![u] = @ + i], toUpload' = toUpload
  PROVE  \A v \in Videos : Waiting(v)' = Waiting(v) + IF v = u THEN i ELSE 0
<1> SUFFICES ASSUME NEW v \in Videos
             PROVE  Waiting(v)' = Waiting(v) + IF v = u THEN i ELSE 0
  OBVIOUS
<1>1. PICK x, y : /\ x = toUpload[[video |-> v, format |-> TRUE]]
                  /\ y = toUpload[[video |-> v, format |-> FALSE]]
  OBVIOUS
<1>2. x \in Nat /\ y \in Nat /\ toFetch[v] \in Nat
  <2>1. /\ [video |-> v, format |-> TRUE] \in Upload
        /\ [video |-> v, format |-> FALSE] \in Upload
    BY DEF Upload
  <2> QED
    BY <1>1, <2>1 DEF DataTypes
<1>3. toFetch'[v] = toFetch[v] + IF v = u THEN i ELSE 0
  BY <1>2 DEF DataTypes
<1>4. Waiting(v) = toFetch[v] + x + y /\ Waiting(v)' = toFetch'[v] + x + y
  BY <1>1 DEF Waiting
<1> QED
  BY <1>2, <1>3, <1>4

LEMMA WaitingUpload ==
  ASSUME DataTypes, NEW m \in Upload, NEW i \in Int,
         toUpload' = [toUpload EXCEPT ![m] = @ + i], toFetch' = toFetch
  PROVE  \A v \in Videos :
           Waiting(v)' = Waiting(v) + IF v = m.video THEN i ELSE 0
<1> SUFFICES ASSUME NEW v \in Videos
             PROVE  Waiting(v)' = Waiting(v) + IF v = m.video THEN i ELSE 0
  OBVIOUS
<1>1. PICK mt, mf : /\ mt = [video |-> v, format |-> TRUE]
                    /\ mf = [video |-> v, format |-> FALSE]
  OBVIOUS
<1>2. /\ mt \in Upload /\ mf \in Upload /\ mt # mf
      /\ v = m.video <=> m = mt \/ m = mf
  <2>1. m = [video |-> m.video, format |-> m.format] /\ m.format \in BOOLEAN
    BY DEF Upload
  <2>2. mt.video = v /\ mf.video = v /\ mt.format = TRUE /\ mf.format = FALSE
    BY <1>1
  <2>3. v = m.video => m = mt \/ m = mf
    BY <1>1, <2>1
  <2>4. mt \in Upload /\ mf \in Upload
    BY <1>1 DEF Upload
  <2> QED
    BY <2>2, <2>3, <2>4
<1>3. toFetch[v] \in Nat /\ toUpload[mt] \in Nat /\ toUpload[mf] \in Nat
  BY <1>2 DEF DataTypes
<1>4. /\ toUpload'[mt] = toUpload[mt] + IF m = mt THEN i ELSE 0
      /\ toUpload'[mf] = toUpload[mf] + IF m = mf THEN i ELSE 0
  BY <1>2, <1>3 DEF DataTypes
<1>5. /\ Waiting(v) = toFetch[v] + toUpload[mt] + toUpload[mf]
      /\ Waiting(v)' = toFetch[v] + toUpload'[mt] + toUpload'[mf]
  BY <1>1 DEF Waiting
<1> QED
  BY <1>2, <1>3, <1>4, <1>5

LEMMA OwingFinite ==
  \A v : IsFiniteSet(Owing(v)) /\ Cardinality(Owing(v)) \in Nat
<1>1. IsFiniteSet(Workers)
  BY MediaConstantsOK, FS_Union DEF Workers
<1> QED
  BY <1>1, FS_Subset, FS_CardinalityType DEF Owing

\* One worker moves: the workers that owe a video change by that one at most.
LEMMA OwingMoves ==
  ASSUME NEW w \in Workers, NEW v,
         \A x \in Workers : x # w => pc'[x] = pc[x] /\ cur'[x] = cur[x]
  PROVE  /\ Cardinality(Owing(v)') + (IF w \in Owing(v) THEN 1 ELSE 0)
              = Cardinality(Owing(v)) + (IF w \in Owing(v)' THEN 1 ELSE 0)
         /\ Cardinality(Owing(v)) \in Nat /\ Cardinality(Owing(v)') \in Nat
<1> DEFINE old == Owing(v)
           new == Owing(v)'
<1>1. IsFiniteSet(Workers)
  BY MediaConstantsOK, FS_Union DEF Workers
<1>2. old \subseteq Workers /\ new \subseteq Workers
  BY DEF Owing
<1>3. IsFiniteSet(old) /\ IsFiniteSet(new)
  BY <1>1, <1>2, FS_Subset
<1>4. old \ {w} = new \ {w}
  BY DEF Owing, Video
<1> HIDE DEF old, new
<1>5. Cardinality(old) \in Nat /\ Cardinality(new) \in Nat
  BY <1>3, FS_CardinalityType
<1>6. Cardinality(old \ {w}) =
        IF w \in old THEN Cardinality(old) - 1 ELSE Cardinality(old)
  BY <1>3, FS_RemoveElement
<1>7. Cardinality(new \ {w}) =
        IF w \in new THEN Cardinality(new) - 1 ELSE Cardinality(new)
  BY <1>3, FS_RemoveElement
<1>8. /\ Cardinality(new) + (IF w \in old THEN 1 ELSE 0)
           = Cardinality(old) + (IF w \in new THEN 1 ELSE 0)
  BY <1>4, <1>5, <1>6, <1>7
<1> QED
  BY <1>5, <1>8 DEF old, new

\* Worker w moves i messages of video u into the queues, j and k jobs into the
\* list, and d deliveries into what is owed; a and b tell whether it owes u
\* before and after.
Moves(w, u, i, j, k, d, a, b) ==
    /\ \A x \in Workers : x # w => pc'[x] = pc[x] /\ cur'[x] = cur[x]
    /\ \A v \in Videos : Waiting(v)' = Waiting(v) + IF v = u THEN i ELSE 0
    /\ unfetched' = [unfetched EXCEPT ![u] = @ + j]
    /\ unuploaded' = [unuploaded EXCEPT ![u] = @ + k]
    /\ owed' = [owed EXCEPT ![u] = @ + d]
    /\ \A v \in Videos : /\ w \in Owing(v) <=> v = u /\ a = 1
                         /\ w \in Owing(v)' <=> v = u /\ b = 1
    /\ d = i + j + k + b - a

LEMMA MovesKeep ==
  ASSUME TypeInv, ServedOnce
  PROVE  \A w \in Workers, u \in Videos, i, j, k, d \in Int, a, b \in {0, 1} :
           Moves(w, u, i, j, k, d, a, b) => ServedOnce'
<1> SUFFICES ASSUME NEW w \in Workers, NEW u \in Videos,
                    NEW i \in Int, NEW j \in Int, NEW k \in Int, NEW d \in Int,
                    NEW a \in {0, 1}, NEW b \in {0, 1},
                    Moves(w, u, i, j, k, d, a, b), NEW v \in Videos
             PROVE  owed'[v] = Waiting(v)' + Cardinality(Owing(v)')
                                   + unfetched'[v] + unuploaded'[v]
  BY DEF ServedOnce
<1>0. /\ owed[v] \in Int /\ unfetched[v] \in Nat /\ unuploaded[v] \in Nat
      /\ Waiting(v) \in Nat
  BY WaitingType DEF TypeInv, DataTypes
<1>1. owed[v] = Waiting(v) + Cardinality(Owing(v)) + unfetched[v] + unuploaded[v]
  BY DEF ServedOnce
<1>2. /\ Cardinality(Owing(v)') + (IF w \in Owing(v) THEN 1 ELSE 0)
           = Cardinality(Owing(v)) + (IF w \in Owing(v)' THEN 1 ELSE 0)
      /\ Cardinality(Owing(v)) \in Nat /\ Cardinality(Owing(v)') \in Nat
  BY OwingMoves DEF Moves
<1>3. /\ owed'[v] = owed[v] + IF v = u THEN d ELSE 0
      /\ unfetched'[v] = unfetched[v] + IF v = u THEN j ELSE 0
      /\ unuploaded'[v] = unuploaded[v] + IF v = u THEN k ELSE 0
      /\ Waiting(v)' = Waiting(v) + IF v = u THEN i ELSE 0
  BY <1>0 DEF Moves, TypeInv, DataTypes
<1>4. /\ w \in Owing(v) <=> v = u /\ a = 1
      /\ w \in Owing(v)' <=> v = u /\ b = 1
      /\ d = i + j + k + b - a
  BY DEF Moves
<1>5. CASE v = u
  <2>1. /\ (IF w \in Owing(v) THEN 1 ELSE 0) = a
        /\ (IF w \in Owing(v)' THEN 1 ELSE 0) = b
    BY <1>4, <1>5
  <2> QED
    BY <1>0, <1>1, <1>2, <1>3, <1>4, <1>5, <2>1
<1>6. CASE v # u
  <2>1. /\ (IF w \in Owing(v) THEN 1 ELSE 0) = 0
        /\ (IF w \in Owing(v)' THEN 1 ELSE 0) = 0
    BY <1>4, <1>6
  <2> QED
    BY <1>0, <1>1, <1>2, <1>3, <1>6, <2>1
<1> QED
  BY <1>5, <1>6

\* Whether one worker owes a video.
LEMMA OwesVideo ==
  ASSUME NEW w \in Workers
  PROVE  /\ \A v : w \in Owing(v) <=>
              /\ pc[w] # "idle" /\ Video(w) = v
              /\ w \in UploadWorkers => pc[w] \notin {"save", "delete"}
         /\ \A v : w \in Owing(v)' <=>
              /\ pc'[w] # "idle" /\ Video(w)' = v
              /\ w \in UploadWorkers => pc'[w] \notin {"save", "delete"}
BY DEF Owing

\* A step that leaves the queues, the jobs and what is owed alone.
LEMMA NothingMoves ==
  ASSUME TypeInv, NEW u \in Videos
  PROVE  /\ UNCHANGED queueVars =>
              \A v \in Videos : Waiting(v)' = Waiting(v) + IF v = u THEN 0 ELSE 0
         /\ UNCHANGED unfetched => unfetched' = [unfetched EXCEPT ![u] = @ + 0]
         /\ UNCHANGED unuploaded => unuploaded' = [unuploaded EXCEPT ![u] = @ + 0]
         /\ UNCHANGED owed => owed' = [owed EXCEPT ![u] = @ + 0]
<1>1. /\ unfetched \in [Videos -> Nat] /\ unuploaded \in [Videos -> Nat]
      /\ owed \in [Videos -> Int] /\ \A v \in Videos : Waiting(v) \in Nat
  BY WaitingType DEF TypeInv, DataTypes
<1>2. ASSUME UNCHANGED queueVars, NEW v \in Videos
      PROVE  Waiting(v)' = Waiting(v) + IF v = u THEN 0 ELSE 0
  <2>1. Waiting(v)' = Waiting(v)
    BY <1>2 DEF queueVars, Waiting
  <2> QED
    BY <1>1, <2>1
<1> QED
  BY <1>1, <1>2

LEMMA ServedFetching ==
  ASSUME TypeInv, ServedOnce, NEW w \in FetchWorkers, Fetching(w), ~ GiveUp(w)
  PROVE  ServedOnce'
<1>0. /\ w \in Workers /\ w \notin UploadWorkers
      /\ pc \in [Workers -> FetchPCs \cup UploadPCs]
      /\ cur \in [Workers -> Upload \cup {None}]
      /\ DataTypes /\ WorkerTypes
      /\ -1 \in Int /\ 0 \in Int /\ 1 \in Int /\ 0 \in {0, 1} /\ 1 \in {0, 1}
  BY MediaConstantsOK DEF Workers, TypeInv, WorkerTypes
<1>1. ASSUME NEW v \in Videos, TakeFetch(w, v) PROVE ServedOnce'
  <2>1. /\ pc[w] = "idle" /\ pc'[w] = "lookup" /\ Video(w)' = v
        /\ \A x \in Workers : x # w => pc'[x] = pc[x] /\ cur'[x] = cur[x]
    BY <1>0, <1>1 DEF TakeFetch, Video
  <2>2. /\ toFetch' = [toFetch EXCEPT ![v] = @ - 1] /\ toUpload' = toUpload
        /\ UNCHANGED <<unfetched, unuploaded, owed>>
    BY <1>1 DEF TakeFetch, jobVars, history
  <2>3. toFetch' = [toFetch EXCEPT ![v] = @ + (-1)]
    BY <1>0, <2>2 DEF DataTypes
  <2>4. \A x \in Videos : Waiting(x)' = Waiting(x) + IF x = v THEN -1 ELSE 0
    BY <1>0, <2>2, <2>3, WaitingFetch
  <2>5. \A x \in Videos : /\ w \in Owing(x) <=> x = v /\ 0 = 1
                          /\ w \in Owing(x)' <=> x = v /\ 1 = 1
    BY <1>0, <2>1, OwesVideo
  <2>6. Moves(w, v, -1, 0, 0, 0, 0, 1)
    BY <2>1, <2>2, <2>4, <2>5, NothingMoves DEF Moves
  <2> QED
    BY <1>0, <2>6, MovesKeep
<1>2. CASE FetchPublish(w)
  <2> DEFINE u == Video(w)
  <2>0. PICK m : m = [video |-> u, format |-> TRUE]
    OBVIOUS
  <2>1. /\ pc[w] = "publish" /\ pc'[w] = "idle" /\ u \in Videos
        /\ \A x \in Workers : x # w => pc'[x] = pc[x] /\ cur'[x] = cur[x]
    BY <1>0, <1>2, InHandType DEF FetchPublish, Return
  <2>2. /\ toUpload' = [toUpload EXCEPT ![m] = @ + 1] /\ toFetch' = toFetch
        /\ UNCHANGED <<unfetched, unuploaded, owed>>
    BY <1>2, <2>0 DEF FetchPublish, jobVars, history
  <2>3. m \in Upload /\ m.video = u
    BY <2>0, <2>1 DEF Upload
  <2>4. \A x \in Videos : Waiting(x)' = Waiting(x) + IF x = u THEN 1 ELSE 0
    BY <1>0, <2>2, <2>3, WaitingUpload
  <2>5. \A x \in Videos : /\ w \in Owing(x) <=> x = u /\ 1 = 1
                          /\ w \in Owing(x)' <=> x = u /\ 0 = 1
    BY <1>0, <2>1, OwesVideo
  <2>6. PICK v \in Videos : v = u
    BY <2>1
  <2>7. Moves(w, v, 1, 0, 0, 0, 1, 0)
    BY <2>1, <2>2, <2>4, <2>5, <2>6, NothingMoves DEF Moves
  <2> QED
    BY <1>0, <2>7, MovesKeep
<1>3. CASE \/ FetchLookup(w) \/ FetchProbe(w) \/ FetchCheck(w) \/ PutObject(w)
           \/ OpenFile(w) \/ WriteFile(w) \/ FetchSave(w)
  <2>1. /\ pc[w] # "idle" /\ pc'[w] # "idle" /\ cur' = cur
        /\ \A x \in Workers : x # w => pc'[x] = pc[x]
        /\ UNCHANGED <<queueVars, unfetched, unuploaded, owed>>
    BY <1>0, <1>3 DEF FetchLookup, FetchProbe, FetchCheck, PutObject, OpenFile,
         WriteFile, FetchSave, Goto, AfterCreate, queueVars, jobVars, history
  <2>2. PICK v \in Videos : v = Video(w)
    BY <1>0, <2>1, InHandType
  <2>3. Video(w)' = v
    BY <2>1, <2>2 DEF Video
  <2>4. \A x \in Videos : /\ w \in Owing(x) <=> x = v /\ 1 = 1
                          /\ w \in Owing(x)' <=> x = v /\ 1 = 1
    BY <1>0, <2>1, <2>2, <2>3, OwesVideo
  <2>5. Moves(w, v, 0, 0, 0, 0, 1, 1)
    BY <2>1, <2>4, NothingMoves DEF Moves
  <2> QED
    BY <1>0, <2>5, MovesKeep
<1> QED
  BY <1>1, <1>2, <1>3 DEF Fetching

LEMMA ServedUploading ==
  ASSUME TypeInv, ServedOnce, NEW w \in UploadWorkers, Uploading(w), ~ GiveUp(w)
  PROVE  ServedOnce'
<1>0. /\ w \in Workers
      /\ pc \in [Workers -> FetchPCs \cup UploadPCs]
      /\ cur \in [Workers -> Upload \cup {None}]
      /\ DataTypes /\ WorkerTypes
      /\ -1 \in Int /\ 0 \in Int /\ 1 \in Int /\ 0 \in {0, 1} /\ 1 \in {0, 1}
  BY DEF Workers, TypeInv, WorkerTypes
<1>1. ASSUME NEW m \in Upload, TakeUpload(w, m) PROVE ServedOnce'
  <2>0. PICK v \in Videos : v = m.video
    BY DEF Upload
  <2>1. /\ pc[w] = "idle" /\ pc'[w] = "lookup" /\ Video(w)' = v
        /\ \A x \in Workers : x # w => pc'[x] = pc[x] /\ cur'[x] = cur[x]
    BY <1>0, <1>1, <2>0 DEF TakeUpload, Video
  <2>2. /\ toUpload' = [toUpload EXCEPT ![m] = @ - 1] /\ toFetch' = toFetch
        /\ UNCHANGED <<unfetched, unuploaded, owed>>
    BY <1>1 DEF TakeUpload, jobVars, history
  <2>3. toUpload' = [toUpload EXCEPT ![m] = @ + (-1)]
    BY <1>0, <2>2 DEF DataTypes
  <2>4. \A x \in Videos : Waiting(x)' = Waiting(x) + IF x = v THEN -1 ELSE 0
    BY <1>0, <2>0, <2>2, <2>3, WaitingUpload
  <2>5. \A x \in Videos : /\ w \in Owing(x) <=> x = v /\ 0 = 1
                          /\ w \in Owing(x)' <=> x = v /\ 1 = 1
    BY <1>0, <2>1, OwesVideo
  <2>6. Moves(w, v, -1, 0, 0, 0, 0, 1)
    BY <2>1, <2>2, <2>4, <2>5, NothingMoves DEF Moves
  <2> QED
    BY <1>0, <2>6, MovesKeep
<1>2. CASE UploadUnknown(w) \/ UploadMissing(w)
  <2>1. /\ pc[w] \in {"lookup", "object"} /\ pc'[w] = "idle"
        /\ \A x \in Workers : x # w => pc'[x] = pc[x] /\ cur'[x] = cur[x]
    BY <1>0, <1>2 DEF UploadUnknown, UploadMissing, Requeue, Return
  <2>2. PICK v \in Videos : v = Video(w)
    BY <1>0, <2>1, InHandType
  <2>3. /\ toFetch' = [toFetch EXCEPT ![v] = @ + 1] /\ toUpload' = toUpload
        /\ UNCHANGED <<unfetched, unuploaded, owed>>
    BY <1>2, <2>2 DEF UploadUnknown, UploadMissing, Requeue, jobVars, history
  <2>4. \A x \in Videos : Waiting(x)' = Waiting(x) + IF x = v THEN 1 ELSE 0
    BY <1>0, <2>3, WaitingFetch
  <2>5. \A x \in Videos : /\ w \in Owing(x) <=> x = v /\ 1 = 1
                          /\ w \in Owing(x)' <=> x = v /\ 0 = 1
    BY <1>0, <2>1, <2>2, OwesVideo
  <2>6. Moves(w, v, 1, 0, 0, 0, 1, 0)
    BY <2>1, <2>3, <2>4, <2>5, NothingMoves DEF Moves
  <2> QED
    BY <1>0, <2>6, MovesKeep
<1>3. CASE UploadShare(w) \/ UploadSend(w)
  <2>1. /\ pc[w] \in {"lookup", "object"} /\ pc'[w] \in {"idle", "save"}
        /\ \A x \in Workers : x # w => pc'[x] = pc[x] /\ cur'[x] = cur[x]
    BY <1>0, <1>3 DEF UploadShare, UploadSend, Return
  <2>2. PICK v \in Videos : v = Video(w)
    BY <1>0, <2>1, InHandType
  <2>3. /\ UNCHANGED <<queueVars, unfetched, unuploaded>>
        /\ owed' = [owed EXCEPT ![v] = @ - 1]
    BY <1>3, <2>2 DEF UploadShare, UploadSend, Serve, queueVars, jobVars
  <2>4. owed' = [owed EXCEPT ![v] = @ + (-1)]
    BY <1>0, <2>3 DEF DataTypes
  <2>5. \A x \in Videos : /\ w \in Owing(x) <=> x = v /\ 1 = 1
                          /\ w \in Owing(x)' <=> x = v /\ 0 = 1
    BY <1>0, <2>1, <2>2, OwesVideo
  <2>6. Moves(w, v, 0, 0, 0, -1, 1, 0)
    <3>1. \A x \in Videos : Waiting(x)' = Waiting(x) + IF x = v THEN 0 ELSE 0
      BY <2>3, NothingMoves
    <3>2. /\ unfetched' = [unfetched EXCEPT ![v] = @ + 0]
          /\ unuploaded' = [unuploaded EXCEPT ![v] = @ + 0]
      BY <2>3, NothingMoves
    <3>3. -1 = 0 + 0 + 0 + 0 - 1
      OBVIOUS
    <3> QED
      BY <2>1, <2>4, <2>5, <3>1, <3>2, <3>3 DEF Moves
  <2> QED
    BY <1>0, <2>6, MovesKeep
<1>4. CASE UploadSave(w) \/ UploadDelete(w)
  <2>1. /\ pc[w] \in {"save", "delete"} /\ pc'[w] \in {"idle", "delete"}
        /\ \A x \in Workers : x # w => pc'[x] = pc[x] /\ cur'[x] = cur[x]
        /\ UNCHANGED <<queueVars, unfetched, unuploaded, owed>>
    BY <1>0, <1>4 DEF UploadSave, UploadDelete, Goto, Return, queueVars, jobVars,
         history
  <2>2. PICK v \in Videos : v = Video(w)
    BY <1>0, <2>1, InHandType
  <2>3. \A x \in Videos : /\ w \in Owing(x) <=> x = v /\ 0 = 1
                          /\ w \in Owing(x)' <=> x = v /\ 0 = 1
    BY <1>0, <2>1, <2>2, OwesVideo
  <2>4. Moves(w, v, 0, 0, 0, 0, 0, 0)
    BY <2>1, <2>3, NothingMoves DEF Moves
  <2> QED
    BY <1>0, <2>4, MovesKeep
<1>5. CASE UploadLookup(w)
  <2>1. /\ pc[w] = "lookup" /\ pc'[w] = "object" /\ cur' = cur
        /\ \A x \in Workers : x # w => pc'[x] = pc[x]
        /\ UNCHANGED <<queueVars, unfetched, unuploaded, owed>>
    BY <1>0, <1>5 DEF UploadLookup, Goto, queueVars, jobVars, history
  <2>2. PICK v \in Videos : v = Video(w)
    BY <1>0, <2>1, InHandType
  <2>3. Video(w)' = v
    BY <2>1, <2>2 DEF Video
  <2>4. \A x \in Videos : /\ w \in Owing(x) <=> x = v /\ 1 = 1
                          /\ w \in Owing(x)' <=> x = v /\ 1 = 1
    BY <1>0, <2>1, <2>2, <2>3, OwesVideo
  <2>5. Moves(w, v, 0, 0, 0, 0, 1, 1)
    BY <2>1, <2>4, NothingMoves DEF Moves
  <2> QED
    BY <1>0, <2>5, MovesKeep
<1> QED
  BY <1>1, <1>2, <1>3, <1>4, <1>5 DEF Uploading

\* A call that fails leaves its job behind, and with it what was still to be
\* done: once more from the start for an upload that has been sent.
LEMMA ServedGiveUp ==
  ASSUME TypeInv, ServedOnce, NEW w \in Workers, GiveUp(w)
  PROVE  ServedOnce'
<1>0. /\ pc \in [Workers -> FetchPCs \cup UploadPCs]
      /\ cur \in [Workers -> Upload \cup {None}]
      /\ DataTypes /\ WorkerTypes
      /\ -1 \in Int /\ 0 \in Int /\ 1 \in Int /\ 0 \in {0, 1} /\ 1 \in {0, 1}
  BY DEF TypeInv, WorkerTypes
<1>1. /\ pc[w] # "idle" /\ pc'[w] = "idle"
      /\ \A x \in Workers : x # w => pc'[x] = pc[x] /\ cur'[x] = cur[x]
      /\ UNCHANGED queueVars
  BY <1>0 DEF GiveUp, LeaveJob, Return
<1>2. PICK v \in Videos : v = Video(w)
  BY <1>0, <1>1, InHandType
<1>3. \A x \in Videos : Waiting(x)' = Waiting(x) + IF x = v THEN 0 ELSE 0
  BY <1>1, NothingMoves
<1>4. CASE w \in FetchWorkers
  <2>1. w \notin UploadWorkers
    BY <1>4, MediaConstantsOK
  <2>2. /\ unfetched' = [unfetched EXCEPT ![v] = @ + 1]
        /\ UNCHANGED <<unuploaded, owed>>
    BY <1>2, <1>4 DEF GiveUp, LeaveJob
  <2>3. \A x \in Videos : /\ w \in Owing(x) <=> x = v /\ 1 = 1
                          /\ w \in Owing(x)' <=> x = v /\ 0 = 1
    BY <1>1, <1>2, <2>1, OwesVideo
  <2>4. /\ unuploaded' = [unuploaded EXCEPT ![v] = @ + 0]
        /\ owed' = [owed EXCEPT ![v] = @ + 0]
    BY <2>2, NothingMoves
  <2>5. 0 = 0 + 1 + 0 + 0 - 1
    OBVIOUS
  <2>6. Moves(w, v, 0, 1, 0, 0, 1, 0)
    BY <1>1, <1>3, <2>2, <2>3, <2>4, <2>5 DEF Moves
  <2> QED
    BY <1>0, <2>6, MovesKeep
<1>5. CASE w \notin FetchWorkers /\ pc[w] \in {"save", "delete"}
  <2>1. w \in UploadWorkers
    BY <1>5 DEF Workers
  <2>2. /\ unuploaded' = [unuploaded EXCEPT ![v] = @ + 1]
        /\ owed' = [owed EXCEPT ![v] = @ + 1]
        /\ UNCHANGED unfetched
    BY <1>0, <1>2, <1>5 DEF GiveUp, LeaveJob
  <2>3. \A x \in Videos : /\ w \in Owing(x) <=> x = v /\ 0 = 1
                          /\ w \in Owing(x)' <=> x = v /\ 0 = 1
    BY <1>1, <1>5, <2>1, OwesVideo
  <2>4. unfetched' = [unfetched EXCEPT ![v] = @ + 0]
    BY <2>2, NothingMoves
  <2>5. 1 = 0 + 0 + 1 + 0 - 0
    OBVIOUS
  <2>6. Moves(w, v, 0, 0, 1, 1, 0, 0)
    BY <1>1, <1>3, <2>2, <2>3, <2>4, <2>5 DEF Moves
  <2> QED
    BY <1>0, <2>6, MovesKeep
<1>6. CASE w \notin FetchWorkers /\ pc[w] \notin {"save", "delete"}
  <2>1. w \in UploadWorkers
    BY <1>6 DEF Workers
  <2>2. /\ unuploaded' = [unuploaded EXCEPT ![v] = @ + 1]
        /\ UNCHANGED owed
        /\ UNCHANGED unfetched
    <3>1. /\ unuploaded' = [unuploaded EXCEPT ![v] = @ + 1]
          /\ owed' = [owed EXCEPT ![v] = @] /\ UNCHANGED unfetched
      BY <1>2, <1>6 DEF GiveUp, LeaveJob
    <3>2. owed \in [Videos -> Int]
      BY <1>0 DEF DataTypes
    <3> QED
      BY <3>1, <3>2
  <2>3. \A x \in Videos : /\ w \in Owing(x) <=> x = v /\ 1 = 1
                          /\ w \in Owing(x)' <=> x = v /\ 0 = 1
    BY <1>1, <1>2, <1>6, <2>1, OwesVideo
  <2>4. /\ unfetched' = [unfetched EXCEPT ![v] = @ + 0]
        /\ owed' = [owed EXCEPT ![v] = @ + 0]
    BY <2>2, NothingMoves
  <2>5. 0 = 0 + 0 + 1 + 0 - 1
    OBVIOUS
  <2>6. Moves(w, v, 0, 0, 1, 0, 1, 0)
    BY <1>1, <1>3, <2>2, <2>3, <2>4, <2>5 DEF Moves
  <2> QED
    BY <1>0, <2>6, MovesKeep
<1> QED
  BY <1>4, <1>5, <1>6

\* Where nobody moves, the workers owe what they owed.
LEMMA OwingStays ==
  ASSUME UNCHANGED <<pc, cur>>
  PROVE  \A v : Owing(v)' = Owing(v)
BY DEF Owing, Video

LEMMA ServedOthers ==
  ASSUME TypeInv, ServedOnce,
         \/ \E v \in Videos : SendLink(v)
         \/ Interrupt \/ Restart \/ Crash \/ UNCHANGED vars
  PROVE  ServedOnce'
<1>0. /\ unfetched \in [Videos -> Nat] /\ unuploaded \in [Videos -> Nat]
      /\ owed \in [Videos -> Int] /\ toFetch \in [Videos -> Nat]
      /\ toUpload \in [Upload -> Nat] /\ DataTypes /\ 1 \in Int
      /\ \A v \in Videos : Waiting(v) \in Nat
      /\ \A v : Cardinality(Owing(v)) \in Nat
  BY WaitingType, OwingFinite DEF TypeInv, DataTypes
<1>1. ASSUME NEW u \in Videos, SendLink(u) PROVE ServedOnce'
  <2>1. /\ toFetch' = [toFetch EXCEPT ![u] = @ + 1] /\ toUpload' = toUpload
        /\ owed' = [owed EXCEPT ![u] = @ + 1]
        /\ UNCHANGED <<pc, cur, unfetched, unuploaded>>
    BY <1>1 DEF SendLink, workerVars, jobVars
  <2>2. \A v \in Videos : Waiting(v)' = Waiting(v) + IF v = u THEN 1 ELSE 0
    BY <1>0, <2>1, WaitingFetch
  <2>3. \A v : Owing(v)' = Owing(v)
    BY <2>1, OwingStays
  <2>4. ASSUME NEW v \in Videos
        PROVE  owed'[v] = Waiting(v)' + Cardinality(Owing(v)')
                              + unfetched'[v] + unuploaded'[v]
    <3>1. /\ owed'[v] = owed[v] + IF v = u THEN 1 ELSE 0
          /\ unfetched'[v] = unfetched[v] /\ unuploaded'[v] = unuploaded[v]
      BY <1>0, <2>1
    <3>2. owed[v] = Waiting(v) + Cardinality(Owing(v)) + unfetched[v] + unuploaded[v]
      BY DEF ServedOnce
    <3>3. Cardinality(Owing(v)') = Cardinality(Owing(v))
      BY <2>3
    <3> QED
      BY <1>0, <2>2, <3>1, <3>2, <3>3
  <2> QED
    BY <2>4 DEF ServedOnce
<1>2. CASE Interrupt \/ UNCHANGED vars
  <2>1. UNCHANGED <<toFetch, toUpload, owed, pc, cur, unfetched, unuploaded>>
    BY <1>2 DEF Interrupt, vars, queueVars, workerVars, jobVars, history
  <2>2. \A v : Owing(v)' = Owing(v) /\ Waiting(v)' = Waiting(v)
    BY <2>1, OwingStays DEF Waiting
  <2>3. ASSUME NEW v \in Videos
        PROVE  owed'[v] = Waiting(v)' + Cardinality(Owing(v)')
                              + unfetched'[v] + unuploaded'[v]
    BY <2>1, <2>2 DEF ServedOnce
  <2> QED
    BY <2>3 DEF ServedOnce
<1>3. CASE Restart
  <2>1. UNCHANGED <<pc, cur, owed>>
    BY <1>3 DEF Restart, workerVars, history
  <2>2. \A v : Owing(v)' = Owing(v)
    BY <2>1, OwingStays
  <2>3. ASSUME NEW v \in Videos
        PROVE  /\ Waiting(v)' = Waiting(v) + unfetched[v] + unuploaded[v]
               /\ unfetched'[v] = 0 /\ unuploaded'[v] = 0
    <3>1. PICK mt, mf : /\ mt = [video |-> v, format |-> TRUE]
                        /\ mf = [video |-> v, format |-> FALSE]
      OBVIOUS
    <3>2. /\ mt \in Upload /\ mf \in Upload /\ mt.format /\ ~ mf.format
          /\ mt.video = v /\ mf.video = v
      BY <3>1 DEF Upload
    <3>3. /\ toFetch'[v] = toFetch[v] + unfetched[v]
          /\ toUpload'[mt] = toUpload[mt] + 0
          /\ toUpload'[mf] = toUpload[mf] + unuploaded[v]
      BY <1>3, <3>2 DEF Restart
    <3>4. /\ Waiting(v) = toFetch[v] + toUpload[mt] + toUpload[mf]
          /\ Waiting(v)' = toFetch'[v] + toUpload'[mt] + toUpload'[mf]
      BY <3>1 DEF Waiting
    <3>5. unfetched'[v] = 0 /\ unuploaded'[v] = 0
      BY <1>3 DEF Restart
    <3>6. /\ toFetch[v] \in Nat /\ toUpload[mt] \in Nat /\ toUpload[mf] \in Nat
          /\ unfetched[v] \in Nat /\ unuploaded[v] \in Nat
      BY <1>0, <3>2
    <3> QED
      BY <3>3, <3>4, <3>5, <3>6
  <2>4. ASSUME NEW v \in Videos
        PROVE  owed'[v] = Waiting(v)' + Cardinality(Owing(v)')
                              + unfetched'[v] + unuploaded'[v]
    <3>1. owed[v] = Waiting(v) + Cardinality(Owing(v)) + unfetched[v] + unuploaded[v]
      BY DEF ServedOnce
    <3>2. Cardinality(Owing(v)') = Cardinality(Owing(v)) /\ owed'[v] = owed[v]
      BY <2>1, <2>2
    <3> QED
      BY <1>0, <2>3, <3>1, <3>2
  <2> QED
    BY <2>4 DEF ServedOnce
<1>4. CASE Crash
  <2>1. ASSUME NEW v \in Videos
        PROVE  owed'[v] = Waiting(v)' + Cardinality(Owing(v)')
                              + unfetched'[v] + unuploaded'[v]
    <3>1. /\ owed'[v] = Waiting(v) /\ unfetched'[v] = 0 /\ unuploaded'[v] = 0
          /\ UNCHANGED <<toFetch, toUpload>>
      BY <1>4 DEF Crash, queueVars
    <3>2. Waiting(v)' = Waiting(v)
      BY <3>1 DEF Waiting
    <3>3. Owing(v)' = {}
      BY <1>4 DEF Crash, Owing
    <3> QED
      BY <1>0, <3>1, <3>2, <3>3, FS_EmptySet
  <2> QED
    BY <2>1 DEF ServedOnce
<1> QED
  BY <1>1, <1>2, <1>3, <1>4

LEMMA ServedStep == TypeInv /\ ServedOnce /\ [Next]_vars => ServedOnce'
<1> SUFFICES ASSUME TypeInv, ServedOnce, [Next]_vars PROVE ServedOnce'
  OBVIOUS
<1>1. ASSUME NEW w \in FetchWorkers, Fetching(w) PROVE ServedOnce'
  BY <1>1, ServedFetching, ServedGiveUp DEF Workers
<1>2. ASSUME NEW w \in UploadWorkers, Uploading(w) PROVE ServedOnce'
  BY <1>2, ServedUploading, ServedGiveUp DEF Workers
<1> QED
  BY <1>1, <1>2, ServedOthers DEF Next

LEMMA ServedInit == Init => ServedOnce
<1> SUFFICES ASSUME Init, NEW v \in Videos
             PROVE  owed[v] = Waiting(v) + Cardinality(Owing(v))
                                  + unfetched[v] + unuploaded[v]
  BY DEF ServedOnce
<1>1. /\ [video |-> v, format |-> TRUE] \in Upload
      /\ [video |-> v, format |-> FALSE] \in Upload
  BY DEF Upload
<1>2. Owing(v) = {}
  BY DEF Init, Owing
<1>3. Waiting(v) = 0
  BY <1>1 DEF Init, Waiting
<1> QED
  BY <1>2, <1>3, FS_EmptySet DEF Init

\* For any number of workers and links, whatever overlaps and whatever fails,
\* what a video still owes its users is in a queue, with a worker or among the
\* jobs left for finalization: nothing is dropped, and nothing is served twice
\* that was not to be.
THEOREM MediaServedOnce == Spec => []ServedOnce
BY TypeInvariant, ServedInit, ServedStep, PTL DEF Spec

-----------------------------------------------------------------------------
(* A row without file id is on its way to getting one.                     *)

\* A worker that has not yet handed video v on, nor saved what it sent.
Carries(w, v) == pc[w] # "idle" /\ pc[w] # "delete" /\ Video(w) = v

Repair(v) ==
    \/ Waiting(v) > 0
    \/ unfetched[v] + unuploaded[v] > 0
    \/ v \in stranded
    \/ \E w \in Workers : Carries(w, v)

RepairInv == \A v \in Videos : row[v] = "uncached" => Repair(v)

\* One worker moves: whatever it takes away it carries on, or leaves behind.
LEMMA RepairKeeps ==
  ASSUME TypeInv, TypeInv', RepairInv, NEW w \in Workers, NEW v \in Videos,
         \A x \in Workers : x # w => pc'[x] = pc[x] /\ cur'[x] = cur[x],
         stranded' = stranded,
         Waiting(v)' >= Waiting(v) \/ Carries(w, v)',
         unfetched'[v] >= unfetched[v], unuploaded'[v] >= unuploaded[v],
         Carries(w, v) => \/ Carries(w, v)' \/ Waiting(v)' > 0
                          \/ unfetched'[v] + unuploaded'[v] > 0
                          \/ row'[v] # "uncached",
         row'[v] = "uncached" => \/ row[v] = "uncached" \/ Carries(w, v)'
                                 \/ unfetched'[v] + unuploaded'[v] > 0
  PROVE  row'[v] = "uncached" => Repair(v)'
<1> SUFFICES ASSUME row'[v] = "uncached" PROVE Repair(v)'
  OBVIOUS
<1>1. /\ Waiting(v) \in Nat /\ unfetched[v] \in Nat /\ unuploaded[v] \in Nat
  BY WaitingType DEF TypeInv, DataTypes
<1>2. Waiting(v)' \in Nat /\ unfetched'[v] \in Nat /\ unuploaded'[v] \in Nat
  <2>1. ASSUME DataTypes PROVE Waiting(v) \in Nat
    BY <2>1, WaitingType
  <2>2. DataTypes => Waiting(v) \in Nat
    BY <2>1
  <2>3. DataTypes' => Waiting(v)' \in Nat
    <3>1. DataTypes' => /\ toFetch'[v] \in Nat
                        /\ toUpload'[[video |-> v, format |-> TRUE]] \in Nat
                        /\ toUpload'[[video |-> v, format |-> FALSE]] \in Nat
      <4>1. /\ [video |-> v, format |-> TRUE] \in Upload
            /\ [video |-> v, format |-> FALSE] \in Upload
        BY DEF Upload
      <4> QED
        BY <4>1 DEF DataTypes
    <3> QED
      BY <3>1 DEF Waiting
  <2> QED
    BY <2>3 DEF TypeInv, DataTypes
<1>3. CASE Carries(w, v)' \/ unfetched'[v] + unuploaded'[v] > 0
  BY <1>3 DEF Repair
<1>4. CASE row[v] = "uncached" /\ ~ Carries(w, v)'
  <2>1. Repair(v)
    BY <1>4 DEF RepairInv
  <2>2. CASE Waiting(v) > 0
    BY <1>1, <1>2, <1>4, <2>2 DEF Repair
  <2>3. CASE unfetched[v] + unuploaded[v] > 0
    BY <1>1, <1>2, <2>3 DEF Repair
  <2>4. CASE v \in stranded
    BY <2>4 DEF Repair
  <2>5. ASSUME NEW x \in Workers, Carries(x, v) PROVE Repair(v)'
    <3>1. CASE x = w
      BY <1>4, <2>5, <3>1 DEF Repair
    <3>2. CASE x # w
      <4>1. Carries(x, v)'
        BY <2>5, <3>2 DEF Carries, Video
      <4> QED
        BY <4>1 DEF Repair
    <3> QED
      BY <3>1, <3>2
  <2> QED
    BY <2>1, <2>2, <2>3, <2>4, <2>5 DEF Repair
<1> QED
  BY <1>3, <1>4

LEMMA RepairFetching ==
  ASSUME TypeInv, TypeInv', RepairInv, NEW w \in FetchWorkers, Fetching(w),
         ~ GiveUp(w), NEW v \in Videos
  PROVE  row'[v] = "uncached" => Repair(v)'
<1>0. /\ w \in Workers /\ w \notin UploadWorkers /\ pc[w] # "delete"
      /\ pc \in [Workers -> FetchPCs \cup UploadPCs]
      /\ cur \in [Workers -> Upload \cup {None}] /\ row \in [Videos -> Contents]
      /\ DataTypes /\ WorkerTypes /\ Waiting(v) \in Nat
      /\ unfetched[v] \in Nat /\ unuploaded[v] \in Nat /\ -1 \in Int /\ 1 \in Int
  BY MediaConstantsOK, WaitingType DEF Workers, TypeInv, WorkerTypes, DataTypes,
     FetchPCs
<1>1. /\ UNCHANGED <<unfetched, unuploaded, stranded>>
      /\ \A x \in Workers : x # w => pc'[x] = pc[x] /\ cur'[x] = cur[x]
  BY <1>0 DEF Fetching, TakeFetch, FetchLookup, FetchProbe, FetchCheck, PutObject,
       OpenFile, WriteFile, FetchSave, FetchPublish, Goto, Return, jobVars, history
<1>2. unfetched'[v] >= unfetched[v] /\ unuploaded'[v] >= unuploaded[v]
  BY <1>0, <1>1
<1>3. ASSUME NEW u \in Videos, TakeFetch(w, u)
      PROVE  row'[v] = "uncached" => Repair(v)'
  <2>1. /\ row' = row /\ pc[w] = "idle" /\ pc'[w] = "lookup" /\ Video(w)' = u
    BY <1>0, <1>3 DEF TakeFetch, storeVars, Video
  <2>2. toFetch' = [toFetch EXCEPT ![u] = @ + (-1)] /\ toUpload' = toUpload
    BY <1>0, <1>3 DEF TakeFetch, DataTypes
  <2>3. Waiting(v)' = Waiting(v) + IF v = u THEN -1 ELSE 0
    BY <1>0, <2>2, WaitingFetch
  <2>4. Waiting(v)' >= Waiting(v) \/ Carries(w, v)'
    BY <1>0, <2>1, <2>3 DEF Carries
  <2>5. ~ Carries(w, v)
    BY <2>1 DEF Carries
  <2> QED
    BY <1>0, <1>1, <1>2, <2>1, <2>4, <2>5, RepairKeeps
<1>4. CASE FetchPublish(w)
  <2> DEFINE u == Video(w)
  <2>0. PICK m : m = [video |-> u, format |-> TRUE]
    OBVIOUS
  <2>1. u \in Videos /\ row' = row
    BY <1>0, <1>4, InHandType DEF FetchPublish, storeVars
  <2>2. /\ toUpload' = [toUpload EXCEPT ![m] = @ + 1] /\ toFetch' = toFetch
    BY <1>4, <2>0 DEF FetchPublish
  <2>3. m \in Upload /\ m.video = u
    BY <2>0, <2>1 DEF Upload
  <2>4. Waiting(v)' = Waiting(v) + IF v = u THEN 1 ELSE 0
    BY <1>0, <2>2, <2>3, WaitingUpload
  <2>5. Waiting(v)' >= Waiting(v) /\ (Carries(w, v) => Waiting(v)' > 0)
    BY <1>0, <2>4 DEF Carries
  <2> QED
    BY <1>0, <1>1, <1>2, <2>1, <2>5, RepairKeeps
<1>5. CASE \/ FetchLookup(w) \/ FetchProbe(w) \/ FetchCheck(w) \/ PutObject(w)
           \/ OpenFile(w) \/ WriteFile(w) \/ FetchSave(w)
  <2>1. /\ pc[w] # "idle" /\ pc'[w] # "idle" /\ pc'[w] # "delete" /\ cur' = cur
        /\ UNCHANGED queueVars
    BY <1>0, <1>5 DEF FetchLookup, FetchProbe, FetchCheck, PutObject, OpenFile,
         WriteFile, FetchSave, Goto, AfterCreate, queueVars
  <2>2. /\ Carries(w, v) => Carries(w, v)'
        /\ Video(w)' = Video(w)
    BY <2>1 DEF Carries, Video
  <2>3. Waiting(v)' = Waiting(v)
    BY <2>1 DEF queueVars, Waiting
  <2>4. row'[v] = "uncached" => row[v] = "uncached" \/ Carries(w, v)'
    <3>1. CASE FetchSave(w)
      BY <1>0, <2>1, <2>2, <3>1 DEF FetchSave, Carries
    <3>2. CASE ~ FetchSave(w)
      BY <1>5, <3>2 DEF FetchLookup, FetchProbe, FetchCheck, PutObject, OpenFile,
           WriteFile, storeVars
    <3> QED
      BY <3>1, <3>2
  <2> QED
    BY <1>0, <1>1, <1>2, <2>2, <2>3, <2>4, RepairKeeps
<1> QED
  BY <1>3, <1>4, <1>5 DEF Fetching

LEMMA RepairUploading ==
  ASSUME TypeInv, TypeInv', RepairInv, NEW w \in UploadWorkers, Uploading(w),
         ~ GiveUp(w), NEW v \in Videos
  PROVE  row'[v] = "uncached" => Repair(v)'
<1>0. /\ w \in Workers
      /\ pc \in [Workers -> FetchPCs \cup UploadPCs]
      /\ cur \in [Workers -> Upload \cup {None}] /\ row \in [Videos -> Contents]
      /\ DataTypes /\ WorkerTypes /\ Waiting(v) \in Nat
      /\ unfetched[v] \in Nat /\ unuploaded[v] \in Nat /\ -1 \in Int /\ 1 \in Int
  BY WaitingType DEF Workers, TypeInv, WorkerTypes, DataTypes
<1>1. /\ UNCHANGED <<unfetched, unuploaded, stranded>>
      /\ \A x \in Workers : x # w => pc'[x] = pc[x] /\ cur'[x] = cur[x]
  BY <1>0 DEF Uploading, TakeUpload, UploadUnknown, UploadShare, UploadLookup,
       UploadMissing, UploadSend, UploadSave, UploadDelete, Requeue, Serve, Goto,
       Return, jobVars, history
<1>2. unfetched'[v] >= unfetched[v] /\ unuploaded'[v] >= unuploaded[v]
  BY <1>0, <1>1
<1>3. ASSUME NEW m \in Upload, TakeUpload(w, m)
      PROVE  row'[v] = "uncached" => Repair(v)'
  <2>1. /\ row' = row /\ pc[w] = "idle" /\ pc'[w] = "lookup" /\ Video(w)' = m.video
    BY <1>0, <1>3 DEF TakeUpload, storeVars, Video
  <2>2. toUpload' = [toUpload EXCEPT ![m] = @ + (-1)] /\ toFetch' = toFetch
    BY <1>0, <1>3 DEF TakeUpload, DataTypes
  <2>3. Waiting(v)' = Waiting(v) + IF v = m.video THEN -1 ELSE 0
    BY <1>0, <2>2, WaitingUpload
  <2>4. Waiting(v)' >= Waiting(v) \/ Carries(w, v)'
    BY <1>0, <2>1, <2>3 DEF Carries
  <2>5. ~ Carries(w, v)
    BY <2>1 DEF Carries
  <2> QED
    BY <1>0, <1>1, <1>2, <2>1, <2>4, <2>5, RepairKeeps
<1>4. CASE UploadUnknown(w) \/ UploadMissing(w)
  <2>1. /\ row' = row /\ pc[w] # "idle"
    BY <1>4 DEF UploadUnknown, UploadMissing, Requeue, storeVars
  <2>2. PICK u \in Videos : u = Video(w)
    BY <1>0, <2>1, InHandType
  <2>3. toFetch' = [toFetch EXCEPT ![u] = @ + 1] /\ toUpload' = toUpload
    BY <1>4, <2>2 DEF UploadUnknown, UploadMissing, Requeue
  <2>4. Waiting(v)' = Waiting(v) + IF v = u THEN 1 ELSE 0
    BY <1>0, <2>3, WaitingFetch
  <2>5. Waiting(v)' >= Waiting(v) /\ (Carries(w, v) => Waiting(v)' > 0)
    BY <1>0, <2>2, <2>4 DEF Carries
  <2> QED
    BY <1>0, <1>1, <1>2, <2>1, <2>5, RepairKeeps
<1>5. CASE \/ UploadShare(w) \/ UploadLookup(w) \/ UploadSend(w) \/ UploadSave(w)
           \/ UploadDelete(w)
  <2>1. pc[w] # "idle" /\ UNCHANGED queueVars
    BY <1>5 DEF UploadShare, UploadLookup, UploadSend, UploadSave, UploadDelete,
         queueVars
  <2>2. Waiting(v)' = Waiting(v)
    BY <2>1 DEF queueVars, Waiting
  <2>3. Video(w) \in Videos
    BY <1>0, <2>1, InHandType
  <2>4. row'[v] = "uncached" => row[v] = "uncached"
    <3>1. CASE UploadSave(w)
      <4>1. seen[w] # "uncached"
        BY <3>1 DEF UploadSave, TypeInv, SavesSent
      <4> QED
        BY <1>0, <2>3, <3>1, <4>1 DEF UploadSave
    <3>2. CASE ~ UploadSave(w)
      BY <1>5, <3>2 DEF UploadShare, UploadLookup, UploadSend, UploadDelete,
           storeVars
    <3> QED
      BY <3>1, <3>2
  <2>5. Carries(w, v) => Carries(w, v)' \/ row'[v] # "uncached"
    <3>1. CASE UploadShare(w)
      BY <3>1 DEF UploadShare, storeVars, Carries
    <3>2. CASE UploadLookup(w) \/ UploadSend(w)
      BY <1>0, <3>2 DEF UploadLookup, UploadSend, Goto, Carries, Video
    <3>3. CASE UploadSave(w)
      <4>1. seen[w] # "uncached"
        BY <3>3 DEF UploadSave, TypeInv, SavesSent
      <4> QED
        BY <1>0, <2>3, <3>3, <4>1 DEF UploadSave, Carries
    <3>4. CASE UploadDelete(w)
      BY <3>4 DEF UploadDelete, Carries
    <3> QED
      BY <1>5, <3>1, <3>2, <3>3, <3>4
  <2> QED
    BY <1>0, <1>1, <1>2, <2>2, <2>4, <2>5, RepairKeeps
<1> QED
  BY <1>3, <1>4, <1>5 DEF Uploading

LEMMA RepairGiveUp ==
  ASSUME TypeInv, TypeInv', RepairInv, NEW w \in Workers, GiveUp(w),
         NEW v \in Videos
  PROVE  row'[v] = "uncached" => Repair(v)'
<1>0. /\ pc \in [Workers -> FetchPCs \cup UploadPCs]
      /\ cur \in [Workers -> Upload \cup {None}] /\ row \in [Videos -> Contents]
      /\ DataTypes /\ WorkerTypes /\ Waiting(v) \in Nat
      /\ unfetched \in [Videos -> Nat] /\ unuploaded \in [Videos -> Nat]
  BY WaitingType DEF TypeInv, WorkerTypes, DataTypes
<1>1. /\ pc[w] # "idle"
      /\ \A x \in Workers : x # w => pc'[x] = pc[x] /\ cur'[x] = cur[x]
      /\ UNCHANGED queueVars /\ stranded' = stranded
  BY <1>0 DEF GiveUp, LeaveJob, Return
<1>2. Video(w) \in Videos
  BY <1>0, <1>1, InHandType
<1>3. Waiting(v)' = Waiting(v)
  BY <1>1 DEF queueVars, Waiting
<1>4. /\ unfetched'[v] >= unfetched[v] /\ unuploaded'[v] >= unuploaded[v]
      /\ v = Video(w) => unfetched'[v] + unuploaded'[v] > 0
  <2>1. CASE w \in FetchWorkers
    <3>1. /\ unfetched' = [unfetched EXCEPT ![Video(w)] = @ + 1]
          /\ unuploaded' = unuploaded
      BY <2>1 DEF GiveUp, LeaveJob
    <3> QED
      BY <1>0, <1>2, <3>1
  <2>2. CASE w \notin FetchWorkers
    <3>1. /\ unuploaded' = [unuploaded EXCEPT ![Video(w)] = @ + 1]
          /\ unfetched' = unfetched
      BY <2>2 DEF GiveUp, LeaveJob
    <3> QED
      BY <1>0, <1>2, <3>1
  <2> QED
    BY <2>1, <2>2
<1>5. v # Video(w) => row'[v] = row[v]
  BY <1>0, <1>2 DEF GiveUp, TookEffect, storeVars
<1>6. Carries(w, v) => v = Video(w)
  BY DEF Carries
<1> QED
  BY <1>0, <1>1, <1>3, <1>4, <1>5, <1>6, RepairKeeps

LEMMA RepairOthers ==
  ASSUME TypeInv, RepairInv, NEW v \in Videos,
         \/ \E u \in Videos : SendLink(u)
         \/ Interrupt \/ Restart \/ Crash \/ UNCHANGED vars
  PROVE  row'[v] = "uncached" => Repair(v)'
<1> SUFFICES ASSUME row'[v] = "uncached" PROVE Repair(v)'
  OBVIOUS
<1>0. /\ DataTypes /\ Waiting(v) \in Nat /\ 1 \in Int
      /\ unfetched \in [Videos -> Nat] /\ unuploaded \in [Videos -> Nat]
  BY WaitingType DEF TypeInv, DataTypes
<1>1. row[v] = "uncached"
  BY DEF SendLink, Interrupt, Restart, Crash, vars, storeVars
<1>2. Repair(v)
  BY <1>1 DEF RepairInv
<1>3. ASSUME NEW u \in Videos, SendLink(u) PROVE Repair(v)'
  <2>1. /\ toFetch' = [toFetch EXCEPT ![u] = @ + 1] /\ toUpload' = toUpload
        /\ UNCHANGED <<pc, cur, unfetched, unuploaded, stranded>>
    BY <1>3 DEF SendLink, workerVars, jobVars
  <2>2. Waiting(v)' = Waiting(v) + IF v = u THEN 1 ELSE 0
    BY <1>0, <2>1, WaitingFetch
  <2>3. Waiting(v) > 0 => Waiting(v)' > 0
    BY <1>0, <2>2
  <2> QED
    BY <1>2, <2>1, <2>3 DEF Repair, Carries, Video
<1>4. CASE Interrupt \/ UNCHANGED vars
  BY <1>2, <1>4 DEF Interrupt, vars, queueVars, workerVars, jobVars, history,
       Repair, Carries, Video, Waiting
<1>5. CASE Restart
  <2>1. PICK mt, mf : /\ mt = [video |-> v, format |-> TRUE]
                      /\ mf = [video |-> v, format |-> FALSE]
    OBVIOUS
  <2>2. /\ mt \in Upload /\ mf \in Upload /\ mt.format /\ ~ mf.format
        /\ mt.video = v /\ mf.video = v
    BY <2>1 DEF Upload
  <2>3. /\ toFetch'[v] = toFetch[v] + unfetched[v]
        /\ toUpload'[mt] = toUpload[mt] + 0
        /\ toUpload'[mf] = toUpload[mf] + unuploaded[v]
        /\ UNCHANGED <<pc, cur, stranded>>
    BY <1>5, <2>2 DEF Restart, workerVars, history
  <2>4. /\ Waiting(v) = toFetch[v] + toUpload[mt] + toUpload[mf]
        /\ Waiting(v)' = toFetch'[v] + toUpload'[mt] + toUpload'[mf]
    BY <2>1 DEF Waiting
  <2>5. /\ toFetch[v] \in Nat /\ toUpload[mt] \in Nat /\ toUpload[mf] \in Nat
        /\ unfetched[v] \in Nat /\ unuploaded[v] \in Nat
    BY <1>0, <2>2 DEF DataTypes
  <2>6. Waiting(v) > 0 \/ unfetched[v] + unuploaded[v] > 0 => Waiting(v)' > 0
    BY <2>3, <2>4, <2>5
  <2> QED
    BY <1>2, <2>3, <2>6 DEF Repair, Carries, Video
<1>6. CASE Crash
  <2>1. Waiting(v)' = Waiting(v)
    BY <1>6 DEF Crash, queueVars, Waiting
  <2>2. ~ (Waiting(v) > 0) /\ v \notin stranded => InHand(v)
    BY <1>2 DEF Repair, Carries, InHand
  <2>3. InHand(v) \/ v \in stranded => v \in stranded'
    BY <1>6 DEF Crash
  <2> QED
    BY <2>1, <2>2, <2>3 DEF Repair
<1> QED
  BY <1>3, <1>4, <1>5, <1>6

LEMMA RepairStep == TypeInv /\ TypeInv' /\ RepairInv /\ [Next]_vars => RepairInv'
<1> SUFFICES ASSUME TypeInv, TypeInv', RepairInv, [Next]_vars, NEW v \in Videos
             PROVE  row'[v] = "uncached" => Repair(v)'
  BY DEF RepairInv
<1>1. ASSUME NEW w \in FetchWorkers, Fetching(w)
      PROVE  row'[v] = "uncached" => Repair(v)'
  BY <1>1, RepairFetching, RepairGiveUp DEF Workers
<1>2. ASSUME NEW w \in UploadWorkers, Uploading(w)
      PROVE  row'[v] = "uncached" => Repair(v)'
  BY <1>2, RepairUploading, RepairGiveUp DEF Workers
<1> QED
  BY <1>1, <1>2, RepairOthers DEF Next

\* No row is left without a file id for good but by a crash: although workers
\* overwrite each other's rows and delete each other's objects, and any call
\* may fail, a message, a job or a worker is left that repairs the row.
THEOREM MediaUncachedIsInFlight == Spec => []UncachedIsInFlight
<1>1. Init => RepairInv
  BY DEF Init, RepairInv
<1>2. RepairInv => UncachedIsInFlight
  BY DEF RepairInv, Repair, Carries, UncachedIsInFlight, InHand
<1> QED
  BY <1>1, <1>2, TypeInvariant, RepairStep, PTL DEF Spec

-----------------------------------------------------------------------------
(* A cached file id stays once no fetch is about to insert its row.        *)

\* A row changes when a worker saves it.
SavedBy(w) ==
    /\ pc[w] = "save"
    /\ row' = [row EXCEPT ![Video(w)] =
                   IF w \in FetchWorkers THEN "uncached" ELSE seen[w]]

LEMMA FetchesSave ==
  ASSUME NEW w \in FetchWorkers, Fetching(w)
  PROVE  row' = row \/ SavedBy(w)
<1>1. CASE FetchSave(w)
  BY <1>1 DEF FetchSave, SavedBy
<1>2. CASE GiveUp(w)
  BY <1>2 DEF GiveUp, TookEffect, storeVars, SavedBy
<1>3. CASE ~ FetchSave(w) /\ ~ GiveUp(w)
  BY <1>3 DEF Fetching, TakeFetch, FetchLookup, FetchProbe, FetchCheck, PutObject,
       OpenFile, WriteFile, FetchPublish, storeVars
<1> QED
  BY <1>1, <1>2, <1>3

LEMMA UploadsSave ==
  ASSUME NEW w \in UploadWorkers, Uploading(w)
  PROVE  row' = row \/ SavedBy(w)
<1>1. CASE UploadSave(w)
  BY <1>1, MediaConstantsOK DEF UploadSave, SavedBy
<1>2. CASE GiveUp(w)
  BY <1>2 DEF GiveUp, TookEffect, storeVars, SavedBy
<1>3. CASE ~ UploadSave(w) /\ ~ GiveUp(w)
  BY <1>3 DEF Uploading, TakeUpload, UploadUnknown, UploadShare, UploadLookup,
       UploadMissing, UploadSend, UploadDelete, Requeue, storeVars
<1> QED
  BY <1>1, <1>2, <1>3

\* A worker moves alone.
LEMMA OneMoves ==
  ASSUME TypeInv, NEW w \in Workers, NEW x \in Workers, x # w,
         (w \in FetchWorkers /\ Fetching(w)) \/ (w \in UploadWorkers /\ Uploading(w))
  PROVE  pc'[x] = pc[x] /\ cur'[x] = cur[x] /\ seen'[x] = seen[x]
<1>0. /\ pc \in [Workers -> FetchPCs \cup UploadPCs] /\ seen \in [Workers -> Contents]
      /\ cur \in [Workers -> Upload \cup {None}]
  BY DEF TypeInv, WorkerTypes
<1>1. CASE Fetching(w)
  BY <1>0, <1>1 DEF Fetching, TakeFetch, FetchLookup, FetchProbe, FetchCheck,
       PutObject, OpenFile, WriteFile, FetchSave, FetchPublish, GiveUp, LeaveJob,
       Goto, Return
<1>2. CASE Uploading(w)
  BY <1>0, <1>2 DEF Uploading, TakeUpload, UploadUnknown, UploadShare,
       UploadLookup, UploadMissing, UploadSend, UploadSave, UploadDelete, Requeue,
       GiveUp, LeaveJob, Goto, Return
<1> QED
  BY <1>1, <1>2

\* Between its lookup and its save a fetch remembers what it has found.
FetchRemembers(w) ==
    /\ pc[w] \in {"probe", "save"} => seen[w] = "absent"
    /\ pc[w] = "check" => seen[w] # "absent"

LEMMA RemembersStep ==
  TypeInv /\ (\A w \in FetchWorkers : FetchRemembers(w)) /\ [Next]_vars
    => (\A w \in FetchWorkers : FetchRemembers(w))'
<1> SUFFICES ASSUME TypeInv, \A w \in FetchWorkers : FetchRemembers(w), [Next]_vars,
                    NEW f \in FetchWorkers
             PROVE  FetchRemembers(f)'
  OBVIOUS
<1>0. /\ FetchWorkers \subseteq Workers /\ UploadWorkers \subseteq Workers
      /\ f \notin UploadWorkers /\ FetchRemembers(f)
      /\ pc \in [Workers -> FetchPCs \cup UploadPCs] /\ seen \in [Workers -> Contents]
  BY MediaConstantsOK DEF TypeInv, WorkerTypes, Workers
<1>1. CASE pc'[f] = pc[f] /\ seen'[f] = seen[f]
  BY <1>0, <1>1 DEF FetchRemembers
<1>2. CASE pc'[f] \in {"idle", "lookup", "writing", "publish"}
  BY <1>2 DEF FetchRemembers
<1>3. ASSUME NEW w \in FetchWorkers, Fetching(w), w # f PROVE FetchRemembers(f)'
  <2>1. pc'[f] = pc[f] /\ seen'[f] = seen[f]
    BY <1>0, <1>3, OneMoves
  <2> QED
    BY <1>1, <2>1
<1>4. ASSUME NEW w \in UploadWorkers, Uploading(w) PROVE FetchRemembers(f)'
  <2>1. pc'[f] = pc[f] /\ seen'[f] = seen[f]
    BY <1>0, <1>4, OneMoves
  <2> QED
    BY <1>1, <2>1
<1>5. ASSUME Fetching(f) PROVE FetchRemembers(f)'
  <2>1. CASE FetchLookup(f)
    BY <1>0, <2>1 DEF FetchLookup, FetchRemembers
  <2>2. CASE FetchProbe(f)
    BY <1>0, <2>2 DEF FetchProbe, Goto, FetchRemembers
  <2>3. CASE FetchCheck(f)
    BY <1>0, <2>3 DEF FetchCheck, Goto, FetchRemembers
  <2>4. CASE PutObject(f) \/ WriteFile(f)
    BY <1>0, <2>4 DEF PutObject, WriteFile, AfterCreate, Goto, FetchRemembers
  <2>5. CASE ~ (FetchLookup(f) \/ FetchProbe(f) \/ FetchCheck(f) \/ PutObject(f)
                  \/ WriteFile(f))
    <3>1. pc'[f] \in {"idle", "lookup", "writing", "publish"}
      BY <1>0, <1>5, <2>5 DEF Fetching, TakeFetch, OpenFile, FetchSave, FetchPublish,
           GiveUp, LeaveJob, Goto, Return
    <3> QED
      BY <1>2, <3>1
  <2> QED
    BY <2>1, <2>2, <2>3, <2>4, <2>5
<1>6. CASE Crash
  BY <1>0, <1>2, <1>6 DEF Crash
<1>7. CASE \/ \E v \in Videos : SendLink(v)
           \/ Interrupt \/ Restart \/ UNCHANGED vars
  BY <1>1, <1>7 DEF SendLink, Interrupt, Restart, vars, workerVars
<1> QED
  BY <1>3, <1>4, <1>5, <1>6, <1>7 DEF Next

\* A fetch becomes one that inserts the row of a video only by finding none.
LEMMA NobodyInserts ==
  ASSUME TypeInv, \A w \in FetchWorkers : FetchRemembers(w), [Next]_vars,
         NEW v \in Videos, row[v] # "absent", Inserts(v) = {}
  PROVE  Inserts(v)' = {}
<1>0. /\ FetchWorkers \subseteq Workers /\ UploadWorkers \subseteq Workers
      /\ FetchWorkers \cap UploadWorkers = {}
      /\ pc \in [Workers -> FetchPCs \cup UploadPCs] /\ seen \in [Workers -> Contents]
      /\ cur \in [Workers -> Upload \cup {None}]
  BY MediaConstantsOK DEF TypeInv, WorkerTypes, Workers
<1> DEFINE Stages == {"probe", "create", "writing", "save"}
           Aims(w) == pc[w] \in Stages /\ Video(w) = v /\ seen[w] = "absent"
<1>1. \A w \in FetchWorkers : ~ Aims(w)
  BY DEF Inserts
<1> SUFFICES ASSUME NEW f \in FetchWorkers PROVE ~ Aims(f)'
  BY DEF Inserts
<1>2. CASE pc'[f] = pc[f] /\ seen'[f] = seen[f] /\ cur'[f] = cur[f]
  BY <1>1, <1>2 DEF Video
<1>3. ASSUME NEW w \in FetchWorkers, Fetching(w), w # f PROVE ~ Aims(f)'
  <2>1. pc'[f] = pc[f] /\ seen'[f] = seen[f] /\ cur'[f] = cur[f]
    BY <1>0, <1>3, OneMoves
  <2> QED
    BY <1>2, <2>1
<1>4. ASSUME NEW w \in UploadWorkers, Uploading(w) PROVE ~ Aims(f)'
  <2>1. pc'[f] = pc[f] /\ seen'[f] = seen[f] /\ cur'[f] = cur[f]
    BY <1>0, <1>4, OneMoves
  <2> QED
    BY <1>2, <2>1
<1>5. ASSUME Fetching(f) PROVE ~ Aims(f)'
  <2>1. CASE FetchLookup(f)
    <3>1. Video(f)' = Video(f) /\ seen'[f] = row[Video(f)]
      BY <1>0, <2>1 DEF FetchLookup, Video
    <3> QED
      BY <3>1
  <2>2. CASE FetchProbe(f) \/ FetchCheck(f) \/ PutObject(f) \/ OpenFile(f) \/ WriteFile(f)
    <3>1. UNCHANGED <<cur, seen>> /\ Video(f)' = Video(f)
      BY <2>2 DEF FetchProbe, FetchCheck, PutObject, OpenFile, WriteFile, Goto, Video
    <3>2. pc[f] \in Stages \/ seen[f] # "absent"
      BY <2>2 DEF FetchProbe, FetchCheck, PutObject, OpenFile, WriteFile, FetchRemembers
    <3> QED
      BY <1>1, <3>1, <3>2
  <2>3. CASE \/ \E u \in Videos : TakeFetch(f, u)
             \/ FetchSave(f) \/ FetchPublish(f) \/ GiveUp(f)
    <3>1. pc'[f] \in {"idle", "lookup", "publish"}
      BY <1>0, <2>3 DEF TakeFetch, FetchSave, FetchPublish, GiveUp, LeaveJob, Goto,
           Return
    <3> QED
      BY <3>1
  <2> QED
    BY <1>5, <2>1, <2>2, <2>3 DEF Fetching
<1>6. CASE Crash
  BY <1>0, <1>6 DEF Crash
<1>7. CASE \/ \E u \in Videos : SendLink(u)
           \/ Interrupt \/ Restart \/ UNCHANGED vars
  BY <1>2, <1>7 DEF SendLink, Interrupt, Restart, vars, workerVars
<1> QED
  BY <1>3, <1>4, <1>5, <1>6, <1>7 DEF Next

\* Only a fetch that found no row saves a row without file id.
LEMMA CachedStays ==
  ASSUME TypeInv, \A w \in FetchWorkers : FetchRemembers(w), [Next]_vars,
         NEW v \in Videos, Cached(v), Inserts(v) = {}
  PROVE  Cached(v)'
<1>1. row \in [Videos -> Contents]
  BY DEF TypeInv, DataTypes
<1>2. ASSUME NEW w \in FetchWorkers, SavedBy(w) PROVE Cached(v)'
  <2>1. Video(w) # v
    BY <1>2 DEF SavedBy, FetchRemembers, Inserts
  <2> QED
    BY <1>1, <1>2, <2>1 DEF SavedBy, Cached
<1>3. ASSUME NEW w \in UploadWorkers, SavedBy(w) PROVE Cached(v)'
  <2>1. seen[w] \in {"partial", "whole"} /\ w \notin FetchWorkers
    BY <1>3, MediaConstantsOK DEF SavedBy, TypeInv, SavesSent
  <2> QED
    BY <1>1, <1>3, <2>1 DEF SavedBy, Cached
<1>4. CASE UNCHANGED row
  BY <1>4 DEF Cached
<1> QED
  BY <1>2, <1>3, <1>4, FetchesSave, UploadsSave
  DEF Next, SendLink, Interrupt, Restart, Crash, vars, storeVars

\* With any number of workers, either storage, errors, shutdowns and crashes at
\* any call, a cached file id is lost only to a fetch that was already on its way
\* to inserting the row: none that starts later overwrites it.
THEOREM MediaCacheSettles == Spec => CacheSettles
<1>1. Init => \A w \in FetchWorkers : FetchRemembers(w)
  BY DEF Init, FetchRemembers, Workers
<1>2. TypeInv /\ (\A w \in FetchWorkers : FetchRemembers(w)) /\ [Next]_vars
        => [\A v \in Videos : Cached(v) /\ Inserts(v) = {} =>
                                Cached(v)' /\ Inserts(v)' = {}]_vars
  <2>1. ASSUME TypeInv, \A w \in FetchWorkers : FetchRemembers(w), [Next]_vars,
               NEW v \in Videos, Cached(v), Inserts(v) = {}
        PROVE  Cached(v)' /\ Inserts(v)' = {}
    BY <2>1, CachedStays, NobodyInserts DEF Cached
  <2> QED
    BY <2>1
<1> QED
  BY <1>1, <1>2, RemembersStep, TypeInvariant, PTL DEF Spec, CacheSettles

-----------------------------------------------------------------------------
(* What it takes for a chat to be shown a truncated video.                 *)

InFetch(w, v) == pc[w] # "idle" /\ Video(w) = v

\* Two fetches of one video at once make it suspect.
Overlaps ==
    \A x, y \in FetchWorkers, v \in Videos :
        x # y /\ InFetch(x, v) /\ InFetch(y, v) => v \in suspect

\* Otherwise a truncated file has no row yet, and whoever truncated it last is
\* going to write it.
Completes(v) ==
    /\ row[v] = "absent"
    /\ opener[v] \in FetchWorkers /\ pc[opener[v]] = "writing"
    /\ Video(opener[v]) = v

Truncated == \A v \in Videos : blob[v] = "partial" /\ v \notin suspect => Completes(v)

\* An upload reads for a message with a format, and what it has read.
Reads(w) ==
    /\ pc[w] \in {"object", "save"} => cur[w].format
    /\ pc[w] = "save" /\ seen[w] = "partial" => Video(w) \in suspect

CauseInv ==
    /\ Overlaps /\ Truncated /\ TruncationHasCause
    /\ \A w \in UploadWorkers : Reads(w)

\* An upload that reads or saves has a row.
LEMMA UploadsFindRow ==
  ASSUME TypeInv, RowInv, CauseInv, NEW w \in UploadWorkers,
         pc[w] \in {"object", "save"}
  PROVE  Video(w) \in Videos /\ row[Video(w)] # "absent"
<1>1. /\ w \in Workers /\ cur[w] \in Upload /\ cur[w] # None /\ cur[w].format
      /\ Video(w) \in Videos
  BY InHandType, MediaConstantsOK
  DEF Workers, TypeInv, WorkerTypes, CauseInv, Reads, Upload, Video
<1>2. cur[w] = [video |-> Video(w), format |-> TRUE]
  BY <1>1 DEF Upload, Video
<1> QED
  BY <1>1, <1>2 DEF RowInv, RowBeforeUpload

\* Nothing stops being suspect.
LEMMA SuspectGrows ==
  ASSUME [Next]_vars
  PROVE  suspect \subseteq suspect'
<1>1. ASSUME NEW w \in FetchWorkers, Fetching(w) PROVE suspect \subseteq suspect'
  BY <1>1 DEF Fetching, TakeFetch, FetchLookup, FetchProbe, FetchCheck, PutObject,
       OpenFile, WriteFile, FetchSave, FetchPublish, GiveUp, history
<1>2. ASSUME NEW w \in UploadWorkers, Uploading(w) PROVE suspect \subseteq suspect'
  BY <1>2 DEF Uploading, TakeUpload, UploadUnknown, UploadShare, UploadLookup,
       UploadMissing, UploadSend, UploadSave, UploadDelete, Requeue, Serve, GiveUp,
       history
<1> QED
  BY <1>1, <1>2 DEF Next, SendLink, Interrupt, Restart, Crash, vars, history

LEMMA OverlapsStep ==
  ASSUME TypeInv, Overlaps, [Next]_vars
  PROVE  Overlaps'
<1>0. /\ FetchWorkers \subseteq Workers /\ UploadWorkers \subseteq Workers
      /\ FetchWorkers \cap UploadWorkers = {}
      /\ pc \in [Workers -> FetchPCs \cup UploadPCs]
      /\ cur \in [Workers -> Upload \cup {None}]
      /\ suspect \subseteq suspect'
  BY MediaConstantsOK, SuspectGrows DEF TypeInv, WorkerTypes, Workers
<1>1. ASSUME NEW x \in FetchWorkers, NEW v \in Videos, InFetch(x, v)',
             ~ InFetch(x, v)
      PROVE  TakeFetch(x, v)
  <2>1. ASSUME NEW w \in FetchWorkers, Fetching(w) PROVE TakeFetch(x, v)
    <3>1. w = x
      BY <1>0, <1>1, <2>1, OneMoves DEF InFetch, Video
    <3>2. ASSUME NEW u \in Videos, TakeFetch(w, u) PROVE u = v
      BY <1>0, <1>1, <3>1, <3>2 DEF TakeFetch, InFetch, Video
    <3>3. CASE \E u \in Videos : TakeFetch(w, u)
      BY <3>1, <3>2, <3>3
    <3>4. CASE ~ \E u \in Videos : TakeFetch(w, u)
      <4>1. pc[w] # "idle" /\ (pc'[w] = "idle" \/ cur' = cur)
        BY <1>0, <2>1, <3>4 DEF Fetching, FetchLookup, FetchProbe, FetchCheck,
             PutObject, OpenFile, WriteFile, FetchSave, FetchPublish, GiveUp,
             LeaveJob, Goto, Return
      <4> QED
        BY <1>1, <3>1, <4>1 DEF InFetch, Video
    <3> QED
      BY <3>3, <3>4
  <2>2. ASSUME NEW w \in UploadWorkers, Uploading(w) PROVE FALSE
    BY <1>0, <1>1, <2>2, OneMoves DEF InFetch, Video
  <2>3. CASE Crash
    BY <1>0, <1>1, <2>3 DEF Crash, InFetch
  <2>4. CASE \/ \E u \in Videos : SendLink(u)
             \/ Interrupt \/ Restart \/ UNCHANGED vars
    BY <1>1, <2>4 DEF SendLink, Interrupt, Restart, vars, workerVars, InFetch, Video
  <2> QED
    BY <2>1, <2>2, <2>3, <2>4 DEF Next
<1>2. SUFFICES ASSUME NEW x \in FetchWorkers, NEW y \in FetchWorkers, NEW v \in Videos,
                      x # y, InFetch(x, v)', InFetch(y, v)'
               PROVE  v \in suspect'
  BY DEF Overlaps
<1>3. CASE InFetch(x, v) /\ InFetch(y, v)
  BY <1>0, <1>2, <1>3 DEF Overlaps
<1>4. ASSUME NEW a \in FetchWorkers, NEW b \in FetchWorkers, a # b,
             TakeFetch(a, v), InFetch(b, v)'
      PROVE  v \in suspect'
  <2>1. InFetch(b, v)
    BY <1>0, <1>4 DEF TakeFetch, InFetch, Video
  <2>2. BeingFetched(v)
    BY <2>1 DEF InFetch, BeingFetched
  <2> QED
    BY <1>4, <2>2 DEF TakeFetch
<1> QED
  BY <1>1, <1>2, <1>3, <1>4

\* The row of a video stays absent under a write that is not suspect.
LEMMA RowStaysAbsent ==
  ASSUME TypeInv, RowInv, CauseInv, [Next]_vars,
         NEW v \in Videos, v \notin suspect, Completes(v)
  PROVE  row'[v] = "absent"
<1>0. /\ row \in [Videos -> Contents] /\ row[v] = "absent"
      /\ FetchWorkers \cap UploadWorkers = {}
      /\ opener[v] \in FetchWorkers /\ InFetch(opener[v], v)
      /\ pc[opener[v]] = "writing"
  BY MediaConstantsOK DEF TypeInv, DataTypes, Completes, InFetch
<1>1. ASSUME NEW w \in FetchWorkers, SavedBy(w) PROVE row'[v] = "absent"
  <2>1. Video(w) # v
    BY <1>0, <1>1 DEF SavedBy, InFetch, CauseInv, Overlaps
  <2> QED
    BY <1>0, <1>1, <2>1 DEF SavedBy
<1>2. ASSUME NEW w \in UploadWorkers, SavedBy(w) PROVE row'[v] = "absent"
  <2>1. Video(w) # v
    BY <1>0, <1>2, UploadsFindRow DEF SavedBy
  <2> QED
    BY <1>0, <1>2, <2>1 DEF SavedBy
<1>3. CASE UNCHANGED row
  BY <1>0, <1>3
<1> QED
  BY <1>1, <1>2, <1>3, FetchesSave, UploadsSave
  DEF Next, SendLink, Interrupt, Restart, Crash, vars, storeVars

\* A step that leaves the objects and the writers alone.
LEMMA TruncatedKeeps ==
  ASSUME TypeInv, RowInv, CauseInv, [Next]_vars,
         NEW v \in Videos, blob'[v] = blob[v], opener'[v] = opener[v],
         \A w \in FetchWorkers : pc[w] = "writing" => pc'[w] = pc[w] /\ cur'[w] = cur[w]
  PROVE  blob'[v] = "partial" /\ v \notin suspect' => Completes(v)'
<1> SUFFICES ASSUME blob[v] = "partial", v \notin suspect PROVE Completes(v)'
  BY SuspectGrows
<1>1. Completes(v)
  BY DEF CauseInv, Truncated
<1>2. row'[v] = "absent"
  BY <1>1, RowStaysAbsent
<1> QED
  BY <1>1, <1>2 DEF Completes, Video

LEMMA TruncatedFetching ==
  ASSUME TypeInv, RowInv, CauseInv, [Next]_vars, NEW v \in Videos,
         NEW w \in FetchWorkers, Fetching(w)
  PROVE  blob'[v] = "partial" /\ v \notin suspect' => Completes(v)'
<1>0. /\ w \in Workers /\ FetchWorkers \subseteq Workers
      /\ pc \in [Workers -> FetchPCs \cup UploadPCs]
      /\ blob \in [Videos -> {"absent", "partial", "whole"}]
      /\ opener \in [Videos -> FetchWorkers \cup {None}]
      /\ None \notin FetchWorkers /\ suspect \subseteq suspect'
      /\ pc[w] # "idle" => Video(w) \in Videos
  BY MediaConstantsOK, InHandType, SuspectGrows
  DEF TypeInv, WorkerTypes, DataTypes, Workers
<1>1. ASSUME pc[w] # "writing", blob'[v] = blob[v], opener'[v] = opener[v]
      PROVE  blob'[v] = "partial" /\ v \notin suspect' => Completes(v)'
  <2>1. \A x \in FetchWorkers : pc[x] = "writing" => pc'[x] = pc[x] /\ cur'[x] = cur[x]
    BY <1>0, <1>1, OneMoves
  <2> QED
    BY <1>1, <2>1, TruncatedKeeps
<1>2. CASE OpenFile(w)
  <2>1. CASE Video(w) = v
    <3>1. v \notin suspect' => row'[v] = "absent"
      BY <1>2, <2>1 DEF OpenFile
    <3>2. opener'[v] = w /\ pc'[w] = "writing" /\ Video(w)' = v
      BY <1>0, <1>2, <2>1 DEF OpenFile, Goto, Video
    <3> QED
      BY <3>1, <3>2 DEF Completes, Video
  <2>2. CASE Video(w) # v
    BY <1>0, <1>1, <1>2, <2>2 DEF OpenFile
  <2> QED
    BY <2>1, <2>2
<1>3. ASSUME pc[w] = "writing", Video(w) # v, blob'[v] = blob[v], opener'[v] = opener[v]
      PROVE  blob'[v] = "partial" /\ v \notin suspect' => Completes(v)'
  <2> SUFFICES ASSUME blob[v] = "partial", v \notin suspect PROVE Completes(v)'
    BY <1>0, <1>3
  <2>1. Completes(v)
    BY DEF CauseInv, Truncated
  <2>2. opener[v] # w /\ opener[v] \in FetchWorkers
    BY <1>3, <2>1 DEF Completes
  <2>3. pc'[opener[v]] = pc[opener[v]] /\ cur'[opener[v]] = cur[opener[v]]
    BY <1>0, <2>2, OneMoves
  <2>4. row'[v] = "absent"
    BY <2>1, RowStaysAbsent
  <2> QED
    BY <1>3, <2>1, <2>3, <2>4 DEF Completes, Video
<1>4. CASE WriteFile(w)
  <2>1. CASE Video(w) = v /\ opener[v] # w
    <3> SUFFICES ASSUME blob[v] = "partial", v \notin suspect PROVE Completes(v)'
      BY <1>0, <1>4, <2>1 DEF WriteFile
    <3>1. Completes(v)
      BY DEF CauseInv, Truncated
    <3>2. pc'[opener[v]] = pc[opener[v]] /\ cur'[opener[v]] = cur[opener[v]]
      BY <1>0, <2>1, <3>1, OneMoves DEF Completes
    <3>3. row'[v] = "absent" /\ opener' = opener
      BY <1>4, <3>1, RowStaysAbsent DEF WriteFile
    <3> QED
      BY <3>1, <3>2, <3>3 DEF Completes, Video
  <2>2. CASE Video(w) = v /\ opener[v] = w
    BY <1>0, <1>4, <2>2 DEF WriteFile
  <2>3. CASE Video(w) # v
    BY <1>0, <1>3, <1>4, <2>3 DEF WriteFile
  <2> QED
    BY <2>1, <2>2, <2>3
<1>5. CASE GiveUp(w)
  <2>1. CASE pc[w] = "writing"
    <3>1. suspect' = suspect \cup {Video(w)} /\ UNCHANGED storeVars
      BY <1>5, <2>1 DEF GiveUp, TookEffect
    <3> QED
      BY <1>3, <2>1, <3>1 DEF storeVars
  <2>2. CASE pc[w] # "writing"
    <3>1. \/ blob'[v] \in {"whole", "absent"}
          \/ blob'[v] = blob[v] /\ opener'[v] = opener[v]
      BY <1>0, <1>5 DEF GiveUp, TookEffect, storeVars
    <3> QED
      BY <1>1, <2>2, <3>1
  <2> QED
    BY <2>1, <2>2
<1>6. CASE PutObject(w)
  <2>1. \/ blob'[v] = "whole"
        \/ blob'[v] = blob[v] /\ opener'[v] = opener[v]
    BY <1>0, <1>6 DEF PutObject
  <2> QED
    BY <1>1, <1>6, <2>1 DEF PutObject
<1>7. CASE ~ (OpenFile(w) \/ WriteFile(w) \/ GiveUp(w) \/ PutObject(w))
  <2>1. pc[w] # "writing" /\ UNCHANGED <<blob, opener>>
    BY <1>7 DEF Fetching, TakeFetch, FetchLookup, FetchProbe, FetchCheck,
         FetchSave, FetchPublish, storeVars
  <2> QED
    BY <1>1, <2>1
<1> QED
  BY <1>2, <1>4, <1>5, <1>6, <1>7

LEMMA TruncatedStep ==
  ASSUME TypeInv, RowInv, CauseInv, [Next]_vars
  PROVE  Truncated'
<1> SUFFICES ASSUME NEW v \in Videos
             PROVE  blob'[v] = "partial" /\ v \notin suspect' => Completes(v)'
  BY DEF Truncated
<1>0. /\ FetchWorkers \subseteq Workers /\ UploadWorkers \subseteq Workers
      /\ FetchWorkers \cap UploadWorkers = {}
      /\ pc \in [Workers -> FetchPCs \cup UploadPCs]
      /\ blob \in [Videos -> {"absent", "partial", "whole"}]
      /\ opener \in [Videos -> FetchWorkers \cup {None}]
  BY MediaConstantsOK DEF TypeInv, WorkerTypes, DataTypes, Workers
<1>1. ASSUME NEW w \in UploadWorkers, Uploading(w)
      PROVE  blob'[v] = "partial" /\ v \notin suspect' => Completes(v)'
  <2>1. \A x \in FetchWorkers : pc'[x] = pc[x] /\ cur'[x] = cur[x]
    BY <1>0, <1>1, OneMoves
  <2>2. \/ blob'[v] = "absent"
        \/ blob'[v] = blob[v] /\ opener'[v] = opener[v]
    <3>1. CASE UploadDelete(w)
      BY <1>0, <3>1 DEF UploadDelete
    <3>2. CASE GiveUp(w)
      <4>1. pc[w] # "create"
        BY <1>1 DEF TypeInv, WorkerTypes, UploadPCs
      <4> QED
        BY <1>0, <3>2, <4>1 DEF GiveUp, TookEffect, storeVars
    <3>3. CASE ~ UploadDelete(w) /\ ~ GiveUp(w)
      BY <1>1, <3>3 DEF Uploading, TakeUpload, UploadUnknown, UploadShare,
           UploadLookup, UploadMissing, UploadSend, UploadSave, Requeue, storeVars
    <3> QED
      BY <3>1, <3>2, <3>3
  <2> QED
    BY <2>1, <2>2, TruncatedKeeps
<1>2. CASE Crash
  <2>1. blob' = blob /\ suspect' = suspect \cup {u \in Videos : BeingWritten(u)}
    BY <1>2 DEF Crash
  <2>2. Completes(v) => BeingWritten(v)
    BY DEF Completes, BeingWritten
  <2> QED
    BY <2>1, <2>2 DEF CauseInv, Truncated
<1>3. CASE \/ \E u \in Videos : SendLink(u)
           \/ Interrupt \/ Restart \/ UNCHANGED vars
  <2>1. UNCHANGED <<blob, opener, pc, cur>>
    BY <1>3 DEF SendLink, Interrupt, Restart, vars, storeVars, workerVars
  <2> QED
    BY <2>1, TruncatedKeeps
<1> QED
  BY <1>1, <1>2, <1>3, TruncatedFetching DEF Next

\* What an upload reads is suspect if it is truncated.
LEMMA ReadsSuspect ==
  ASSUME TypeInv, RowInv, CauseInv, NEW w \in UploadWorkers,
         pc[w] = "object", blob[Video(w)] = "partial"
  PROVE  Video(w) \in suspect
BY UploadsFindRow DEF CauseInv, Truncated, Completes

LEMMA ReadsStep ==
  ASSUME TypeInv, RowInv, CauseInv, [Next]_vars, NEW x \in UploadWorkers
  PROVE  Reads(x)'
<1>0. /\ FetchWorkers \subseteq Workers /\ UploadWorkers \subseteq Workers
      /\ FetchWorkers \cap UploadWorkers = {} /\ x \in Workers
      /\ pc \in [Workers -> FetchPCs \cup UploadPCs] /\ seen \in [Workers -> Contents]
      /\ cur \in [Workers -> Upload \cup {None}]
      /\ suspect \subseteq suspect' /\ Reads(x)
  BY MediaConstantsOK, SuspectGrows DEF TypeInv, WorkerTypes, Workers, CauseInv
<1>1. CASE pc'[x] = pc[x] /\ seen'[x] = seen[x] /\ cur'[x] = cur[x]
  BY <1>0, <1>1 DEF Reads, Video
<1>2. CASE pc'[x] \notin {"object", "save"}
  BY <1>2 DEF Reads
<1>3. ASSUME Uploading(x) PROVE Reads(x)'
  <2>1. CASE UploadLookup(x)
    BY <1>0, <2>1 DEF UploadLookup, HasRow, Goto, Reads
  <2>2. CASE UploadSend(x)
    <3>1. /\ seen'[x] = blob[Video(x)] /\ cur' = cur /\ pc[x] = "object"
          /\ Video(x)' = Video(x)
      BY <1>0, <2>2 DEF UploadSend, Video
    <3>2. blob[Video(x)] = "partial" => Video(x) \in suspect
      BY <3>1, ReadsSuspect
    <3> QED
      BY <1>0, <3>1, <3>2 DEF Reads
  <2>3. CASE ~ UploadLookup(x) /\ ~ UploadSend(x)
    <3>1. pc'[x] \in {"idle", "lookup", "delete"}
      BY <1>0, <1>3, <2>3 DEF Uploading, TakeUpload, UploadUnknown, UploadShare,
           UploadMissing, UploadSave, UploadDelete, Requeue, GiveUp, LeaveJob,
           Goto, Return
    <3> QED
      BY <1>2, <3>1
  <2> QED
    BY <2>1, <2>2, <2>3
<1>4. ASSUME NEW w \in FetchWorkers, Fetching(w) PROVE Reads(x)'
  BY <1>0, <1>1, <1>4, OneMoves
<1>5. ASSUME NEW w \in UploadWorkers, Uploading(w), w # x PROVE Reads(x)'
  BY <1>0, <1>1, <1>5, OneMoves
<1>6. CASE Crash
  BY <1>0, <1>2, <1>6 DEF Crash
<1>7. CASE \/ \E v \in Videos : SendLink(v)
           \/ Interrupt \/ Restart \/ UNCHANGED vars
  BY <1>1, <1>7 DEF SendLink, Interrupt, Restart, vars, workerVars
<1> QED
  BY <1>3, <1>4, <1>5, <1>6, <1>7 DEF Next

\* A chat sees a truncated video from a row or a file that is truncated.
LEMMA ShownSuspect ==
  ASSUME TypeInv, RowInv, CauseInv, [Next]_vars, NEW v \in Videos,
         v \in cut', v \notin cut
  PROVE  v \in suspect
<1>0. /\ \A w \in Workers : pc[w] # "idle" => Video(w) \in Videos
      /\ row \in [Videos -> Contents]
      /\ blob \in [Videos -> {"absent", "partial", "whole"}]
      /\ \A w \in FetchWorkers : pc[w] \in FetchPCs /\ w \notin UploadWorkers
      /\ UploadWorkers \subseteq Workers /\ FetchWorkers \subseteq Workers
  BY InHandType, MediaConstantsOK DEF TypeInv, WorkerTypes, DataTypes, Workers
<1>1. \A u \in Videos : row[u] = "partial" => u \in suspect
  BY DEF CauseInv, TruncationHasCause
<1>2. ASSUME NEW w \in UploadWorkers, pc[w] = "lookup", HasRow(w),
             row[Video(w)] # "uncached", Show(Video(w), row[Video(w)])
      PROVE  v \in suspect
  BY <1>0, <1>1, <1>2 DEF Show, HasRow, Contents
<1>3. ASSUME NEW w \in UploadWorkers, pc[w] = "object", blob[Video(w)] # "absent",
             Show(Video(w), blob[Video(w)])
      PROVE  v \in suspect
  BY <1>0, <1>3, ReadsSuspect DEF Show
<1>4. ASSUME NEW w \in FetchWorkers, Fetching(w) PROVE cut' = cut
  <2>1. CASE GiveUp(w)
    BY <1>0, <2>1 DEF GiveUp, TookEffect, FetchPCs
  <2> QED
    BY <1>4, <2>1 DEF Fetching, TakeFetch, FetchLookup, FetchProbe, FetchCheck,
         PutObject, OpenFile, WriteFile, FetchSave, FetchPublish, history
<1>5. ASSUME NEW w \in UploadWorkers, Uploading(w) PROVE v \in suspect
  <2>1. CASE GiveUp(w)
    BY <1>2, <1>3, <2>1 DEF GiveUp, TookEffect
  <2>2. CASE UploadShare(w)
    BY <1>2, <2>2 DEF UploadShare, Serve
  <2>3. CASE UploadSend(w)
    BY <1>3, <2>3 DEF UploadSend, Serve
  <2> QED
    BY <1>5, <2>1, <2>2, <2>3 DEF Uploading, TakeUpload, UploadUnknown,
         UploadLookup, UploadMissing, UploadSave, UploadDelete, Requeue, history
<1> QED
  BY <1>4, <1>5 DEF Next, SendLink, Interrupt, Restart, Crash, vars, history

\* A row holds the file id of a truncated video when an upload saves it.
LEMMA SavedSuspect ==
  ASSUME TypeInv, RowInv, CauseInv, [Next]_vars, NEW v \in Videos,
         row'[v] = "partial"
  PROVE  v \in suspect
<1>1. row \in [Videos -> Contents] /\ (row[v] = "partial" => v \in suspect)
  BY DEF TypeInv, DataTypes, CauseInv, TruncationHasCause
<1>2. ASSUME NEW w \in FetchWorkers, SavedBy(w) PROVE v \in suspect
  BY <1>1, <1>2 DEF SavedBy
<1>3. ASSUME NEW w \in UploadWorkers, SavedBy(w) PROVE v \in suspect
  <2>1. w \notin FetchWorkers /\ Reads(w)
    BY MediaConstantsOK DEF CauseInv
  <2> QED
    BY <1>1, <1>3, <2>1 DEF SavedBy, Reads
<1>4. CASE UNCHANGED row
  BY <1>1, <1>4
<1> QED
  BY <1>2, <1>3, <1>4, FetchesSave, UploadsSave
  DEF Next, SendLink, Interrupt, Restart, Crash, vars, storeVars

LEMMA CauseStep == TypeInv /\ RowInv /\ CauseInv /\ [Next]_vars => CauseInv'
<1> SUFFICES ASSUME TypeInv, RowInv, CauseInv, [Next]_vars PROVE CauseInv'
  OBVIOUS
<1>1. TruncationHasCause'
  BY SuspectGrows, ShownSuspect, SavedSuspect DEF CauseInv, TruncationHasCause
<1>2. Overlaps' /\ Truncated'
  BY OverlapsStep, TruncatedStep DEF CauseInv
<1> QED
  BY <1>1, <1>2, ReadsStep DEF CauseInv

\* With any number of workers and whatever fails, a truncated video is sent, or
\* its file id cached, only after two fetches of it overlapped, a fetch created
\* its file although the row was there, or an error or a crash cut the write of
\* the file short: os.WriteFile (storage/fs.go) is safe otherwise.
THEOREM MediaTruncationHasCause == Spec => []TruncationHasCause
<1>1. Init => CauseInv
  BY DEF Init, CauseInv, Overlaps, InFetch, Truncated, TruncationHasCause, Reads,
       Workers
<1>2. CauseInv => TruncationHasCause
  BY DEF CauseInv
<1> QED
  BY <1>1, <1>2, CauseStep, TypeInvariant, RowInit, RowStep, PTL DEF Spec

=============================================================================
