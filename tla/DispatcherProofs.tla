--------------------------- MODULE DispatcherProofs ---------------------------
(***************************************************************************)
(* Type correctness of Dispatcher, the quiet end of a run and the match    *)
(* between the list of jobs and the work in hand, for any number of        *)
(* workers, videos, chats and updates and any combination of faults.       *)
(***************************************************************************)
EXTENDS Dispatcher, JobListProofs

\* A worker that has a message in hand has one.
InHand == \A w \in Workers : Busy(w) => cur[w] \in Payload

\* Only a goroutine that got past its setup and has not returned can have an
\* open channel, or messages pushed to it.
OpenIsServed ==
    \A w \in Workers :
        w \in open \/ inbox[w] # << >> => pc[w] \in {"ready", "working", "deleting"}

\* Finalization alone counts jobs, and a dead process has none.
PhaseInv ==
    /\ phase = "running" => republished = 0
    /\ phase = "down" => republished = 0

TypeInv == TypeOK /\ InHand

QuietInv == OpenIsServed /\ PhaseInv /\ QuietWhenNotRunning

-----------------------------------------------------------------------------
(* Lemmas about the pieces of the actions.                                 *)

LEMMA KindType == \A w \in Workers : Kind(w) \in Kinds
BY DEF Kind, Kinds

LEMMA RequestTypes ==
  /\ \A r \in Links : /\ r \in Request
                      /\ [video |-> r[2], chat |-> r[1], format |-> FALSE] \in Payload
  /\ \A p \in Payload : RequestOf(p) \in Request
  /\ \A j \in Job : RequestOf(j) \in Request /\ PayloadOf(j) \in Payload
  /\ \A p \in Payload, k \in Kinds : JobOf(k, p) \in Job
  /\ \A p \in Payload, b \in BOOLEAN : [p EXCEPT !.format = b] \in Payload
<1>1. ASSUME NEW r \in Links
      PROVE  /\ r \in Request
             /\ [video |-> r[2], chat |-> r[1], format |-> FALSE] \in Payload
  <2>1. r \in Chats \X Videos
    BY ConstantsOK DEF Request
  <2>2. r[1] \in Chats /\ r[2] \in Videos
    BY <2>1
  <2> QED
    BY <2>1, <2>2 DEF Payload, Request
<1>2. \A p \in Payload : RequestOf(p) \in Request
  BY DEF Payload, RequestOf, Request
<1>3. \A j \in Job : RequestOf(j) \in Request /\ PayloadOf(j) \in Payload
  BY DEF Job, Payload, RequestOf, PayloadOf, Request
<1>4. \A p \in Payload, k \in Kinds : JobOf(k, p) \in Job
  BY DEF Job, Payload, JobOf
<1>5. \A p \in Payload, b \in BOOLEAN : [p EXCEPT !.format = b] \in Payload
  BY DEF Payload
<1> QED
  BY <1>1, <1>2, <1>3, <1>4, <1>5

LEMMA RequestsType ==
  /\ \A s \in Seq(Payload) : Requests(s) \subseteq Request
  /\ \A s \in Seq(Job) : Requests(s) \subseteq Request
BY RequestTypes DEF Requests

LEMMA PublishType ==
  ASSUME TypeOK, NEW kind \in Kinds, NEW p \in Payload, Publish(kind, p)
  PROVE  /\ queue' \in [Kinds -> Seq(Payload)]
         /\ lost' \subseteq Request
<1>1. queue \in [Kinds -> Seq(Payload)] /\ lost \subseteq Request
  BY DEF TypeOK
<1>2. RequestOf(p) \in Request
  BY RequestTypes
<1>3. Append(queue[kind], p) \in Seq(Payload)
  BY <1>1
<1> QED
  BY <1>1, <1>2, <1>3 DEF Publish

LEMMA AbandonType ==
  ASSUME TypeOK, InHand, NEW w \in Workers, Busy(w), Abandon(w)
  PROVE  /\ pc' \in [Workers -> PCs] /\ declared' \subseteq Kinds
         /\ cur' \in [Workers -> Payload \cup {None}]
         /\ unfinished' \in [Videos \X Kinds -> Nat]
<1>1. cur[w].video \in Videos /\ Kind(w) \in Kinds
  BY KindType DEF InHand, Payload
<1>2. unfinished \in [Videos \X Kinds -> Nat]
  BY DEF TypeOK
<1>3. <<cur[w].video, Kind(w)>> \in Videos \X Kinds
  BY <1>1
<1>4. unfinished[<<cur[w].video, Kind(w)>>] + 1 \in Nat
  BY <1>2, <1>3
<1>5. unfinished' \in [Videos \X Kinds -> Nat]
  BY <1>2, <1>4 DEF Abandon
<1>6. declared' \subseteq Kinds
  BY DEF Abandon, TypeOK, Kinds
<1> QED
  BY <1>5, <1>6 DEF Abandon, TypeOK, PCs

LEMMA InMemoryType == ASSUME TypeOK, InHand PROVE InMemory \subseteq Request
<1>1. \A w \in Workers : Requests(inbox[w]) \subseteq Request
  BY RequestsType DEF TypeOK
<1>2. \A w \in Workers : Busy(w) => RequestOf(cur[w]) \in Request
  BY RequestTypes DEF InHand
<1>3. Requests(SubSeq(Jobs, republished + 1, Len(Jobs))) \subseteq Request
  <2>1. Jobs \in Seq(Job) /\ republished \in Nat
    BY DEF TypeOK
  <2>2. SubSeq(Jobs, republished + 1, Len(Jobs)) \in Seq(Job)
    <3>1. \A i \in republished + 1..Len(Jobs) : Jobs[i] \in Job
      BY <2>1
    <3> QED
      BY <2>1, <3>1, SubSeqProperties
  <2> QED
    BY <2>2, RequestsType
<1>4. UNION {Requests(inbox[w]) : w \in Workers} \subseteq Request
  BY <1>1
<1>5. {RequestOf(cur[w]) : w \in {x \in Workers : Busy(x)}} \subseteq Request
  BY <1>2
<1> DEFINE pushed == UNION {Requests(inbox[w]) : w \in Workers}
           inHand == {RequestOf(cur[w]) : w \in {x \in Workers : Busy(x)}}
           listed == Requests(SubSeq(Jobs, republished + 1, Len(Jobs)))
<1>6. InMemory = pushed \cup inHand \cup listed
  BY DEF InMemory
<1>7. pushed \subseteq Request /\ inHand \subseteq Request /\ listed \subseteq Request
  BY <1>3, <1>4, <1>5
<1> HIDE DEF pushed, inHand, listed
<1> QED
  BY <1>6, <1>7

LEMMA DieType ==
  ASSUME TypeOK, NEW inMemory \in SUBSET Request, Die(inMemory),
         declared' \subseteq Kinds,
         UNCHANGED <<queue, ctxDone, runs, received, unconfirmed, accepted,
                     delivered, apologised>>
  PROVE  TypeInv'
<1>1. /\ phase' = "down" /\ connected' = FALSE
      /\ lost' \subseteq Request /\ open' = {}
      /\ inbox' = [w \in Workers |-> << >>]
      /\ pc' = [w \in Workers |-> "gone"]
      /\ cur' = [w \in Workers |-> None]
      /\ Jobs' = << >> /\ republished' = 0
      /\ updates' = << >> /\ polling' = FALSE /\ listening' = {}
      /\ unfinished' = [x \in Videos \X Kinds |-> 0]
  BY DEF Die, TypeOK
<1>2. /\ inbox' \in [Workers -> Seq(Payload)] /\ pc' \in [Workers -> PCs]
      /\ cur' \in [Workers -> Payload \cup {None}] /\ Jobs' \in Seq(Job)
      /\ updates' \in Seq(Links \cup Commands)
      /\ unfinished' \in [Videos \X Kinds -> Nat]
  BY <1>1 DEF PCs
<1>3. ignored' \subseteq Request
  <2>1. ignored' = ignored \cup
                     ((ToSet(updates) \ ToSet(unconfirmed)) \cap Links)
    BY DEF Die
  <2>2. ignored \subseteq Request /\ Links \subseteq Request
    BY RequestTypes DEF TypeOK
  <2> QED
    BY <2>1, <2>2
<1>4. TypeOK'
  BY <1>1, <1>2, <1>3 DEF TypeOK
<1>5. InHand'
  BY <1>1 DEF InHand, Busy
<1> QED
  BY <1>4, <1>5 DEF TypeInv

-----------------------------------------------------------------------------
(* Type correctness: one step per action.                                  *)

LEMMA TypeInit == Init => TypeInv
<1> SUFFICES ASSUME Init PROVE TypeInv
  OBVIOUS
<1>1. /\ queue \in [Kinds -> Seq(Payload)]
      /\ inbox \in [Workers -> Seq(Payload)]
      /\ pc \in [Workers -> PCs]
      /\ cur \in [Workers -> Payload \cup {None}]
      /\ unfinished \in [Videos \X Kinds -> Nat]
  BY DEF Init, PCs
<1>2. TypeOK
  <2>1. << >> \in Seq(Job) /\ << >> \in Seq(Links \cup Commands)
    OBVIOUS
  <2>2. QueuesAtStart \subseteq Kinds
    BY ConstantsOK
  <2> QED
    BY <1>1, <2>1, <2>2 DEF Init, TypeOK
<1>3. InHand
  BY DEF Init, InHand, Busy
<1> QED
  BY <1>2, <1>3 DEF TypeInv

LEMMA TypeUpdates ==
  ASSUME TypeInv,
         \/ ReceiveUpdate \/ StopPolling
         \/ \E d \in UpdateWorkers : UpdateWorker(d)
  PROVE  TypeInv'
<1> USE DEF TypeInv
<1>1. CASE ReceiveUpdate
  <2>1. PICK u \in Links \cup Commands :
          /\ updates' = Append(updates, u)
          /\ unconfirmed' \in {<< >>, <<u>>, Append(unconfirmed, u)}
    BY <1>1 DEF ReceiveUpdate
  <2>2. /\ updates \in Seq(Links \cup Commands)
        /\ unconfirmed \in Seq(Links \cup Commands)
    BY DEF TypeOK
  <2>3. /\ << >> \in Seq(Links \cup Commands) /\ <<u>> \in Seq(Links \cup Commands)
        /\ Append(updates, u) \in Seq(Links \cup Commands)
        /\ Append(unconfirmed, u) \in Seq(Links \cup Commands)
    BY <2>2
  <2>4. /\ updates' \in Seq(Links \cup Commands)
        /\ unconfirmed' \in Seq(Links \cup Commands)
    BY <2>1, <2>3
  <2> QED
    BY <1>1, <2>4 DEF ReceiveUpdate, TypeOK, InHand, Busy, brokerVars,
                      workerVars, processVars, answerVars
<1>2. CASE StopPolling
  BY <1>2 DEF StopPolling, TypeOK, InHand, Busy, brokerVars, workerVars,
              processVars, answerVars
<1>3. ASSUME NEW d \in UpdateWorkers, TakeCommand(d) PROVE TypeInv'
  BY <1>3, ConstantsOK DEF TakeCommand, TypeOK, InHand, Busy, brokerVars, workerVars,
              processVars, answerVars
<1>4. ASSUME NEW d \in UpdateWorkers, DropLink(d) PROVE TypeInv'
  <2>1. Head(updates) \in Request
    BY <1>4, RequestTypes DEF DropLink
  <2>2. ignored' \subseteq Request
    BY <1>4, <2>1 DEF DropLink, TypeOK
  <2> QED
    BY <1>4, <2>2 DEF DropLink, TypeOK, InHand, Busy, brokerVars, workerVars,
                      processVars
<1>5. ASSUME NEW d \in UpdateWorkers, RefuseLink(d) PROVE TypeInv'
  <2>1. Head(updates) \in Request
    BY <1>5, RequestTypes DEF RefuseLink
  <2>2. apologised' \subseteq Request /\ ignored' \subseteq Request
    BY <1>5, <2>1 DEF RefuseLink, Apologise, TypeOK
  <2> QED
    BY <1>5, <2>2 DEF RefuseLink, TypeOK, InHand, Busy, brokerVars,
              workerVars, processVars
<1>6. ASSUME NEW d \in UpdateWorkers, AcceptLink(d) PROVE TypeInv'
  <2> DEFINE r == Head(updates)
             p == [video |-> r[2], chat |-> r[1], format |-> FALSE]
  <2>1. r \in Links /\ p \in Payload /\ Publish("fetching", p)
    BY <1>6, RequestTypes DEF AcceptLink
  <2>2. "fetching" \in Kinds
    BY DEF Kinds
  <2> HIDE DEF p
  <2>3. queue' \in [Kinds -> Seq(Payload)] /\ lost' \subseteq Request
    BY <2>1, <2>2, PublishType
  <2>4. accepted' \subseteq Links /\ updates' \in Seq(Links \cup Commands)
    BY <1>6, <2>1 DEF AcceptLink, TypeOK
  <2> QED
    BY <1>6, <2>3, <2>4 DEF AcceptLink, TypeOK, InHand, Busy, workerVars,
                            processVars
<1>7. ASSUME NEW d \in UpdateWorkers, StopListening(d) PROVE TypeInv'
  BY <1>7 DEF StopListening, TypeOK, InHand, Busy, brokerVars, workerVars,
              processVars, answerVars
<1> QED
  BY <1>1, <1>2, <1>3, <1>4, <1>5, <1>6, <1>7 DEF UpdateWorker

LEMMA TypeConsumer ==
  ASSUME TypeInv, NEW w \in Workers, Consumer(w)
  PROVE  TypeInv'
<1> USE DEF TypeInv
<1>0. /\ pc \in [Workers -> PCs] /\ cur \in [Workers -> Payload \cup {None}]
      /\ inbox \in [Workers -> Seq(Payload)] /\ queue \in [Kinds -> Seq(Payload)]
      /\ Jobs \in Seq(Job) /\ Kind(w) \in Kinds
  BY KindType DEF TypeOK
<1>1. CASE Setup(w)
  <2>1. pc' \in [Workers -> PCs] /\ declared' \subseteq Kinds /\ open' \subseteq Workers
    BY <1>0, <1>1 DEF Setup, TypeOK, PCs
  <2>2. TypeOK'
    BY <1>1, <2>1 DEF Setup, TypeOK, processVars, updateVars, answerVars
  <2>3. InHand'
    BY <1>0, <1>1 DEF Setup, InHand, Busy
  <2> QED
    BY <2>2, <2>3
<1>2. CASE SetupFails(w)
  <2>1. pc' \in [Workers -> PCs] /\ declared' \subseteq Kinds
    BY <1>0, <1>2 DEF SetupFails, TypeOK, PCs
  <2>2. TypeOK'
    BY <1>2, <2>1 DEF SetupFails, TypeOK, updateVars, answerVars
  <2>3. InHand'
    BY <1>0, <1>2 DEF SetupFails, InHand, Busy
  <2> QED
    BY <2>2, <2>3
<1>3. CASE Take(w)
  <2> DEFINE p == Head(inbox[w])
  <2>1. inbox[w] \in Seq(Payload) /\ inbox[w] # << >>
    BY <1>0, <1>3 DEF Take
  <2>2. p \in Payload /\ Tail(inbox[w]) \in Seq(Payload)
    BY <2>1
  <2>3. JobOf(Kind(w), p) \in Job
    BY <1>0, <2>2, RequestTypes
  <2> HIDE DEF p
  <2>4. Jobs' = Append(Jobs, JobOf(Kind(w), p)) /\ cur' = [cur EXCEPT ![w] = p]
    BY <1>3 DEF Take, p
  <2>5. /\ pc' \in [Workers -> PCs] /\ cur' \in [Workers -> Payload \cup {None}]
        /\ Jobs' \in Seq(Job) /\ inbox' \in [Workers -> Seq(Payload)]
    BY <1>0, <1>3, <2>2, <2>3, <2>4 DEF Take, PCs
  <2>6. TypeOK'
    BY <1>3, <2>5 DEF Take, TypeOK, processVars, updateVars, answerVars
  <2>7. InHand'
    BY <1>0, <1>3, <2>2, <2>4 DEF Take, InHand, Busy
  <2> QED
    BY <2>6, <2>7
<1>4. CASE Exit(w)
  <2>1. pc' \in [Workers -> PCs]
    BY <1>0, <1>4 DEF Exit, PCs
  <2>2. TypeOK'
    BY <1>4, <2>1 DEF Exit, TypeOK, brokerVars, processVars, updateVars, answerVars
  <2>3. InHand'
    BY <1>0, <1>4 DEF Exit, InHand, Busy
  <2> QED
    BY <2>2, <2>3
<1>5. ASSUME pc[w] = "working", Succeed(w)
      PROVE  /\ pc' \in [Workers -> PCs] /\ cur' = cur /\ unfinished' = unfinished
             /\ InHand'
  BY <1>0, <1>5 DEF Succeed, PCs, InHand, Busy
<1>6. pc[w] = "working" => cur[w] \in Payload
  BY DEF InHand, Busy
<1>7. CASE FetchSucceeds(w)
  <2>1. pc[w] = "working" /\ Succeed(w)
    BY <1>7 DEF FetchSucceeds
  <2> DEFINE p == [cur[w] EXCEPT !.format = TRUE]
  <2>2. p \in Payload /\ "uploading" \in Kinds
    BY <1>6, <2>1, RequestTypes DEF Kinds
  <2>3. Publish("uploading", p)
    BY <1>7 DEF FetchSucceeds
  <2> HIDE DEF p
  <2>4. queue' \in [Kinds -> Seq(Payload)] /\ lost' \subseteq Request
    BY <2>2, <2>3, PublishType
  <2>5. TypeOK'
    BY <1>5, <1>7, <2>1, <2>4 DEF FetchSucceeds, TypeOK, processVars,
                                  updateVars, answerVars
  <2> QED
    BY <1>5, <2>1, <2>5
<1>8. CASE UploadDelivers(w)
  <2>1. pc[w] = "working" /\ Succeed(w)
    BY <1>8 DEF UploadDelivers
  <2>2. delivered' \subseteq Request
    BY <1>6, <1>8, <2>1, RequestTypes DEF UploadDelivers, TypeOK
  <2>3. declared' \subseteq Kinds
    BY <1>8 DEF UploadDelivers, TypeOK, Kinds
  <2>4. TypeOK'
    BY <1>5, <1>8, <2>1, <2>2, <2>3 DEF UploadDelivers, TypeOK, processVars,
                                        updateVars
  <2> QED
    BY <1>5, <2>1, <2>4
<1>9. CASE UploadRequeues(w)
  <2>1. pc[w] = "working" /\ Succeed(w)
    BY <1>9 DEF UploadRequeues
  <2> DEFINE p == [cur[w] EXCEPT !.format = FALSE]
  <2>2. p \in Payload /\ "fetching" \in Kinds
    BY <1>6, <2>1, RequestTypes DEF Kinds
  <2>3. queue' = [queue EXCEPT !["fetching"] = Append(@, p)]
    BY <1>9 DEF UploadRequeues
  <2> HIDE DEF p
  <2>4. Append(queue["fetching"], p) \in Seq(Payload)
    BY <1>0, <2>2
  <2>5. queue' \in [Kinds -> Seq(Payload)]
    BY <1>0, <2>3, <2>4
  <2>6. declared' \subseteq Kinds
    BY <1>9, <2>2 DEF UploadRequeues, TypeOK
  <2>7. TypeOK'
    BY <1>5, <1>9, <2>1, <2>5, <2>6 DEF UploadRequeues, TypeOK, processVars,
                                        updateVars, answerVars
  <2> QED
    BY <1>5, <2>1, <2>7
<1>10. ASSUME pc[w] = "working", Abandon(w)
       PROVE  /\ pc' \in [Workers -> PCs] /\ declared' \subseteq Kinds
              /\ cur' \in [Workers -> Payload \cup {None}]
              /\ UNCHANGED <<queue, open, inbox, Jobs>>
              /\ unfinished' \in [Videos \X Kinds -> Nat]
              /\ InHand'
  <2>1. InHand'
    BY <1>0, <1>10 DEF Abandon, InHand, Busy
  <2>2. Busy(w)
    BY <1>10 DEF Busy
  <2>3. UNCHANGED <<queue, open, inbox, Jobs>>
    BY <1>10 DEF Abandon
  <2> QED
    BY <1>10, <2>1, <2>2, <2>3, AbandonType
<1>11. CASE Fail(w)
  <2>1. pc[w] = "working" /\ Abandon(w)
    BY <1>11 DEF Fail
  <2>2. RequestOf(cur[w]) \in Request
    BY <1>6, <2>1, RequestTypes
  <2>3. /\ apologised' \subseteq Request /\ ignored' \subseteq Request
        /\ delivered' \subseteq Request
    BY <1>11, <2>2 DEF Fail, Apologise, TypeOK
  <2>4. TypeOK'
    BY <1>10, <1>11, <2>1, <2>3 DEF Fail, TypeOK, processVars, updateVars
  <2> QED
    BY <1>10, <2>1, <2>4
<1>12. CASE Interrupted(w)
  <2>1. pc[w] = "working" /\ Abandon(w)
    BY <1>12 DEF Interrupted
  <2>2. RequestOf(cur[w]) \in Request
    BY <1>6, <2>1, RequestTypes
  <2>3. delivered' \subseteq Request
    BY <1>12, <2>2 DEF Interrupted, TypeOK
  <2>4. TypeOK'
    BY <1>10, <1>12, <2>1, <2>3 DEF Interrupted, TypeOK, processVars,
                                    updateVars
  <2> QED
    BY <1>10, <2>1, <2>4
<1>13. CASE Delete(w)
  <2>1. Jobs' \in Seq(Job)
    BY <1>0, <1>13, EntriesDelete DEF Delete
  <2>2. pc' \in [Workers -> PCs] /\ cur' \in [Workers -> Payload \cup {None}]
    BY <1>0, <1>13 DEF Delete, PCs
  <2>3. TypeOK'
    BY <1>13, <2>1, <2>2 DEF Delete, TypeOK, brokerVars, processVars,
                             updateVars, answerVars
  <2>4. InHand'
    BY <1>0, <1>13 DEF Delete, InHand, Busy
  <2> QED
    BY <2>3, <2>4
<1> QED
  BY <1>1, <1>2, <1>3, <1>4, <1>7, <1>8, <1>9, <1>11, <1>12, <1>13 DEF Consumer

LEMMA TypeBroker ==
  ASSUME TypeInv, NEW w \in Workers, Broker(w)
  PROVE  TypeInv'
<1> USE DEF TypeInv
<1>0. /\ inbox \in [Workers -> Seq(Payload)] /\ queue \in [Kinds -> Seq(Payload)]
      /\ Kind(w) \in Kinds
  BY KindType DEF TypeOK
<1>1. CASE Deliver(w)
  <2> DEFINE k == Kind(w)
             p == Head(queue[k])
  <2>1. queue[k] \in Seq(Payload) /\ queue[k] # << >> /\ inbox[w] \in Seq(Payload)
    BY <1>0, <1>1 DEF Deliver
  <2>2. p \in Payload /\ Tail(queue[k]) \in Seq(Payload)
    BY <2>1
  <2>3. Append(inbox[w], p) \in Seq(Payload)
    BY <2>1, <2>2
  <2>4. /\ inbox' = [inbox EXCEPT ![w] = Append(@, p)]
        /\ queue' = [queue EXCEPT ![k] = Tail(@)]
    BY <1>1 DEF Deliver
  <2> HIDE DEF p, k
  <2>5. inbox' \in [Workers -> Seq(Payload)] /\ queue' \in [Kinds -> Seq(Payload)]
    BY <1>0, <2>2, <2>3, <2>4 DEF k
  <2> QED
    BY <1>1, <2>5 DEF Deliver, TypeOK, InHand, Busy, workerVars, processVars,
                      updateVars, answerVars
<1>2. CASE CloseChannel(w)
  BY <1>2 DEF CloseChannel, TypeOK, InHand, Busy, workerVars, processVars,
              updateVars, answerVars
<1>3. CASE DropInbox(w)
  <2>1. Requests(inbox[w]) \subseteq Request
    BY <1>0, RequestsType
  <2>2. inbox' \in [Workers -> Seq(Payload)]
    BY <1>0, <1>3 DEF DropInbox
  <2>3. lost' \subseteq Request
    BY <1>3, <2>1 DEF DropInbox, TypeOK
  <2> QED
    BY <1>3, <2>2, <2>3 DEF DropInbox, TypeOK, InHand, Busy, workerVars,
                            processVars, updateVars, answerVars
<1>4. CASE LoseChannel(w)
  BY <1>4 DEF LoseChannel, TypeOK, InHand, Busy, workerVars, processVars,
              updateVars, answerVars
<1> QED
  BY <1>1, <1>2, <1>3, <1>4 DEF Broker

LEMMA TypeConnection == ASSUME TypeInv, ConnectionEnds PROVE TypeInv'
<1> USE DEF TypeInv
<1>0. queue \in [Kinds -> Seq(Payload)] /\ lost \subseteq Request
  BY DEF TypeOK
<1>1. queue' \in [Kinds -> Seq(Payload)] /\ lost' \subseteq Request
  <2>1. CASE RestartBroker
    <3>1. \A k \in Kinds : Requests(queue[k]) \subseteq Request
      BY <1>0, RequestsType
    <3>2. Queued \subseteq Request
      BY <3>1 DEF Queued
    <3> QED
      BY <1>0, <2>1, <3>2 DEF RestartBroker
  <2>2. ASSUME NEW k \in Kinds, queue[k] # << >>,
               queue' = [queue EXCEPT ![k] = Front(@)],
               lost' = lost \cup {RequestOf(Last(queue[k]))}
        PROVE  queue' \in [Kinds -> Seq(Payload)] /\ lost' \subseteq Request
    <3>1. queue[k] \in Seq(Payload)
      BY <1>0
    <3>2. Last(queue[k]) \in Payload /\ Front(queue[k]) \in Seq(Payload)
      BY <2>2, <3>1, RequestsFront
    <3>3. RequestOf(Last(queue[k])) \in Request
      BY <3>2, RequestTypes
    <3> QED
      BY <1>0, <2>2, <3>2, <3>3
  <2>3. CASE LoseConnection
    BY <1>0, <2>2, <2>3 DEF LoseConnection
  <2> QED
    BY <2>1, <2>3 DEF ConnectionEnds
<1>2. /\ connected' = FALSE /\ open' = {}
      /\ UNCHANGED <<declared, inbox, workerVars, phase, ctxDone, republished,
                     runs, updateVars, answerVars, unfinished>>
  BY DEF ConnectionEnds, LoseConnection, RestartBroker
<1> QED
  BY <1>1, <1>2 DEF TypeOK, InHand, Busy, workerVars, updateVars, answerVars

LEMMA TypeProcess ==
  ASSUME TypeInv,
         ConnectionEnds \/ Finalization \/ Interrupt \/ Crash \/ Restart
  PROVE  TypeInv'
<1> USE DEF TypeInv
<1>1. CASE BeginFinalization
  BY <1>1 DEF BeginFinalization, TypeOK, InHand, Busy, workerVars, updateVars,
              answerVars
<1>2. CASE RepublishJob
  <2> DEFINE j == Jobs[republished + 1]
  <2>1. j \in Job
    BY <1>2 DEF RepublishJob, TypeOK
  <2>2. /\ j.kind \in Kinds /\ PayloadOf(j) \in Payload
        /\ RequestOf(j) \in Request
    BY <2>1, RequestTypes DEF Job
  <2>3. \/ Publish(j.kind, PayloadOf(j))
        \/ lost' = lost \cup {RequestOf(j)} /\ UNCHANGED queue
    BY <1>2 DEF RepublishJob
  <2> HIDE DEF j
  <2>4. queue' \in [Kinds -> Seq(Payload)] /\ lost' \subseteq Request
    <3>1. CASE Publish(j.kind, PayloadOf(j))
      BY <2>2, <3>1, PublishType
    <3>2. CASE lost' = lost \cup {RequestOf(j)} /\ UNCHANGED queue
      BY <2>2, <3>2 DEF TypeOK
    <3> QED
      BY <2>3, <3>1, <3>2
  <2> QED
    BY <1>2, <2>4 DEF RepublishJob, TypeOK, InHand, Busy, workerVars,
                      updateVars, answerVars
<1>3. CASE EndFinalization
  BY <1>3, DieType DEF EndFinalization, TypeOK
<1>4. CASE FinalizationFails
  <2>1. Requests(Jobs) \subseteq Request
    BY RequestsType DEF TypeOK
  <2>2. declared' \subseteq Kinds
    BY <1>4 DEF FinalizationFails, TypeOK, Kinds
  <2> QED
    BY <1>4, <2>1, <2>2, DieType DEF FinalizationFails
<1>5. CASE Interrupt
  BY <1>5 DEF Interrupt, TypeOK, InHand, Busy, brokerVars, workerVars,
              updateVars, answerVars
<1>6. CASE Crash
  BY <1>6, InMemoryType, DieType DEF Crash, TypeOK
<1>7. CASE Restart
  <2>1. pc' \in [Workers -> PCs]
    BY <1>7 DEF Restart, PCs
  <2>2. /\ phase' = "running" /\ ctxDone' = FALSE /\ polling' = TRUE
        /\ connected' = TRUE
        /\ listening' = UpdateWorkers /\ runs' = runs + 1
        /\ UNCHANGED <<declared, queue, open, inbox, cur, Jobs, republished,
                       received, accepted, delivered, apologised, ignored,
                       lost, unfinished>>
        /\ updates' = unconfirmed /\ unconfirmed' \in {unconfirmed, << >>}
    BY <1>7 DEF Restart, brokerVars, answerVars
  <2>3. /\ runs' \in Nat
        /\ updates' \in Seq(Links \cup Commands)
        /\ unconfirmed' \in Seq(Links \cup Commands)
    <3>1. << >> \in Seq(Links \cup Commands)
      OBVIOUS
    <3>2. runs \in Nat /\ unconfirmed \in Seq(Links \cup Commands)
      BY DEF TypeOK
    <3>3. runs' \in Nat
      BY <2>2, <3>2
    <3>4. updates' = unconfirmed /\ (unconfirmed' = unconfirmed \/ unconfirmed' = << >>)
      BY <2>2
    <3> HIDE DEF TypeInv
    <3> QED
      BY <3>1, <3>2, <3>3, <3>4
  <2>4. TypeOK'
    BY <2>1, <2>2, <2>3 DEF TypeOK
  <2>5. InHand'
    BY <1>7 DEF Restart, InHand, Busy
  <2> QED
    BY <2>4, <2>5
<1> QED
  BY <1>1, <1>2, <1>3, <1>4, <1>5, <1>6, <1>7, TypeConnection DEF Finalization

LEMMA TypeStep == TypeInv /\ [Next]_vars => TypeInv'
<1> SUFFICES ASSUME TypeInv, [Next]_vars PROVE TypeInv'
  OBVIOUS
<1>1. CASE Next
  <2>1. \/ ReceiveUpdate \/ StopPolling
        \/ \E d \in UpdateWorkers : UpdateWorker(d)
        \/ \E w \in Workers : Consumer(w)
        \/ \E w \in Workers : Broker(w)
        \/ ConnectionEnds \/ Finalization \/ Interrupt \/ Crash \/ Restart
    BY <1>1 DEF Next
  <2> QED
    BY <2>1, TypeUpdates, TypeConsumer, TypeBroker, TypeProcess
<1>2. CASE UNCHANGED vars
  BY <1>2 DEF vars, brokerVars, workerVars, processVars, updateVars,
              answerVars, TypeInv, TypeOK, InHand, Busy
<1> QED
  BY <1>1, <1>2

\* Every variable keeps its type: what is published, pushed, taken, recorded
\* and republished by any interleaving of the goroutines of server.go is well
\* formed.
THEOREM DispatcherTypeCorrect == Spec => []TypeOK
<1>1. TypeInv => TypeOK
  BY DEF TypeInv
<1> QED
  BY <1>1, TypeInit, TypeStep, PTL DEF Spec

LEMMA TypeInvariant == Spec => []TypeInv
BY TypeInit, TypeStep, PTL DEF Spec

-----------------------------------------------------------------------------
(* The quiet end of a run.                                                 *)

LEMMA QuietInit == Init => QuietInv
BY DEF Init, QuietInv, OpenIsServed, PhaseInv, QuietWhenNotRunning

LEMMA QuietUpdates ==
  ASSUME TypeInv, QuietInv,
         \/ ReceiveUpdate \/ StopPolling
         \/ \E d \in UpdateWorkers : UpdateWorker(d)
  PROVE  QuietInv'
<1>1. listening' \subseteq listening
  BY DEF ReceiveUpdate, StopPolling, UpdateWorker, TakeCommand, DropLink,
         RefuseLink, AcceptLink, StopListening
<1>2. UNCHANGED <<phase, republished, open, inbox, pc, Jobs>>
  BY DEF ReceiveUpdate, StopPolling, UpdateWorker, TakeCommand, DropLink,
         RefuseLink, AcceptLink, StopListening, brokerVars, workerVars,
         processVars
<1> QED
  BY <1>1, <1>2 DEF QuietInv, OpenIsServed, PhaseInv, QuietWhenNotRunning

\* A goroutine that still takes a step keeps the run from ending.
LEMMA ConsumerRuns ==
  ASSUME QuietInv, NEW w \in Workers, Consumer(w)
  PROVE  /\ phase = "running"
         /\ UNCHANGED <<phase, republished>>
<1>1. pc[w] # "gone"
  BY DEF Consumer, Setup, SetupFails, Take, Exit, FetchSucceeds,
         UploadDelivers, UploadRequeues, Fail, Interrupted, Delete
<1>2. phase = "running"
  BY <1>1 DEF QuietInv, QuietWhenNotRunning
<1>3. UNCHANGED <<phase, republished>>
  BY DEF Consumer, Setup, SetupFails, Take, Exit, FetchSucceeds,
         UploadDelivers, UploadRequeues, Fail, Interrupted, Delete, processVars
<1> QED
  BY <1>2, <1>3

LEMMA QuietConsumer ==
  ASSUME TypeInv, QuietInv, NEW w \in Workers, Consumer(w)
  PROVE  QuietInv'
<1>0. /\ pc \in [Workers -> PCs] /\ inbox \in [Workers -> Seq(Payload)]
      /\ open \subseteq Workers /\ OpenIsServed
  BY DEF TypeInv, TypeOK, QuietInv
<1>1. ASSUME Setup(w) PROVE OpenIsServed'
  BY <1>0, <1>1 DEF Setup, OpenIsServed
<1>2. ASSUME SetupFails(w) PROVE OpenIsServed'
  BY <1>0, <1>2 DEF SetupFails, OpenIsServed
<1>3. ASSUME Take(w) PROVE OpenIsServed'
  BY <1>0, <1>3 DEF Take, OpenIsServed
<1>4. ASSUME Exit(w) PROVE OpenIsServed'
  BY <1>0, <1>4 DEF Exit, OpenIsServed, brokerVars
<1>5. ASSUME pc[w] = "working", UNCHANGED <<open, inbox>>,
             Succeed(w) \/ Abandon(w)
      PROVE  OpenIsServed'
  BY <1>0, <1>5 DEF Succeed, Abandon, OpenIsServed
<1>6. ASSUME \/ FetchSucceeds(w) \/ UploadDelivers(w) \/ UploadRequeues(w)
             \/ Fail(w) \/ Interrupted(w)
      PROVE  OpenIsServed'
  BY <1>5, <1>6 DEF FetchSucceeds, UploadDelivers, UploadRequeues, Fail,
                    Interrupted, Abandon
<1>7. ASSUME Delete(w) PROVE OpenIsServed'
  BY <1>0, <1>7 DEF Delete, OpenIsServed, brokerVars
<1>8. OpenIsServed'
  BY <1>1, <1>2, <1>3, <1>4, <1>6, <1>7 DEF Consumer
<1> QED
  BY <1>8, ConsumerRuns DEF QuietInv, PhaseInv, QuietWhenNotRunning

LEMMA QuietBroker ==
  ASSUME TypeInv, QuietInv, NEW w \in Workers, Broker(w)
  PROVE  QuietInv'
<1>0. /\ inbox \in [Workers -> Seq(Payload)]
      /\ open \subseteq Workers /\ OpenIsServed
  BY DEF TypeInv, TypeOK, QuietInv
<1>1. phase = "running"
  BY DEF Broker, Deliver, CloseChannel, LoseChannel, DropInbox, QuietInv,
         QuietWhenNotRunning
<1>2. UNCHANGED <<phase, republished, pc>>
  BY DEF Broker, Deliver, CloseChannel, LoseChannel, DropInbox, processVars,
         workerVars
<1>3. ASSUME Deliver(w) PROVE OpenIsServed'
  BY <1>0, <1>2, <1>3 DEF Deliver, OpenIsServed
<1>4. ASSUME CloseChannel(w) PROVE OpenIsServed'
  BY <1>0, <1>2, <1>4 DEF CloseChannel, OpenIsServed
<1>5. ASSUME DropInbox(w) PROVE OpenIsServed'
  BY <1>0, <1>2, <1>5 DEF DropInbox, OpenIsServed
<1>6. ASSUME LoseChannel(w) PROVE OpenIsServed'
  BY <1>0, <1>2, <1>6 DEF LoseChannel, OpenIsServed
<1>7. OpenIsServed'
  BY <1>3, <1>4, <1>5, <1>6 DEF Broker
<1> QED
  BY <1>1, <1>2, <1>7 DEF QuietInv, PhaseInv, QuietWhenNotRunning

LEMMA QuietDie ==
  ASSUME NEW inMemory, Die(inMemory)
  PROVE  QuietInv'
BY DEF Die, QuietInv, OpenIsServed, PhaseInv, QuietWhenNotRunning

LEMMA QuietProcess ==
  ASSUME TypeInv, QuietInv,
         ConnectionEnds \/ Finalization \/ Interrupt \/ Crash \/ Restart
  PROVE  QuietInv'
<1>1. CASE BeginFinalization
  <2>1. /\ \A w \in Workers : pc[w] = "gone" /\ inbox[w] = << >> /\ w \notin open
        /\ open = {} /\ listening = {} /\ republished = 0
    BY <1>1 DEF BeginFinalization, QuietInv, OpenIsServed, PhaseInv, TypeInv,
                TypeOK
  <2>2. /\ phase' = "finalizing"
        /\ UNCHANGED <<open, inbox, pc, Jobs, republished, listening>>
    BY <1>1 DEF BeginFinalization, workerVars, updateVars
  <2>3. Len(Jobs) \in Nat
    BY DEF TypeInv, TypeOK
  <2> QED
    BY <2>1, <2>2, <2>3 DEF QuietInv, OpenIsServed, PhaseInv, QuietWhenNotRunning
<1>2. CASE RepublishJob
  <2>1. /\ phase = "finalizing" /\ republished' = republished + 1
        /\ republished < Len(Jobs)
        /\ UNCHANGED <<phase, open, inbox, pc, Jobs, listening>>
    BY <1>2 DEF RepublishJob, workerVars, updateVars
  <2>2. Len(Jobs) \in Nat /\ republished \in Nat
    BY DEF TypeInv, TypeOK
  <2> QED
    BY <2>1, <2>2 DEF QuietInv, OpenIsServed, PhaseInv, QuietWhenNotRunning
<1>3. CASE EndFinalization \/ FinalizationFails \/ Crash
  BY <1>3, QuietDie DEF EndFinalization, FinalizationFails, Crash
<1>4. CASE Interrupt
  BY <1>4 DEF Interrupt, QuietInv, OpenIsServed, PhaseInv,
              QuietWhenNotRunning, brokerVars, workerVars, updateVars
<1>5. CASE Restart
  <2>1. \A w \in Workers : w \notin open /\ inbox[w] = << >>
    BY <1>5 DEF Restart, QuietInv, QuietWhenNotRunning
  <2> QED
    BY <1>5, <2>1 DEF Restart, QuietInv, OpenIsServed, PhaseInv,
                      QuietWhenNotRunning, brokerVars
<1>6. CASE ConnectionEnds
  <2>1. /\ open' = {}
        /\ UNCHANGED <<inbox, phase, republished, pc, Jobs, listening>>
    BY <1>6 DEF ConnectionEnds, LoseConnection, RestartBroker, workerVars,
                updateVars
  <2> QED
    BY <2>1 DEF QuietInv, OpenIsServed, PhaseInv, QuietWhenNotRunning
<1> QED
  BY <1>1, <1>2, <1>3, <1>4, <1>5, <1>6 DEF Finalization

LEMMA QuietStep == TypeInv /\ QuietInv /\ [Next]_vars => QuietInv'
<1> SUFFICES ASSUME TypeInv, QuietInv, [Next]_vars PROVE QuietInv'
  OBVIOUS
<1>1. CASE Next
  <2>1. \/ ReceiveUpdate \/ StopPolling
        \/ \E d \in UpdateWorkers : UpdateWorker(d)
        \/ \E w \in Workers : Consumer(w)
        \/ \E w \in Workers : Broker(w)
        \/ ConnectionEnds \/ Finalization \/ Interrupt \/ Crash \/ Restart
    BY <1>1 DEF Next
  <2> QED
    BY <2>1, QuietUpdates, QuietConsumer, QuietBroker, QuietProcess
<1>2. CASE UNCHANGED vars
  BY <1>2 DEF vars, brokerVars, workerVars, processVars, updateVars, QuietInv,
              OpenIsServed, PhaseInv, QuietWhenNotRunning
<1> QED
  BY <1>1, <1>2

LEMMA QuietInvariant == Spec => []QuietInv
BY TypeInvariant, QuietInit, QuietStep, PTL DEF Spec

\* wg.Wait in Run is enough: while finalization walks over Dispatcher.Jobs, and
\* after that, no worker, no open consumer and no pushed message is left to
\* change the slice or to be forgotten.
THEOREM DispatcherQuiet == Spec => []QuietWhenNotRunning
<1>1. QuietInv => QuietWhenNotRunning
  BY DEF QuietInv
<1> QED
  BY <1>1, QuietInvariant, PTL

-----------------------------------------------------------------------------
(* The list of jobs and the work in hand.                                  *)

LEMMA BusyFinite ==
  ASSUME NEW v, NEW k
  PROVE  /\ IsFiniteSet(BusyWith(v, k))
         /\ Cardinality(BusyWith(v, k)) \in Nat
<1>1. IsFiniteSet(Workers)
  BY ConstantsOK, FS_Union DEF Workers
<1>2. BusyWith(v, k) \subseteq Workers
  BY DEF BusyWith
<1> QED
  BY <1>1, <1>2, FS_Subset, FS_CardinalityType

\* Nobody takes a message or finishes one.
LEMMA NobodyMoves ==
  ASSUME JobsMatchWork, UNCHANGED <<Jobs, unfinished>>,
         \A w \in Workers : /\ Busy(w)' <=> Busy(w)
                            /\ Busy(w) => cur'[w] = cur[w]
  PROVE  JobsMatchWork'
<1>1. ASSUME NEW v, NEW k PROVE BusyWith(v, k)' = BusyWith(v, k)
  BY DEF BusyWith, Kind
<1>2. ASSUME NEW v, NEW k PROVE Entries(Jobs, v, k)' = Entries(Jobs, v, k)
  BY DEF Entries
<1> QED
  BY <1>1, <1>2 DEF JobsMatchWork

\* A worker takes a message.
LEMMA OneMoreBusy ==
  ASSUME TypeInv, NEW w \in Workers, ~ Busy(w), NEW p,
         pc' = [pc EXCEPT ![w] = "working"], cur' = [cur EXCEPT ![w] = p],
         NEW v, NEW k
  PROVE  Cardinality(BusyWith(v, k)') =
           Cardinality(BusyWith(v, k))
             + IF p.video = v /\ Kind(w) = k THEN 1 ELSE 0
<1>1. pc \in [Workers -> PCs] /\ cur \in [Workers -> Payload \cup {None}]
  BY DEF TypeInv, TypeOK
<1>2. \A x \in Workers : /\ Busy(x)' <=> (x = w \/ Busy(x))
                         /\ cur'[x] = IF x = w THEN p ELSE cur[x]
  BY <1>1 DEF Busy
<1>3. w \notin BusyWith(v, k)
  BY DEF BusyWith
<1>4. CASE p.video = v /\ Kind(w) = k
  <2>1. BusyWith(v, k)' = BusyWith(v, k) \cup {w}
    BY <1>2, <1>3, <1>4 DEF BusyWith, Kind
  <2>2. Cardinality(BusyWith(v, k) \cup {w}) = Cardinality(BusyWith(v, k)) + 1
    BY <1>3, BusyFinite, FS_AddElement
  <2> QED
    BY <1>4, <2>1, <2>2
<1>5. CASE ~ (p.video = v /\ Kind(w) = k)
  <2>1. BusyWith(v, k)' = BusyWith(v, k)
    BY <1>2, <1>3, <1>5 DEF BusyWith, Kind
  <2> QED
    BY <1>5, <2>1, BusyFinite
<1> QED
  BY <1>4, <1>5

\* A worker lets go of its message.
LEMMA OneLessBusy ==
  ASSUME TypeInv, NEW w \in Workers, Busy(w),
         pc' = [pc EXCEPT ![w] = "ready"], cur' = [cur EXCEPT ![w] = None],
         NEW v, NEW k
  PROVE  /\ Cardinality(BusyWith(v, k)') =
              Cardinality(BusyWith(v, k))
                - IF cur[w].video = v /\ Kind(w) = k THEN 1 ELSE 0
         /\ cur[w].video = v /\ Kind(w) = k => Cardinality(BusyWith(v, k)) > 0
<1>1. pc \in [Workers -> PCs] /\ cur \in [Workers -> Payload \cup {None}]
  BY DEF TypeInv, TypeOK
<1>2. \A x \in Workers : /\ Busy(x)' <=> (x # w /\ Busy(x))
                         /\ x # w => cur'[x] = cur[x]
  BY <1>1 DEF Busy
<1>3. CASE cur[w].video = v /\ Kind(w) = k
  <2>1. w \in BusyWith(v, k)
    BY <1>3 DEF BusyWith
  <2>2. BusyWith(v, k)' = BusyWith(v, k) \ {w}
    BY <1>2, <2>1 DEF BusyWith, Kind
  <2>3. Cardinality(BusyWith(v, k) \ {w}) = Cardinality(BusyWith(v, k)) - 1
    BY <2>1, BusyFinite, FS_RemoveElement
  <2>4. Cardinality(BusyWith(v, k)) # 0
    BY <2>1, BusyFinite, FS_EmptySet
  <2> QED
    BY <1>3, <2>2, <2>3, <2>4, BusyFinite
<1>4. CASE ~ (cur[w].video = v /\ Kind(w) = k)
  <2>1. BusyWith(v, k)' = BusyWith(v, k)
    BY <1>2, <1>4 DEF BusyWith, Kind
  <2> QED
    BY <1>4, <2>1, BusyFinite
<1> QED
  BY <1>3, <1>4

LEMMA JobsTake ==
  ASSUME TypeInv, JobsMatchWork, NEW w \in Workers, Take(w)
  PROVE  JobsMatchWork'
<1> DEFINE p == Head(inbox[w])
           j == JobOf(Kind(w), p)
<1>1. p \in Payload /\ j \in Job /\ Jobs \in Seq(Job)
  <2>1. inbox[w] \in Seq(Payload) /\ inbox[w] # << >>
    BY DEF Take, TypeInv, TypeOK
  <2>2. p \in Payload
    BY <2>1
  <2> QED
    BY <2>2, KindType, RequestTypes DEF TypeInv, TypeOK
<1>2. j.video = p.video /\ j.kind = Kind(w)
  BY DEF JobOf
<1>3. /\ ~ Busy(w) /\ pc' = [pc EXCEPT ![w] = "working"]
      /\ cur' = [cur EXCEPT ![w] = p] /\ Jobs' = Append(Jobs, j)
      /\ unfinished' = unfinished
  BY DEF Take, Busy
<1> HIDE DEF p, j
<1>4. ASSUME NEW v \in Videos, NEW k \in Kinds
      PROVE  Cardinality(Entries(Jobs', v, k)) =
               Cardinality(BusyWith(v, k)') + unfinished'[<<v, k>>]
  <2>1. Cardinality(BusyWith(v, k)') =
          Cardinality(BusyWith(v, k)) + IF p.video = v /\ Kind(w) = k THEN 1 ELSE 0
    BY <1>3, OneMoreBusy
  <2>2. Cardinality(Entries(Jobs', v, k)) =
          Cardinality(Entries(Jobs, v, k)) + IF p.video = v /\ Kind(w) = k THEN 1 ELSE 0
    BY <1>1, <1>2, <1>3, EntriesAppend
  <2>3. Cardinality(Entries(Jobs, v, k)) =
          Cardinality(BusyWith(v, k)) + unfinished[<<v, k>>]
    BY DEF JobsMatchWork
  <2>4. Cardinality(BusyWith(v, k)) \in Nat /\ unfinished[<<v, k>>] \in Nat
    BY BusyFinite DEF TypeInv, TypeOK
  <2> QED
    BY <1>3, <2>1, <2>2, <2>3, <2>4
<1> QED
  BY <1>4 DEF JobsMatchWork

LEMMA JobsAbandon ==
  ASSUME TypeInv, JobsMatchWork, NEW w \in Workers, Busy(w), Abandon(w),
         UNCHANGED Jobs
  PROVE  JobsMatchWork'
<1> DEFINE here == <<cur[w].video, Kind(w)>>
<1>1. here \in Videos \X Kinds /\ unfinished \in [Videos \X Kinds -> Nat]
  BY KindType DEF TypeInv, TypeOK, InHand, Payload
<1>2. /\ pc' = [pc EXCEPT ![w] = "ready"] /\ cur' = [cur EXCEPT ![w] = None]
      /\ unfinished' = [unfinished EXCEPT ![here] = @ + 1]
  BY DEF Abandon
<1>3. ASSUME NEW v \in Videos, NEW k \in Kinds
      PROVE  Cardinality(Entries(Jobs', v, k)) =
               Cardinality(BusyWith(v, k)') + unfinished'[<<v, k>>]
  <2>1. Cardinality(BusyWith(v, k)') =
          Cardinality(BusyWith(v, k))
            - IF cur[w].video = v /\ Kind(w) = k THEN 1 ELSE 0
    BY <1>2, OneLessBusy
  <2>2. unfinished'[<<v, k>>] =
          unfinished[<<v, k>>] + IF cur[w].video = v /\ Kind(w) = k THEN 1 ELSE 0
    BY <1>1, <1>2
  <2>3. Cardinality(Entries(Jobs, v, k)) =
          Cardinality(BusyWith(v, k)) + unfinished[<<v, k>>]
    BY DEF JobsMatchWork
  <2>4. Cardinality(BusyWith(v, k)) \in Nat /\ unfinished[<<v, k>>] \in Nat
    BY <1>1, BusyFinite
  <2>5. Jobs' = Jobs
    OBVIOUS
  <2> QED
    BY <2>1, <2>2, <2>3, <2>4, <2>5
<1> QED
  BY <1>3 DEF JobsMatchWork

LEMMA JobsDelete ==
  ASSUME TypeInv, JobsMatchWork, NEW w \in Workers, Delete(w)
  PROVE  JobsMatchWork'
<1>1. /\ Busy(w) /\ pc' = [pc EXCEPT ![w] = "ready"]
      /\ cur' = [cur EXCEPT ![w] = None] /\ unfinished' = unfinished
      /\ Jobs' = DeleteJob(Jobs, cur[w].video, Kind(w)) /\ Jobs \in Seq(Job)
  BY DEF Delete, Busy, TypeInv, TypeOK
<1>2. ASSUME NEW v \in Videos, NEW k \in Kinds
      PROVE  Cardinality(Entries(Jobs', v, k)) =
               Cardinality(BusyWith(v, k)') + unfinished'[<<v, k>>]
  <2>1. Cardinality(Entries(Jobs, v, k)) =
          Cardinality(BusyWith(v, k)) + unfinished[<<v, k>>]
    BY DEF JobsMatchWork
  <2>2. Cardinality(BusyWith(v, k)) \in Nat /\ unfinished[<<v, k>>] \in Nat
    BY BusyFinite DEF TypeInv, TypeOK
  <2>3. Cardinality(BusyWith(v, k)') =
          Cardinality(BusyWith(v, k))
            - IF cur[w].video = v /\ Kind(w) = k THEN 1 ELSE 0
    BY <1>1, OneLessBusy
  <2>4. CASE cur[w].video = v /\ Kind(w) = k
    <3>1. Cardinality(BusyWith(v, k)) > 0
      BY <1>1, <2>4, OneLessBusy
    <3>2. Entries(Jobs, v, k) # {}
      BY <2>1, <2>2, <3>1, FS_EmptySet
    <3>3. Cardinality(Entries(Jobs', v, k)) = Cardinality(Entries(Jobs, v, k)) - 1
      BY <1>1, <2>4, <3>2, EntriesDelete
    <3> QED
      BY <1>1, <2>1, <2>2, <2>3, <2>4, <3>3
  <2>5. CASE ~ (cur[w].video = v /\ Kind(w) = k)
    <3>1. Cardinality(Entries(Jobs', v, k)) = Cardinality(Entries(Jobs, v, k))
      BY <1>1, <2>5, EntriesDelete
    <3> QED
      BY <1>1, <2>1, <2>2, <2>3, <2>5, <3>1
  <2> QED
    BY <2>4, <2>5
<1> QED
  BY <1>2 DEF JobsMatchWork

\* A process that starts or dies has neither jobs nor work.
LEMMA EntriesEmpty == \A v, k : Entries(<< >>, v, k) = {}
<1>1. DOMAIN << >> = {}
  OBVIOUS
<1> QED
  BY <1>1 DEF Entries

LEMMA JobsInit == Init => JobsMatchWork
<1> SUFFICES ASSUME Init, NEW v \in Videos, NEW k \in Kinds
             PROVE  Cardinality(Entries(Jobs, v, k)) =
                      Cardinality(BusyWith(v, k)) + unfinished[<<v, k>>]
  BY DEF JobsMatchWork
<1>1. Entries(Jobs, v, k) = {}
  BY EntriesEmpty DEF Init
<1>2. BusyWith(v, k) = {}
  BY DEF Init, BusyWith, Busy
<1>3. unfinished[<<v, k>>] = 0
  BY DEF Init
<1> QED
  BY <1>1, <1>2, <1>3, FS_EmptySet

LEMMA JobsDie ==
  ASSUME NEW inMemory, Die(inMemory)
  PROVE  JobsMatchWork'
<1>1. ASSUME NEW v \in Videos, NEW k \in Kinds
      PROVE  Cardinality(Entries(Jobs', v, k)) =
               Cardinality(BusyWith(v, k)') + unfinished'[<<v, k>>]
  <2>1. Entries(Jobs', v, k) = {}
    BY EntriesEmpty DEF Die
  <2>2. BusyWith(v, k)' = {}
    BY DEF Die, BusyWith, Busy
  <2>3. unfinished'[<<v, k>>] = 0
    BY DEF Die
  <2> QED
    BY <2>1, <2>2, <2>3, FS_EmptySet
<1> QED
  BY <1>1 DEF JobsMatchWork

LEMMA JobsConsumer ==
  ASSUME TypeInv, JobsMatchWork, NEW w \in Workers, Consumer(w)
  PROVE  JobsMatchWork'
<1>0. pc \in [Workers -> PCs]
  BY DEF TypeInv, TypeOK
<1>1. CASE Setup(w) \/ SetupFails(w) \/ Exit(w)
  <2>1. UNCHANGED <<Jobs, unfinished, cur>>
    BY <1>1 DEF Setup, SetupFails, Exit
  <2>2. \A x \in Workers : Busy(x)' <=> Busy(x)
    BY <1>0, <1>1 DEF Setup, SetupFails, Exit, Busy
  <2> QED
    BY <2>1, <2>2, NobodyMoves
<1>2. CASE Take(w)
  BY <1>2, JobsTake
<1>3. CASE FetchSucceeds(w) \/ UploadDelivers(w) \/ UploadRequeues(w)
  <2>1. pc[w] = "working" /\ Succeed(w) /\ UNCHANGED Jobs
    BY <1>3 DEF FetchSucceeds, UploadDelivers, UploadRequeues
  <2>2. UNCHANGED <<cur, unfinished>>
    BY <2>1 DEF Succeed
  <2>3. \A x \in Workers : Busy(x)' <=> Busy(x)
    BY <1>0, <2>1 DEF Succeed, Busy
  <2> QED
    BY <2>1, <2>2, <2>3, NobodyMoves
<1>4. CASE Fail(w) \/ Interrupted(w)
  <2>1. Busy(w) /\ Abandon(w) /\ UNCHANGED Jobs
    BY <1>4 DEF Fail, Interrupted, Abandon, Busy
  <2> QED
    BY <2>1, JobsAbandon
<1>5. CASE Delete(w)
  BY <1>5, JobsDelete
<1> QED
  BY <1>1, <1>2, <1>3, <1>4, <1>5 DEF Consumer

LEMMA JobsOthers ==
  ASSUME TypeInv, QuietInv, JobsMatchWork,
         \/ ReceiveUpdate \/ StopPolling
         \/ \E d \in UpdateWorkers : UpdateWorker(d)
         \/ \E w \in Workers : Broker(w)
         \/ ConnectionEnds \/ Finalization \/ Interrupt \/ Crash \/ Restart
  PROVE  JobsMatchWork'
<1>1. CASE \/ ReceiveUpdate \/ StopPolling \/ BeginFinalization
           \/ RepublishJob \/ Interrupt \/ ConnectionEnds
           \/ \E d \in UpdateWorkers : UpdateWorker(d)
           \/ \E w \in Workers : Broker(w)
  <2>1. UNCHANGED <<workerVars, unfinished>>
    BY <1>1 DEF ReceiveUpdate, StopPolling, UpdateWorker, TakeCommand,
                DropLink, RefuseLink, AcceptLink, StopListening, Broker,
                Deliver, CloseChannel, LoseChannel, DropInbox,
                BeginFinalization, RepublishJob, Interrupt, ConnectionEnds,
                LoseConnection, RestartBroker
  <2>2. UNCHANGED <<Jobs, unfinished, cur, pc>>
    BY <2>1 DEF workerVars
  <2> QED
    BY <2>2, NobodyMoves DEF Busy
<1>2. CASE EndFinalization \/ FinalizationFails \/ Crash
  BY <1>2, JobsDie DEF EndFinalization, FinalizationFails, Crash
<1>3. CASE Restart
  <2>1. \A w \in Workers : pc[w] = "gone"
    BY <1>3 DEF Restart, QuietInv, QuietWhenNotRunning
  <2>2. UNCHANGED <<Jobs, unfinished, cur>>
    BY <1>3 DEF Restart
  <2>3. \A w \in Workers : ~ Busy(w) /\ ~ Busy(w)'
    BY <1>3, <2>1 DEF Restart, Busy
  <2> QED
    BY <2>2, <2>3, NobodyMoves
<1> QED
  BY <1>1, <1>2, <1>3 DEF Finalization

LEMMA JobsStep ==
  TypeInv /\ QuietInv /\ JobsMatchWork /\ [Next]_vars => JobsMatchWork'
<1> SUFFICES ASSUME TypeInv, QuietInv, JobsMatchWork, [Next]_vars
             PROVE  JobsMatchWork'
  OBVIOUS
<1>1. CASE Next
  <2>1. \/ ReceiveUpdate \/ StopPolling
        \/ \E d \in UpdateWorkers : UpdateWorker(d)
        \/ \E w \in Workers : Consumer(w)
        \/ \E w \in Workers : Broker(w)
        \/ ConnectionEnds \/ Finalization \/ Interrupt \/ Crash \/ Restart
    BY <1>1 DEF Next
  <2> QED
    BY <2>1, JobsConsumer, JobsOthers
<1>2. CASE UNCHANGED vars
  <2>1. UNCHANGED <<Jobs, unfinished, cur, pc>>
    BY <1>2 DEF vars, workerVars
  <2> QED
    BY <2>1, NobodyMoves DEF Busy
<1> QED
  BY <1>1, <1>2

\* Dispatcher.Jobs never drifts from the work: however append and deleteJob of
\* the workers interleave, there is one entry per message in hand and one per
\* job that ended in an error, for every video and kind.
THEOREM DispatcherJobsMatchWork == Spec => []JobsMatchWork
BY TypeInvariant, QuietInvariant, JobsInit, JobsStep, PTL DEF Spec

=============================================================================
