---------------------------- MODULE PromiseProofs ----------------------------
(***************************************************************************)
(* No accepted request vanishes, and Dispatcher implements Delivery, when  *)
(* no two chats ask for the same video: for any number of workers, links,  *)
(* updates and runs and any combination of faults.                         *)
(***************************************************************************)
EXTENDS DispatcherProofs

\* No two chats ask for the same video.
Apart == \A r, s \in Links : r[2] = s[2] => r = s

\* Whatever moves through the queues and the process is an accepted request.
OnlyAccepted ==
    /\ \A k \in Kinds : Requests(queue[k]) \subseteq accepted
    /\ \A w \in Workers : Requests(inbox[w]) \subseteq accepted
    /\ \A w \in Workers : Busy(w) => RequestOf(cur[w]) \in accepted
    /\ Requests(Jobs) \subseteq accepted

\* Something other than a worker about to delete its job keeps the request: a
\* queue, an inbox, a worker that has not finished, a job that ended in an error
\* or, in finalization, a job not republished yet.
Kept(r) ==
    \/ \E k \in Kinds : r \in Requests(queue[k])
    \/ \E w \in Workers : r \in Requests(inbox[w])
    \/ \E w \in Workers : pc[w] = "working" /\ r = RequestOf(cur[w])
    \/ phase = "running" /\ \E k \in Kinds : unfinished[<<r[2], k>>] > 0
    \/ /\ phase = "finalizing"
       /\ \E i \in republished + 1..Len(Jobs) : r = RequestOf(Jobs[i])

Remembered == \A r \in accepted : r \in Answered \cup lost \/ Kept(r)

PromiseInv ==
    TypeInv /\ QuietInv /\ JobsMatchWork /\ OnlyAccepted /\ Remembered

-----------------------------------------------------------------------------
(* The request a payload or a job stands for survives every conversion.    *)

LEMMA SameRequest ==
  /\ \A r \in Links : RequestOf([video |-> r[2], chat |-> r[1], format |-> FALSE]) = r
  /\ \A p \in Payload, k \in Kinds : RequestOf(JobOf(k, p)) = RequestOf(p)
  /\ \A j \in Job : RequestOf(PayloadOf(j)) = RequestOf(j)
  /\ \A p \in Payload, b \in BOOLEAN :
       RequestOf([p EXCEPT !.format = b]) = RequestOf(p)
<1>1. ASSUME NEW r \in Links
      PROVE  RequestOf([video |-> r[2], chat |-> r[1], format |-> FALSE]) = r
  <2>1. r \in Chats \X Videos
    BY RequestTypes DEF Request
  <2>2. r = <<r[1], r[2]>>
    BY <2>1
  <2> QED
    BY <2>2 DEF RequestOf
<1>2. \A p \in Payload, k \in Kinds : RequestOf(JobOf(k, p)) = RequestOf(p)
  BY DEF RequestOf, JobOf
<1>3. \A j \in Job : RequestOf(PayloadOf(j)) = RequestOf(j)
  BY DEF RequestOf, PayloadOf
<1>4. \A p \in Payload, b \in BOOLEAN :
        RequestOf([p EXCEPT !.format = b]) = RequestOf(p)
  BY DEF RequestOf, Payload
<1> QED
  BY <1>1, <1>2, <1>3, <1>4

\* A published message is in its queue or lost.
LEMMA PublishKeeps ==
  ASSUME TypeInv, NEW kind \in Kinds, NEW p \in Payload, Publish(kind, p)
  PROVE  /\ \A k \in Kinds : Requests(queue[k]) \subseteq Requests(queue'[k])
         /\ \A k \in Kinds :
              Requests(queue'[k]) \subseteq Requests(queue[k]) \cup {RequestOf(p)}
         /\ \/ lost' = lost /\ RequestOf(p) \in Requests(queue'[kind])
            \/ lost' = lost \cup {RequestOf(p)} /\ queue' = queue
<1>1. queue \in [Kinds -> Seq(Payload)]
  BY DEF TypeInv, TypeOK
<1>2. CASE queue' = [queue EXCEPT ![kind] = Append(@, p)] /\ lost' = lost
  <2>1. queue'[kind] = Append(queue[kind], p)
    BY <1>1, <1>2
  <2>2. queue[kind] \in Seq(Payload)
    BY <1>1
  <2>3. Requests(queue'[kind]) = Requests(queue[kind]) \cup {RequestOf(p)}
    BY <2>1, <2>2, RequestsAppend
  <2>4. \A k \in Kinds : k # kind => queue'[k] = queue[k]
    BY <1>1, <1>2
  <2>5. RequestOf(p) \in Requests(queue'[kind])
    BY <2>3
  <2>6. \A k \in Kinds : Requests(queue[k]) \subseteq Requests(queue'[k])
    BY <2>3, <2>4
  <2>7. \A k \in Kinds :
          Requests(queue'[k]) \subseteq Requests(queue[k]) \cup {RequestOf(p)}
    BY <2>3, <2>4
  <2> QED
    BY <1>2, <2>5, <2>6, <2>7
<1>3. CASE lost' = lost \cup {RequestOf(p)} /\ queue' = queue
  BY <1>3
<1> QED
  BY <1>2, <1>3 DEF Publish

\* The job of a worker with a message in hand, or of one that ended in an
\* error, is in the list, under the request it is for.
LEMMA Listed ==
  ASSUME Apart, TypeInv, JobsMatchWork, OnlyAccepted,
         NEW r \in Links, NEW k \in Kinds,
         \/ unfinished[<<r[2], k>>] > 0
         \/ BusyWith(r[2], k) # {}
  PROVE  r \in Requests(Jobs)
<1>1. r[2] \in Videos
  BY RequestTypes DEF Request
<1>2. Cardinality(Entries(Jobs, r[2], k)) =
        Cardinality(BusyWith(r[2], k)) + unfinished[<<r[2], k>>]
  BY <1>1 DEF JobsMatchWork
<1>3. /\ IsFiniteSet(BusyWith(r[2], k)) /\ Cardinality(BusyWith(r[2], k)) \in Nat
      /\ unfinished[<<r[2], k>>] \in Nat
  BY <1>1, BusyFinite DEF TypeInv, TypeOK
<1>4. BusyWith(r[2], k) # {} => Cardinality(BusyWith(r[2], k)) # 0
  BY <1>3, FS_EmptySet
<1>5. Cardinality(Entries(Jobs, r[2], k)) # 0
  BY <1>2, <1>3, <1>4
<1>6. Entries(Jobs, r[2], k) # {}
  BY <1>5, FS_EmptySet
<1>7. PICK i \in DOMAIN Jobs : Jobs[i].video = r[2]
  BY <1>6 DEF Entries
<1>8. RequestOf(Jobs[i]) \in Requests(Jobs)
  BY DEF Requests
<1>9. RequestOf(Jobs[i]) \in Links
  BY <1>8 DEF OnlyAccepted, TypeInv, TypeOK
<1>10. RequestOf(Jobs[i])[2] = r[2]
  BY <1>7 DEF RequestOf
<1>11. RequestOf(Jobs[i]) = r
  BY <1>9, <1>10 DEF Apart
<1> QED
  BY <1>8, <1>11

LEMMA BusyListed ==
  ASSUME Apart, TypeInv, JobsMatchWork, OnlyAccepted, NEW w \in Workers, Busy(w)
  PROVE  RequestOf(cur[w]) \in Requests(Jobs)
<1>1. RequestOf(cur[w]) \in Links
  BY DEF OnlyAccepted, TypeInv, TypeOK
<1>2. RequestOf(cur[w])[2] = cur[w].video
  BY DEF RequestOf
<1>3. w \in BusyWith(cur[w].video, Kind(w))
  BY DEF BusyWith
<1>4. Kind(w) \in Kinds
  BY KindType
<1> QED
  BY <1>1, <1>2, <1>3, <1>4, Listed

-----------------------------------------------------------------------------
(* Only accepted requests are on their way.                                *)

LEMMA OnlyInit == Init => OnlyAccepted
<1> SUFFICES ASSUME Init PROVE OnlyAccepted
  OBVIOUS
<1>1. /\ \A k \in Kinds : queue[k] = << >>
      /\ \A w \in Workers : inbox[w] = << >> /\ ~ Busy(w)
      /\ Jobs = << >>
  BY DEF Init, Busy
<1> QED
  BY <1>1, RequestsEmpty DEF OnlyAccepted

LEMMA OnlyUpdates ==
  ASSUME TypeInv, OnlyAccepted,
         \/ ReceiveUpdate \/ StopPolling
         \/ \E d \in UpdateWorkers : UpdateWorker(d)
  PROVE  OnlyAccepted'
<1>1. ASSUME NEW d \in UpdateWorkers, AcceptLink(d) PROVE OnlyAccepted'
  <2> DEFINE r == Head(updates)
             p == [video |-> r[2], chat |-> r[1], format |-> FALSE]
  <2>1. /\ r \in Links /\ p \in Payload /\ Publish("fetching", p)
        /\ accepted' = accepted \cup {r}
        /\ UNCHANGED <<inbox, pc, cur, Jobs>>
    BY <1>1, RequestTypes DEF AcceptLink, workerVars
  <2>2. RequestOf(p) = r /\ "fetching" \in Kinds
    BY <2>1, SameRequest DEF Kinds
  <2> HIDE DEF p, r
  <2>3. \A k \in Kinds : Requests(queue'[k]) \subseteq Requests(queue[k]) \cup {r}
    BY <2>1, <2>2, PublishKeeps
  <2> QED
    BY <2>1, <2>3 DEF OnlyAccepted, Busy
<1>2. CASE \/ ReceiveUpdate \/ StopPolling
           \/ \E d \in UpdateWorkers : \/ TakeCommand(d) \/ DropLink(d)
                                      \/ RefuseLink(d) \/ StopListening(d)
  <2>1. UNCHANGED <<queue, inbox, pc, cur, Jobs, accepted>>
    BY <1>2 DEF ReceiveUpdate, StopPolling, TakeCommand, DropLink, RefuseLink,
                StopListening, brokerVars, workerVars, answerVars
  <2> QED
    BY <2>1 DEF OnlyAccepted, Busy
<1> QED
  BY <1>1, <1>2 DEF UpdateWorker

LEMMA OnlyConsumer ==
  ASSUME TypeInv, OnlyAccepted, NEW w \in Workers, Consumer(w)
  PROVE  OnlyAccepted'
<1>0. /\ pc \in [Workers -> PCs] /\ cur \in [Workers -> Payload \cup {None}]
      /\ inbox \in [Workers -> Seq(Payload)] /\ queue \in [Kinds -> Seq(Payload)]
      /\ Jobs \in Seq(Job) /\ Kind(w) \in Kinds
      /\ pc[w] = "working" => cur[w] \in Payload /\ Busy(w)
  BY KindType DEF TypeInv, TypeOK, InHand, Busy
<1>1. CASE Setup(w) \/ SetupFails(w) \/ Exit(w)
  <2>1. UNCHANGED <<queue, inbox, cur, Jobs, accepted>>
    BY <1>1 DEF Setup, SetupFails, Exit, brokerVars, answerVars
  <2>2. \A x \in Workers : Busy(x)' <=> Busy(x)
    BY <1>0, <1>1 DEF Setup, SetupFails, Exit, Busy
  <2> QED
    BY <2>1, <2>2 DEF OnlyAccepted
<1>2. CASE Take(w)
  <2> DEFINE p == Head(inbox[w])
             j == JobOf(Kind(w), p)
  <2>1. inbox[w] \in Seq(Payload) /\ inbox[w] # << >>
    BY <1>0, <1>2 DEF Take
  <2>2. /\ p \in Payload
        /\ Requests(inbox[w]) = Requests(Tail(inbox[w])) \cup {RequestOf(p)}
    BY <2>1, RequestsTail
  <2>3. j \in Job /\ RequestOf(j) = RequestOf(p)
    BY <1>0, <2>2, RequestTypes, SameRequest
  <2>4. /\ Jobs' = Append(Jobs, j) /\ cur' = [cur EXCEPT ![w] = p]
        /\ inbox' = [inbox EXCEPT ![w] = Tail(@)]
        /\ pc' = [pc EXCEPT ![w] = "working"]
        /\ UNCHANGED <<queue, accepted>>
    BY <1>2 DEF Take, answerVars
  <2> HIDE DEF p, j
  <2>5. RequestOf(p) \in accepted
    BY <2>2 DEF OnlyAccepted
  <2>6. Requests(Jobs') \subseteq accepted
    BY <1>0, <2>3, <2>4, <2>5, RequestsAppend DEF OnlyAccepted
  <2>7. \A x \in Workers : Requests(inbox'[x]) \subseteq accepted
    BY <1>0, <2>2, <2>4 DEF OnlyAccepted
  <2>8. \A x \in Workers : Busy(x)' => RequestOf(cur'[x]) \in accepted
    BY <1>0, <2>4, <2>5 DEF OnlyAccepted, Busy
  <2> QED
    BY <2>4, <2>6, <2>7, <2>8 DEF OnlyAccepted
<1>3. ASSUME pc[w] = "working", Succeed(w), UNCHANGED <<inbox, Jobs, accepted>>,
             \A k \in Kinds :
               Requests(queue'[k]) \subseteq Requests(queue[k]) \cup {RequestOf(cur[w])}
      PROVE  OnlyAccepted'
  <2>1. \A x \in Workers : Busy(x)' <=> Busy(x)
    BY <1>0, <1>3 DEF Succeed, Busy
  <2>2. RequestOf(cur[w]) \in accepted
    BY <1>0, <1>3 DEF OnlyAccepted
  <2> QED
    BY <1>3, <2>1, <2>2 DEF OnlyAccepted, Succeed
<1>4. CASE FetchSucceeds(w)
  <2> DEFINE p == [cur[w] EXCEPT !.format = TRUE]
  <2>1. /\ pc[w] = "working" /\ Succeed(w) /\ Publish("uploading", p)
        /\ UNCHANGED <<inbox, Jobs, accepted>>
    BY <1>4 DEF FetchSucceeds, answerVars
  <2>2. p \in Payload /\ RequestOf(p) = RequestOf(cur[w]) /\ "uploading" \in Kinds
    BY <1>0, <2>1, RequestTypes, SameRequest DEF Kinds
  <2> HIDE DEF p
  <2>3. \A k \in Kinds :
          Requests(queue'[k]) \subseteq Requests(queue[k]) \cup {RequestOf(cur[w])}
    BY <2>1, <2>2, PublishKeeps
  <2> QED
    BY <1>3, <2>1, <2>3
<1>5. CASE UploadDelivers(w)
  BY <1>3, <1>5 DEF UploadDelivers
<1>6. CASE UploadRequeues(w)
  <2> DEFINE p == [cur[w] EXCEPT !.format = FALSE]
  <2>1. /\ pc[w] = "working" /\ Succeed(w) /\ UNCHANGED <<inbox, Jobs, accepted>>
        /\ queue' = [queue EXCEPT !["fetching"] = Append(@, p)]
    BY <1>6 DEF UploadRequeues, answerVars
  <2>2. p \in Payload /\ RequestOf(p) = RequestOf(cur[w]) /\ "fetching" \in Kinds
    BY <1>0, <2>1, RequestTypes, SameRequest DEF Kinds
  <2> HIDE DEF p
  <2>3. queue["fetching"] \in Seq(Payload)
    BY <1>0, <2>2
  <2>4. Requests(Append(queue["fetching"], p)) =
          Requests(queue["fetching"]) \cup {RequestOf(p)}
    BY <2>2, <2>3, RequestsAppend
  <2>5. \A k \in Kinds :
          Requests(queue'[k]) \subseteq Requests(queue[k]) \cup {RequestOf(cur[w])}
    BY <1>0, <2>1, <2>2, <2>4
  <2> QED
    BY <1>3, <2>1, <2>5
<1>7. CASE Fail(w) \/ Interrupted(w)
  <2>1. Abandon(w) /\ UNCHANGED accepted
    BY <1>7 DEF Fail, Interrupted
  <2>2. /\ UNCHANGED <<queue, inbox, Jobs>>
        /\ \A x \in Workers : Busy(x)' => Busy(x) /\ cur'[x] = cur[x]
    BY <1>0, <2>1 DEF Abandon, Busy
  <2> QED
    BY <2>1, <2>2 DEF OnlyAccepted
<1>8. CASE Delete(w)
  <2>1. /\ Jobs' = DeleteJob(Jobs, cur[w].video, Kind(w))
        /\ UNCHANGED <<queue, inbox, accepted>>
        /\ \A x \in Workers : Busy(x)' => Busy(x) /\ cur'[x] = cur[x]
    BY <1>0, <1>8 DEF Delete, Busy, brokerVars, answerVars
  <2>2. Requests(Jobs') \subseteq Requests(Jobs)
    BY <1>0, <2>1, RequestsDelete
  <2> QED
    BY <2>1, <2>2 DEF OnlyAccepted
<1> QED
  BY <1>1, <1>2, <1>4, <1>5, <1>6, <1>7, <1>8 DEF Consumer

\* A pushed message leaves its queue for the inbox.
LEMMA DeliverMoves ==
  ASSUME TypeInv, NEW w \in Workers, Deliver(w)
  PROVE  /\ \A k \in Kinds :
              /\ Requests(queue'[k]) \subseteq Requests(queue[k])
              /\ Requests(queue[k]) \subseteq Requests(queue'[k]) \cup Requests(inbox'[w])
         /\ \A x \in Workers : Requests(inbox[x]) \subseteq Requests(inbox'[x])
         /\ \A x \in Workers :
              Requests(inbox'[x]) \subseteq Requests(inbox[x]) \cup Requests(queue[Kind(w)])
         /\ UNCHANGED <<workerVars, processVars, answerVars, lost, unfinished>>
<1> DEFINE k == Kind(w)
           p == Head(queue[k])
<1>0. /\ inbox \in [Workers -> Seq(Payload)] /\ queue \in [Kinds -> Seq(Payload)]
      /\ k \in Kinds
  BY KindType DEF TypeInv, TypeOK
<1>1. /\ queue[k] \in Seq(Payload) /\ queue[k] # << >> /\ inbox[w] \in Seq(Payload)
      /\ inbox' = [inbox EXCEPT ![w] = Append(@, p)]
      /\ queue' = [queue EXCEPT ![k] = Tail(@)]
      /\ UNCHANGED <<workerVars, processVars, answerVars, lost, unfinished>>
  BY <1>0 DEF Deliver
<1>2. p \in Payload /\ Requests(queue[k]) = Requests(Tail(queue[k])) \cup {RequestOf(p)}
  BY <1>1, RequestsTail
<1> HIDE DEF p
<1>3. Requests(Append(inbox[w], p)) = Requests(inbox[w]) \cup {RequestOf(p)}
  BY <1>1, <1>2, RequestsAppend
<1> HIDE DEF k
<1>4. /\ queue'[k] = Tail(queue[k]) /\ \A l \in Kinds : l # k => queue'[l] = queue[l]
      /\ inbox'[w] = Append(inbox[w], p)
      /\ \A x \in Workers : x # w => inbox'[x] = inbox[x]
  BY <1>0, <1>1
<1>5. \A l \in Kinds :
        /\ Requests(queue'[l]) \subseteq Requests(queue[l])
        /\ Requests(queue[l]) \subseteq Requests(queue'[l]) \cup Requests(inbox'[w])
  BY <1>2, <1>3, <1>4
<1>6. \A x \in Workers : Requests(inbox[x]) \subseteq Requests(inbox'[x])
  BY <1>3, <1>4
<1>7. \A x \in Workers :
        Requests(inbox'[x]) \subseteq Requests(inbox[x]) \cup Requests(queue[k])
  BY <1>2, <1>3, <1>4
<1> QED
  BY <1>1, <1>5, <1>6, <1>7 DEF k

\* What a connection takes along when it ends is lost.
LEMMA ConnectionDrops ==
  ASSUME TypeInv, ConnectionEnds
  PROVE  \E rs :
           /\ rs \subseteq Queued
           /\ lost' = lost \cup rs
           /\ \A k \in Kinds :
                /\ Requests(queue'[k]) \subseteq Requests(queue[k])
                /\ Requests(queue[k]) \subseteq Requests(queue'[k]) \cup rs
           /\ UNCHANGED <<inbox, workerVars, phase, republished, accepted,
                          delivered, apologised, unfinished>>
<1>0. queue \in [Kinds -> Seq(Payload)]
  BY DEF TypeInv, TypeOK
<1>1. UNCHANGED <<inbox, workerVars, phase, republished, accepted, delivered,
                  apologised, unfinished>>
  BY DEF ConnectionEnds, LoseConnection, RestartBroker, answerVars
<1>2. CASE RestartBroker
  <2>1. /\ lost' = lost \cup Queued /\ \A k \in Kinds : queue'[k] = << >>
    BY <1>2 DEF RestartBroker
  <2>2. \A k \in Kinds : Requests(queue[k]) \subseteq Queued
    BY DEF Queued
  <2>3. \A k \in Kinds :
          /\ Requests(queue'[k]) \subseteq Requests(queue[k])
          /\ Requests(queue[k]) \subseteq Requests(queue'[k]) \cup Queued
    BY <2>1, <2>2, RequestsEmpty
  <2>4. Queued \subseteq Queued
    OBVIOUS
  <2>5. lost' = lost \cup Queued
    BY <2>1
  <2> DEFINE rs == Queued
  <2> HIDE DEF rs
  <2>6. /\ rs \subseteq Queued /\ lost' = lost \cup rs
        /\ \A k \in Kinds :
             /\ Requests(queue'[k]) \subseteq Requests(queue[k])
             /\ Requests(queue[k]) \subseteq Requests(queue'[k]) \cup rs
    BY <2>3, <2>4, <2>5 DEF rs
  <2> QED
    BY <1>1, <2>6
<1>3. CASE UNCHANGED <<queue, lost>>
  <2> DEFINE rs == {}
  <2>1. rs \subseteq Queued /\ lost' = lost \cup rs
    BY <1>3
  <2>2. queue' = queue
    BY <1>3
  <2> HIDE DEF rs
  <2> QED
    BY <1>1, <2>1, <2>2
<1>4. ASSUME NEW l \in Kinds, queue[l] # << >>,
             queue' = [queue EXCEPT ![l] = Front(@)],
             lost' = lost \cup {RequestOf(Last(queue[l]))}
      PROVE  \E rs :
               /\ rs \subseteq Queued
               /\ lost' = lost \cup rs
               /\ \A k \in Kinds :
                    /\ Requests(queue'[k]) \subseteq Requests(queue[k])
                    /\ Requests(queue[k]) \subseteq Requests(queue'[k]) \cup rs
  <2>1. queue[l] \in Seq(Payload)
    BY <1>0
  <2> DEFINE r == RequestOf(Last(queue[l]))
  <2>2. Requests(queue[l]) = Requests(Front(queue[l])) \cup {r}
    BY <1>4, <2>1, RequestsFront
  <2> HIDE DEF r
  <2>3. /\ queue'[l] = Front(queue[l])
        /\ \A k \in Kinds : k # l => queue'[k] = queue[k]
    BY <1>0, <1>4
  <2>4. {r} \subseteq Queued
    BY <2>2 DEF Queued
  <2>5. \A k \in Kinds :
          /\ Requests(queue'[k]) \subseteq Requests(queue[k])
          /\ Requests(queue[k]) \subseteq Requests(queue'[k]) \cup {r}
    BY <2>2, <2>3
  <2>6. lost' = lost \cup {r}
    BY <1>4 DEF r
  <2> QED
    BY <2>4, <2>5, <2>6
<1>5. CASE LoseConnection
  BY <1>1, <1>3, <1>4, <1>5 DEF LoseConnection
<1> QED
  BY <1>2, <1>5 DEF ConnectionEnds

\* Finalization puts a job back into its queue, or loses it.
LEMMA RepublishKeeps ==
  ASSUME TypeInv, RepublishJob
  PROVE  LET j == Jobs[republished + 1] IN
         /\ j \in Job /\ republished + 1 \in 1..Len(Jobs)
         /\ phase = "finalizing" /\ republished' = republished + 1
         /\ UNCHANGED <<inbox, workerVars, phase, accepted, delivered,
                        apologised, unfinished>>
         /\ \A k \in Kinds : Requests(queue[k]) \subseteq Requests(queue'[k])
         /\ \A k \in Kinds :
              Requests(queue'[k]) \subseteq Requests(queue[k]) \cup {RequestOf(j)}
         /\ \/ /\ lost' = lost
               /\ \E k \in Kinds : RequestOf(j) \in Requests(queue'[k])
            \/ lost' = lost \cup {RequestOf(j)} /\ queue' = queue
<1> DEFINE j == Jobs[republished + 1]
<1>1. /\ republished + 1 \in 1..Len(Jobs) /\ phase = "finalizing"
      /\ republished' = republished + 1
      /\ UNCHANGED <<inbox, workerVars, phase, accepted, delivered, apologised,
                     unfinished>>
  BY DEF RepublishJob, TypeInv, TypeOK, answerVars
<1>2. j \in Job
  BY <1>1 DEF TypeInv, TypeOK
<1>3. \/ Publish(j.kind, PayloadOf(j))
      \/ lost' = lost \cup {RequestOf(j)} /\ queue' = queue
  BY DEF RepublishJob
<1>4. /\ j.kind \in Kinds /\ PayloadOf(j) \in Payload
      /\ RequestOf(PayloadOf(j)) = RequestOf(j)
  BY <1>2, RequestTypes, SameRequest DEF Job
<1> HIDE DEF j
<1>5. /\ \A k \in Kinds : Requests(queue[k]) \subseteq Requests(queue'[k])
      /\ \A k \in Kinds :
           Requests(queue'[k]) \subseteq Requests(queue[k]) \cup {RequestOf(j)}
      /\ \/ /\ lost' = lost
            /\ \E k \in Kinds : RequestOf(j) \in Requests(queue'[k])
         \/ lost' = lost \cup {RequestOf(j)} /\ queue' = queue
  <2>1. CASE Publish(j.kind, PayloadOf(j))
    <3> DEFINE kind == j.kind
               p == PayloadOf(j)
    <3>1. kind \in Kinds /\ p \in Payload /\ Publish(kind, p)
      BY <1>4, <2>1
    <3>2. RequestOf(p) = RequestOf(j)
      BY <1>4
    <3> HIDE DEF kind, p
    <3> QED
      BY <3>1, <3>2, PublishKeeps
  <2>2. CASE lost' = lost \cup {RequestOf(j)} /\ queue' = queue
    BY <2>2
  <2> QED
    BY <1>3, <2>1, <2>2
<1> QED
  BY <1>1, <1>2, <1>5 DEF j

LEMMA OnlyOthers ==
  ASSUME TypeInv, QuietInv, OnlyAccepted,
         \/ \E w \in Workers : Broker(w)
         \/ ConnectionEnds \/ Finalization \/ Interrupt \/ Crash \/ Restart
  PROVE  OnlyAccepted'
<1>1. ASSUME NEW w \in Workers, Deliver(w) PROVE OnlyAccepted'
  <2>1. Kind(w) \in Kinds
    BY KindType
  <2>2. UNCHANGED <<pc, cur, Jobs, accepted>>
    BY <1>1 DEF Deliver, workerVars, answerVars
  <2> QED
    BY <1>1, <2>1, <2>2, DeliverMoves DEF OnlyAccepted, Busy
<1>2. ASSUME NEW w \in Workers, CloseChannel(w) \/ LoseChannel(w)
      PROVE  OnlyAccepted'
  BY <1>2 DEF CloseChannel, LoseChannel, workerVars, answerVars, OnlyAccepted, Busy
<1>3. ASSUME NEW w \in Workers, DropInbox(w) PROVE OnlyAccepted'
  <2>1. inbox \in [Workers -> Seq(Payload)]
    BY DEF TypeInv, TypeOK
  <2>2. /\ \A x \in Workers : inbox'[x] = inbox[x] \/ inbox'[x] = << >>
        /\ UNCHANGED <<queue, pc, cur, Jobs, accepted>>
    BY <1>3, <2>1 DEF DropInbox, workerVars, answerVars
  <2> QED
    BY <2>2, RequestsEmpty DEF OnlyAccepted, Busy
<1>4. CASE ConnectionEnds
  BY <1>4, ConnectionDrops DEF OnlyAccepted, Busy, workerVars
<1>5. CASE RepublishJob
  <2> DEFINE j == Jobs[republished + 1]
  <2>1. /\ republished + 1 \in 1..Len(Jobs)
        /\ UNCHANGED <<inbox, pc, cur, Jobs, accepted>>
        /\ \A k \in Kinds :
             Requests(queue'[k]) \subseteq Requests(queue[k]) \cup {RequestOf(j)}
    BY <1>5, RepublishKeeps DEF workerVars
  <2>2. RequestOf(j) \in Requests(Jobs)
    <3>1. Jobs \in Seq(Job)
      BY DEF TypeInv, TypeOK
    <3> QED
      BY <2>1, <3>1, RequestsIndex
  <2> HIDE DEF j
  <2> QED
    BY <2>1, <2>2 DEF OnlyAccepted, Busy
<1>6. CASE EndFinalization \/ FinalizationFails \/ Crash
  <2>1. /\ \A w \in Workers : inbox'[w] = << >> /\ ~ Busy(w)'
        /\ Jobs' = << >> /\ UNCHANGED <<queue, accepted>>
    BY <1>6 DEF EndFinalization, FinalizationFails, Crash, Die, Busy
  <2> QED
    BY <2>1, RequestsEmpty DEF OnlyAccepted
<1>7. CASE BeginFinalization \/ Interrupt
  <2>1. UNCHANGED <<queue, inbox, pc, cur, Jobs, accepted>>
    BY <1>7 DEF BeginFinalization, Interrupt, brokerVars, workerVars, answerVars
  <2> QED
    BY <2>1 DEF OnlyAccepted, Busy
<1>8. CASE Restart
  <2>1. /\ UNCHANGED <<queue, inbox, Jobs, accepted>>
        /\ \A w \in Workers : ~ Busy(w)'
    BY <1>8 DEF Restart, brokerVars, answerVars, Busy
  <2> QED
    BY <2>1 DEF OnlyAccepted
<1> QED
  BY <1>1, <1>2, <1>3, <1>4, <1>5, <1>6, <1>7, <1>8 DEF Broker, Finalization

LEMMA OnlyStep ==
  TypeInv /\ QuietInv /\ OnlyAccepted /\ [Next]_vars => OnlyAccepted'
<1> SUFFICES ASSUME TypeInv, QuietInv, OnlyAccepted, [Next]_vars
             PROVE  OnlyAccepted'
  OBVIOUS
<1>1. CASE Next
  <2>1. \/ ReceiveUpdate \/ StopPolling
        \/ \E d \in UpdateWorkers : UpdateWorker(d)
        \/ \E w \in Workers : Consumer(w)
        \/ \E w \in Workers : Broker(w)
        \/ ConnectionEnds \/ Finalization \/ Interrupt \/ Crash \/ Restart
    BY <1>1 DEF Next
  <2> QED
    BY <2>1, OnlyUpdates, OnlyConsumer, OnlyOthers
<1>2. CASE UNCHANGED vars
  BY <1>2 DEF vars, brokerVars, workerVars, answerVars, OnlyAccepted, Busy
<1> QED
  BY <1>1, <1>2

-----------------------------------------------------------------------------
(* No accepted request is forgotten.                                       *)

LEMMA RememberedInit == Init => Remembered
BY DEF Init, Remembered

LEMMA RememberedUpdates ==
  ASSUME TypeInv, Remembered,
         \/ ReceiveUpdate \/ StopPolling
         \/ \E d \in UpdateWorkers : UpdateWorker(d)
  PROVE  Remembered'
<1>1. ASSUME NEW d \in UpdateWorkers, AcceptLink(d) PROVE Remembered'
  <2>0. PICK r : r = Head(updates)
    OBVIOUS
  <2> DEFINE p == [video |-> r[2], chat |-> r[1], format |-> FALSE]
  <2>1. /\ r \in Links /\ p \in Payload /\ Publish("fetching", p)
        /\ accepted' = accepted \cup {r}
        /\ UNCHANGED <<inbox, pc, cur, Jobs, phase, republished, unfinished,
                       delivered, apologised>>
    BY <1>1, <2>0, RequestTypes DEF AcceptLink, workerVars, processVars
  <2>2. RequestOf(p) = r /\ "fetching" \in Kinds
    BY <2>1, SameRequest DEF Kinds
  <2> HIDE DEF p
  <2>3. /\ \A k \in Kinds : Requests(queue[k]) \subseteq Requests(queue'[k])
        /\ lost \subseteq lost'
        /\ r \in lost' \/ \E k \in Kinds : r \in Requests(queue'[k])
    BY <2>1, <2>2, PublishKeeps
  <2>4. \A s : Kept(s) => Kept(s)'
    BY <2>1, <2>3 DEF Kept
  <2>5. r \in lost' \/ Kept(r)'
    BY <2>3 DEF Kept
  <2>6. \A s \in accepted : s \in (Answered \cup lost)' \/ Kept(s)'
    BY <2>1, <2>3, <2>4 DEF Remembered, Answered
  <2>7. \A s \in accepted' : s \in accepted \/ s = r
    BY <2>1
  <2> QED
    BY <2>5, <2>6, <2>7 DEF Remembered
<1>2. CASE \/ ReceiveUpdate \/ StopPolling
           \/ \E d \in UpdateWorkers : \/ TakeCommand(d) \/ DropLink(d)
                                      \/ RefuseLink(d) \/ StopListening(d)
  <2>1. /\ UNCHANGED <<queue, inbox, pc, cur, Jobs, phase, republished,
                       unfinished, accepted, delivered, lost>>
        /\ apologised \subseteq apologised'
    BY <1>2 DEF ReceiveUpdate, StopPolling, TakeCommand, DropLink, RefuseLink,
                Apologise, StopListening, brokerVars, workerVars, processVars,
                answerVars
  <2>2. \A s : Kept(s) => Kept(s)'
    BY <2>1 DEF Kept
  <2> QED
    BY <2>1, <2>2 DEF Remembered, Answered
<1> QED
  BY <1>1, <1>2 DEF UpdateWorker

\* The worker that handles a request settles it, or puts it where it is kept.
LEMMA WorkerKeeps ==
  ASSUME NEW w \in Workers, QuietInv, Consumer(w), pc \in [Workers -> PCs],
         Remembered, UNCHANGED <<inbox, accepted>>,
         delivered \subseteq delivered', apologised \subseteq apologised',
         lost \subseteq lost',
         \A k \in Kinds : Requests(queue[k]) \subseteq Requests(queue'[k]),
         \A x \in Workers \ {w} : pc'[x] = pc[x] /\ cur'[x] = cur[x],
         \A x \in Videos \X Kinds : unfinished[x] > 0 => unfinished'[x] > 0,
         accepted \subseteq Links, NEW req, req = RequestOf(cur[w]),
         pc[w] = "working" => req \in (Answered \cup lost)' \/ Kept(req)'
  PROVE  Remembered'
<1>1. phase = "running" /\ phase' = "running"
  BY ConsumerRuns
<1>2. ASSUME NEW r \in accepted, Kept(r)
      PROVE  r \in (Answered \cup lost)' \/ Kept(r)'
  <2>0. \A x \in Workers \ {w} :
          pc[x] = "working" => pc'[x] = "working" /\ cur'[x] = cur[x]
    OBVIOUS
  <2>1. CASE \E k \in Kinds : r \in Requests(queue[k])
    BY <2>1 DEF Kept
  <2>2. CASE \E x \in Workers : r \in Requests(inbox[x])
    BY <2>2 DEF Kept
  <2>3. CASE \E x \in Workers : pc[x] = "working" /\ r = RequestOf(cur[x])
    <3>1. PICK x \in Workers : pc[x] = "working" /\ r = RequestOf(cur[x])
      BY <2>3
    <3>2. CASE x = w
      BY <3>1, <3>2
    <3>3. CASE x # w
      <4>1. pc'[x] = "working" /\ r = RequestOf(cur'[x])
        BY <2>0, <3>1, <3>3
      <4> QED
        BY <4>1 DEF Kept
    <3> QED
      BY <3>2, <3>3
  <2>4. CASE \E k \in Kinds : unfinished[<<r[2], k>>] > 0
    <3>1. r[2] \in Videos
      BY RequestTypes DEF Request
    <3> QED
      BY <1>1, <2>4, <3>1 DEF Kept
  <2> QED
    BY <1>1, <1>2, <2>1, <2>2, <2>3, <2>4 DEF Kept
<1> QED
  BY <1>2 DEF Remembered, Answered

LEMMA RememberedConsumer ==
  ASSUME TypeInv, QuietInv, Remembered, NEW w \in Workers, Consumer(w)
  PROVE  Remembered'
<1>0. /\ pc \in [Workers -> PCs] /\ cur \in [Workers -> Payload \cup {None}]
      /\ inbox \in [Workers -> Seq(Payload)] /\ queue \in [Kinds -> Seq(Payload)]
      /\ Kind(w) \in Kinds /\ accepted \subseteq Links
      /\ pc[w] = "working" => cur[w] \in Payload
      /\ unfinished \in [Videos \X Kinds -> Nat]
  BY KindType DEF TypeInv, TypeOK, InHand, Busy
<1>r. PICK req : req = RequestOf(cur[w])
  OBVIOUS
<1>1. CASE Setup(w) \/ SetupFails(w) \/ Exit(w) \/ Delete(w)
  <2>1. /\ UNCHANGED <<queue, inbox, accepted, delivered, apologised, lost,
                       unfinished>>
        /\ pc[w] # "working"
        /\ \A x \in Workers \ {w} : pc'[x] = pc[x] /\ cur'[x] = cur[x]
    BY <1>0, <1>1 DEF Setup, SetupFails, Exit, Delete, brokerVars, answerVars
  <2> QED
    BY <1>0, <1>r, <2>1, WorkerKeeps
<1>2. CASE Take(w)
  <2> DEFINE p == Head(inbox[w])
  <2>1. inbox[w] \in Seq(Payload) /\ inbox[w] # << >>
    BY <1>0, <1>2 DEF Take
  <2>2. Requests(inbox[w]) = Requests(Tail(inbox[w])) \cup {RequestOf(p)}
    BY <2>1, RequestsTail
  <2>3. /\ cur' = [cur EXCEPT ![w] = p] /\ inbox' = [inbox EXCEPT ![w] = Tail(@)]
        /\ pc' = [pc EXCEPT ![w] = "working"] /\ pc[w] = "ready"
        /\ UNCHANGED <<queue, phase, unfinished, accepted, delivered,
                       apologised, lost>>
    BY <1>2 DEF Take, answerVars, processVars
  <2>4. phase = "running"
    BY ConsumerRuns
  <2> HIDE DEF p
  <2>5. \A x \in Workers :
          /\ pc[x] = "working" => pc'[x] = "working" /\ cur'[x] = cur[x]
          /\ x # w => inbox'[x] = inbox[x]
    BY <1>0, <2>3
  <2>6. pc'[w] = "working" /\ cur'[w] = p /\ inbox'[w] = Tail(inbox[w])
    BY <1>0, <2>3
  <2>7. ASSUME NEW r, Kept(r) PROVE Kept(r)'
    <3>1. CASE \E x \in Workers : r \in Requests(inbox[x])
      BY <2>2, <2>5, <2>6, <3>1 DEF Kept
    <3> QED
      BY <2>3, <2>4, <2>5, <2>7, <3>1 DEF Kept
  <2> QED
    BY <2>3, <2>7 DEF Remembered, Answered
<1>3. CASE FetchSucceeds(w)
  <2> DEFINE p == [cur[w] EXCEPT !.format = TRUE]
  <2>1. /\ pc[w] = "working" /\ Succeed(w) /\ Publish("uploading", p)
        /\ UNCHANGED <<inbox, accepted, delivered, apologised>>
    BY <1>3 DEF FetchSucceeds, answerVars
  <2>2. p \in Payload /\ RequestOf(p) = RequestOf(cur[w]) /\ "uploading" \in Kinds
    BY <1>0, <2>1, RequestTypes, SameRequest DEF Kinds
  <2> HIDE DEF p
  <2>3. /\ \A k \in Kinds : Requests(queue[k]) \subseteq Requests(queue'[k])
        /\ lost \subseteq lost'
        /\ \/ RequestOf(cur[w]) \in lost'
           \/ \E k \in Kinds : RequestOf(cur[w]) \in Requests(queue'[k])
    BY <2>1, <2>2, PublishKeeps
  <2>4. req \in (Answered \cup lost)' \/ Kept(req)'
    BY <1>r, <2>1, <2>3 DEF Kept, Answered
  <2>5. /\ \A x \in Workers \ {w} : pc'[x] = pc[x] /\ cur'[x] = cur[x]
        /\ unfinished' = unfinished
    BY <1>0, <2>1 DEF Succeed
  <2> QED
    BY <1>0, <1>r, <2>1, <2>3, <2>4, <2>5, WorkerKeeps
<1>4. CASE UploadDelivers(w)
  <2>1. /\ Succeed(w) /\ UNCHANGED <<queue, inbox, accepted, apologised, lost>>
        /\ delivered' = delivered \cup {RequestOf(cur[w])}
    BY <1>4 DEF UploadDelivers
  <2>2. /\ \A x \in Workers \ {w} : pc'[x] = pc[x] /\ cur'[x] = cur[x]
        /\ unfinished' = unfinished
    BY <1>0, <2>1 DEF Succeed
  <2>3. req \in (Answered \cup lost)'
    BY <1>r, <2>1 DEF Answered
  <2> QED
    BY <1>0, <1>r, <2>1, <2>2, <2>3, WorkerKeeps
<1>5. CASE UploadRequeues(w)
  <2> DEFINE p == [cur[w] EXCEPT !.format = FALSE]
  <2>1. /\ pc[w] = "working" /\ Succeed(w)
        /\ UNCHANGED <<inbox, accepted, delivered, apologised, lost>>
        /\ queue' = [queue EXCEPT !["fetching"] = Append(@, p)]
    BY <1>5 DEF UploadRequeues, answerVars
  <2>2. p \in Payload /\ RequestOf(p) = RequestOf(cur[w]) /\ "fetching" \in Kinds
    BY <1>0, <2>1, RequestTypes, SameRequest DEF Kinds
  <2> HIDE DEF p
  <2>3. queue["fetching"] \in Seq(Payload)
    BY <1>0, <2>2
  <2>4. Requests(Append(queue["fetching"], p)) =
          Requests(queue["fetching"]) \cup {RequestOf(p)}
    BY <2>2, <2>3, RequestsAppend
  <2>5. /\ \A k \in Kinds : Requests(queue[k]) \subseteq Requests(queue'[k])
        /\ RequestOf(cur[w]) \in Requests(queue'["fetching"])
    BY <1>0, <2>1, <2>2, <2>4
  <2>6. Kept(req)'
    BY <1>r, <2>1, <2>2, <2>5 DEF Kept
  <2>7. /\ \A x \in Workers \ {w} : pc'[x] = pc[x] /\ cur'[x] = cur[x]
        /\ unfinished' = unfinished
    BY <1>0, <2>1 DEF Succeed
  <2> QED
    BY <1>0, <1>r, <2>1, <2>5, <2>6, <2>7, WorkerKeeps
<1>6. CASE Fail(w) \/ Interrupted(w)
  <2> DEFINE here == <<cur[w].video, Kind(w)>>
  <2>1. /\ pc[w] = "working" /\ Abandon(w) /\ UNCHANGED <<queue, inbox, accepted, lost>>
        /\ delivered \subseteq delivered' /\ apologised \subseteq apologised'
    BY <1>6 DEF Fail, Interrupted, Apologise, Abandon
  <2>2. here \in Videos \X Kinds
    BY <1>0, <2>1 DEF Payload
  <2>3. /\ unfinished' = [unfinished EXCEPT ![here] = @ + 1]
        /\ \A x \in Workers \ {w} : pc'[x] = pc[x] /\ cur'[x] = cur[x]
    BY <1>0, <2>1 DEF Abandon
  <2>4. /\ unfinished'[here] > 0
        /\ \A x \in Videos \X Kinds : unfinished[x] > 0 => unfinished'[x] > 0
    BY <1>0, <2>2, <2>3
  <2>5. phase' = "running"
    BY ConsumerRuns
  <2>6. RequestOf(cur[w])[2] = cur[w].video
    BY DEF RequestOf
  <2>7. Kept(req)'
    <3>1. req[2] = cur[w].video
      BY <1>r, <2>6
    <3>2. unfinished'[<<req[2], Kind(w)>>] > 0
      BY <2>4, <3>1
    <3> QED
      BY <1>0, <2>5, <3>2 DEF Kept
  <2> QED
    BY <1>0, <1>r, <2>1, <2>3, <2>4, <2>7, WorkerKeeps
<1> QED
  BY <1>1, <1>2, <1>3, <1>4, <1>5, <1>6 DEF Consumer

\* What is kept is pending.
LEMMA KeptPending ==
  ASSUME Apart, TypeInv, QuietInv, JobsMatchWork, OnlyAccepted,
         NEW r \in Links, Kept(r)
  PROVE  r \in Pending
<1>0. /\ Jobs \in Seq(Job) /\ republished \in Nat /\ Len(Jobs) \in Nat
      /\ phase \in {"running", "finalizing", "down"}
  BY DEF TypeInv, TypeOK
<1>1. republished \in 0..Len(Jobs)
  BY <1>0 DEF QuietInv, PhaseInv, QuietWhenNotRunning
<1>2. CASE \E k \in Kinds : r \in Requests(queue[k])
  BY <1>2 DEF Pending, Queued
<1>3. CASE \E w \in Workers : r \in Requests(inbox[w])
  BY <1>3 DEF Pending, InMemory
<1>4. CASE \E w \in Workers : pc[w] = "working" /\ r = RequestOf(cur[w])
  BY <1>4 DEF Pending, InMemory, Busy
<1>5. ASSUME \E i \in republished + 1..Len(Jobs) : r = RequestOf(Jobs[i])
      PROVE  r \in Pending
  <2>1. r \in Requests(SubSeq(Jobs, republished + 1, Len(Jobs)))
    BY <1>0, <1>1, <1>5, RequestsRest
  <2> QED
    BY <2>1 DEF Pending, InMemory
<1>6. CASE phase = "running" /\ \E k \in Kinds : unfinished[<<r[2], k>>] > 0
  <2>1. r \in Requests(Jobs) /\ republished = 0
    BY <1>6, Listed DEF QuietInv, PhaseInv
  <2>2. \E i \in 1..Len(Jobs) : r = RequestOf(Jobs[i])
    BY <1>0, <2>1, RequestsIndex
  <2> QED
    BY <1>5, <2>1, <2>2
<1> QED
  BY <1>2, <1>3, <1>4, <1>5, <1>6 DEF Kept

LEMMA RememberedOthers ==
  ASSUME Apart, PromiseInv,
         \/ \E w \in Workers : Broker(w)
         \/ ConnectionEnds \/ Finalization \/ Interrupt \/ Crash \/ Restart
  PROVE  Remembered'
<1> USE DEF PromiseInv
<1>0. /\ Jobs \in Seq(Job) /\ republished \in Nat /\ Len(Jobs) \in Nat
      /\ phase \in {"running", "finalizing", "down"} /\ accepted \subseteq Links
      /\ inbox \in [Workers -> Seq(Payload)]
  BY DEF TypeInv, TypeOK
<1>1. ASSUME NEW w \in Workers, Deliver(w) PROVE Remembered'
  <2>1. UNCHANGED <<pc, cur, Jobs, phase, republished, unfinished, accepted,
                    delivered, apologised, lost>>
    BY <1>1, DeliverMoves DEF workerVars, processVars, answerVars
  <2>2. ASSUME NEW r, Kept(r) PROVE Kept(r)'
    BY <1>1, <2>1, <2>2, DeliverMoves DEF Kept
  <2> QED
    BY <2>1, <2>2 DEF Remembered, Answered
<1>2. CASE (\E w \in Workers : CloseChannel(w) \/ LoseChannel(w)) \/ Interrupt
  <2>1. UNCHANGED <<queue, inbox, pc, cur, Jobs, phase, republished, unfinished,
                    accepted, delivered, apologised, lost>>
    BY <1>2 DEF CloseChannel, LoseChannel, Interrupt, brokerVars, workerVars,
                processVars, answerVars
  <2> QED
    BY <2>1 DEF Remembered, Kept, Answered
<1>3. ASSUME NEW w \in Workers, DropInbox(w) PROVE Remembered'
  <2>1. /\ UNCHANGED <<queue, pc, cur, Jobs, phase, republished, unfinished,
                       accepted, delivered, apologised>>
        /\ lost' = lost \cup Requests(inbox[w])
        /\ \A x \in Workers : x # w => inbox'[x] = inbox[x]
    BY <1>0, <1>3 DEF DropInbox, workerVars, processVars, answerVars
  <2>2. ASSUME NEW r, Kept(r) PROVE r \in lost' \/ Kept(r)'
    BY <2>1, <2>2 DEF Kept
  <2> QED
    BY <2>1, <2>2 DEF Remembered, Answered
<1>4. CASE ConnectionEnds
  <2>1. PICK rs :
          /\ lost' = lost \cup rs
          /\ \A k \in Kinds :
               Requests(queue[k]) \subseteq Requests(queue'[k]) \cup rs
          /\ UNCHANGED <<inbox, workerVars, phase, republished, accepted,
                         delivered, apologised, unfinished>>
    BY <1>4, ConnectionDrops
  <2>2. ASSUME NEW r, Kept(r) PROVE r \in lost' \/ Kept(r)'
    BY <2>1, <2>2 DEF Kept, workerVars
  <2> QED
    BY <2>1, <2>2 DEF Remembered, Answered
<1>5. CASE BeginFinalization
  <2>1. /\ phase = "running" /\ phase' = "finalizing" /\ republished = 0
        /\ \A w \in Workers : pc[w] = "gone"
        /\ UNCHANGED <<queue, inbox, Jobs, republished, accepted, delivered,
                       apologised, lost>>
    BY <1>5 DEF BeginFinalization, QuietInv, PhaseInv, workerVars, answerVars
  <2>2. ASSUME NEW r \in accepted, Kept(r) PROVE Kept(r)'
    <3>1. ASSUME NEW k \in Kinds, unfinished[<<r[2], k>>] > 0
          PROVE  \E i \in republished' + 1..Len(Jobs') : r = RequestOf(Jobs'[i])
      <4>1. r \in Requests(Jobs)
        BY <1>0, <3>1, Listed
      <4>2. \E i \in 1..Len(Jobs) : r = RequestOf(Jobs[i])
        BY <1>0, <4>1, RequestsIndex
      <4> QED
        BY <2>1, <4>2
    <3> QED
      BY <2>1, <2>2, <3>1 DEF Kept
  <2> QED
    BY <2>1, <2>2 DEF Remembered, Answered
<1>6. CASE RepublishJob
  <2>0. PICK j : j = Jobs[republished + 1]
    OBVIOUS
  <2>1. /\ phase = "finalizing" /\ republished' = republished + 1
        /\ UNCHANGED <<inbox, workerVars, phase, accepted, delivered, apologised,
                       unfinished>>
        /\ \A k \in Kinds : Requests(queue[k]) \subseteq Requests(queue'[k])
        /\ lost \subseteq lost'
        /\ RequestOf(j) \in lost' \/ \E k \in Kinds : RequestOf(j) \in Requests(queue'[k])
    BY <1>6, <2>0, RepublishKeeps
  <2>2. ASSUME NEW r, Kept(r) PROVE r \in lost' \/ Kept(r)'
    <3>1. ASSUME NEW i \in republished + 1..Len(Jobs), r = RequestOf(Jobs[i])
          PROVE  r \in lost' \/ Kept(r)'
      <4>1. CASE i = republished + 1
        BY <2>0, <2>1, <3>1, <4>1 DEF Kept
      <4>2. CASE i # republished + 1
        <5>1. i \in republished' + 1..Len(Jobs') /\ Jobs' = Jobs /\ phase' = phase
          BY <1>0, <2>1, <4>2 DEF workerVars
        <5> QED
          BY <2>1, <3>1, <5>1 DEF Kept
      <4> QED
        BY <4>1, <4>2
    <3> QED
      BY <2>1, <2>2, <3>1 DEF Kept, workerVars
  <2> QED
    BY <2>1, <2>2 DEF Remembered, Answered
<1>7. CASE EndFinalization
  <2>1. /\ phase = "finalizing" /\ republished = Len(Jobs)
        /\ UNCHANGED <<queue, accepted, delivered, apologised>>
        /\ lost \subseteq lost'
    BY <1>7 DEF EndFinalization, Die
  <2>2. \A w \in Workers : pc[w] = "gone" /\ inbox[w] = << >>
    BY <2>1 DEF QuietInv, QuietWhenNotRunning
  <2>3. ASSUME NEW r, Kept(r) PROVE Kept(r)'
    <3>1. \E k \in Kinds : r \in Requests(queue[k])
      BY <1>0, <2>1, <2>2, <2>3, RequestsEmpty DEF Kept
    <3> QED
      BY <2>1, <3>1 DEF Kept
  <2> QED
    BY <2>1, <2>3 DEF Remembered, Answered
<1>8. CASE FinalizationFails
  <2>1. /\ phase = "running" /\ UNCHANGED <<queue, accepted, delivered, apologised>>
        /\ lost' = lost \cup Requests(Jobs)
        /\ \A w \in Workers : pc[w] = "gone"
    BY <1>8 DEF FinalizationFails, Die
  <2>2. \A w \in Workers : inbox[w] = << >>
    BY <2>1 DEF QuietInv, OpenIsServed
  <2>3. ASSUME NEW r \in accepted, Kept(r) PROVE r \in lost' \/ Kept(r)'
    <3>1. CASE \E k \in Kinds : unfinished[<<r[2], k>>] > 0
      <4>1. r \in Requests(Jobs)
        BY <1>0, <3>1, Listed
      <4> QED
        BY <2>1, <4>1
    <3>2. CASE \E k \in Kinds : r \in Requests(queue[k])
      BY <2>1, <3>2 DEF Kept
    <3> QED
      BY <2>1, <2>2, <2>3, <3>1, <3>2, RequestsEmpty DEF Kept
  <2> QED
    BY <2>1, <2>3 DEF Remembered, Answered
<1>9. CASE Crash
  <2>1. /\ UNCHANGED <<queue, accepted, delivered, apologised>>
        /\ lost' = lost \cup InMemory
    BY <1>9 DEF Crash, Die
  <2>2. ASSUME NEW r \in accepted, Kept(r) PROVE r \in lost' \/ Kept(r)'
    <3>1. r \in InMemory \/ r \in Queued
      BY <1>0, <2>2, KeptPending DEF Pending
    <3> QED
      BY <2>1, <3>1 DEF Kept, Queued
  <2> QED
    BY <2>1, <2>2 DEF Remembered, Answered
<1>10. CASE Restart
  <2>1. /\ phase = "down"
        /\ UNCHANGED <<queue, inbox, accepted, delivered, apologised, lost>>
    BY <1>10 DEF Restart, brokerVars, answerVars
  <2>2. \A w \in Workers : pc[w] = "gone"
    BY <2>1 DEF QuietInv, QuietWhenNotRunning
  <2>3. ASSUME NEW r, Kept(r) PROVE Kept(r)'
    BY <2>1, <2>2, <2>3 DEF Kept
  <2> QED
    BY <2>1, <2>3 DEF Remembered, Answered
<1> QED
  BY <1>1, <1>2, <1>3, <1>4, <1>5, <1>6, <1>7, <1>8, <1>9, <1>10
  DEF Broker, Finalization

LEMMA RememberedStep ==
  Apart /\ PromiseInv /\ [Next]_vars => Remembered'
<1> SUFFICES ASSUME Apart, PromiseInv, [Next]_vars PROVE Remembered'
  OBVIOUS
<1>1. CASE Next
  <2>1. \/ ReceiveUpdate \/ StopPolling
        \/ \E d \in UpdateWorkers : UpdateWorker(d)
        \/ \E w \in Workers : Consumer(w)
        \/ \E w \in Workers : Broker(w)
        \/ ConnectionEnds \/ Finalization \/ Interrupt \/ Crash \/ Restart
    BY <1>1 DEF Next
  <2> QED
    BY <2>1, RememberedUpdates, RememberedConsumer, RememberedOthers DEF PromiseInv
<1>2. CASE UNCHANGED vars
  BY <1>2 DEF vars, brokerVars, workerVars, processVars, answerVars, PromiseInv,
              Remembered, Kept, Answered
<1> QED
  BY <1>1, <1>2

\* No accepted request vanishes when no two chats ask for the same video:
\* whatever workers, deleteJob, finalization, lost connections and restarts do
\* to the queues, the inboxes and Dispatcher.Jobs, it was answered, is pending,
\* or was dropped.  Without Apart deleteJob can take the entry of another chat.
LEMMA RememberedAccounted ==
  Apart /\ PromiseInv => Accounted
<1> SUFFICES ASSUME Apart, PromiseInv, NEW r \in accepted
             PROVE  r \in Answered \cup Pending \cup lost
  BY DEF Accounted
<1>1. r \in Links
  BY DEF PromiseInv, TypeInv, TypeOK
<1> QED
  BY <1>1, KeptPending DEF PromiseInv, Remembered

LEMMA PromiseInvariant ==
  ASSUME Apart
  PROVE  Spec => []PromiseInv
<1>1. Init => OnlyAccepted /\ Remembered
  BY OnlyInit, RememberedInit
<1>2. /\ TypeInv /\ QuietInv /\ JobsMatchWork /\ OnlyAccepted /\ Remembered
      /\ [Next]_vars
      => (OnlyAccepted /\ Remembered)'
  BY OnlyStep, RememberedStep DEF PromiseInv
<1>3. Spec => [](TypeInv /\ QuietInv /\ JobsMatchWork)
  BY TypeInvariant, QuietInvariant, DispatcherJobsMatchWork, PTL
<1> QED
  BY <1>1, <1>2, <1>3, PTL DEF Spec, PromiseInv

THEOREM DispatcherAccounted ==
  ASSUME Apart
  PROVE  Spec => []Accounted
BY PromiseInvariant, RememberedAccounted, PTL

-----------------------------------------------------------------------------
(* Every step of Dispatcher is a step of Delivery, or none.                *)

\* Where the requests are that Delivery calls pending.
Held(r) ==
    \/ \E k \in Kinds : r \in Requests(queue[k])
    \/ \E w \in Workers : r \in Requests(inbox[w])
    \/ \E i \in republished + 1..Len(Jobs) : r = RequestOf(Jobs[i])

HeldIsPending == \A r : r \in Pending <=> Held(r)

DeliveryStep == [Promise!DeliveryNext]_(Promise!deliveryVars)

LEMMA PendingHeld ==
  Apart /\ PromiseInv => HeldIsPending
<1> SUFFICES ASSUME Apart, PromiseInv, NEW r PROVE r \in Pending <=> Held(r)
  BY DEF HeldIsPending
<1>0. /\ Jobs \in Seq(Job) /\ republished \in 0..Len(Jobs) /\ Len(Jobs) \in Nat
      /\ TypeInv /\ JobsMatchWork /\ OnlyAccepted
  BY DEF PromiseInv, TypeInv, TypeOK, QuietInv, PhaseInv, QuietWhenNotRunning
<1>1. r \in Requests(SubSeq(Jobs, republished + 1, Len(Jobs)))
        <=> \E i \in republished + 1..Len(Jobs) : r = RequestOf(Jobs[i])
  BY <1>0, RequestsRest
<1>2. ASSUME NEW w \in Workers, Busy(w), r = RequestOf(cur[w])
      PROVE  \E i \in republished + 1..Len(Jobs) : r = RequestOf(Jobs[i])
  <2>1. r \in Requests(Jobs)
    BY <1>0, <1>2, BusyListed
  <2>2. republished = 0
    BY <1>2 DEF PromiseInv, QuietInv, PhaseInv, QuietWhenNotRunning, Busy
  <2>3. \E i \in 1..Len(Jobs) : r = RequestOf(Jobs[i])
    BY <1>0, <2>1, RequestsIndex
  <2> QED
    BY <2>2, <2>3
<1> QED
  BY <1>1, <1>2 DEF Pending, InMemory, Queued, Held

LEMMA PendingMoves ==
  ASSUME Apart, PromiseInv, PromiseInv'
  PROVE  /\ \A r : r \in Pending <=> Held(r)
         /\ \A r : r \in Pending' <=> Held(r)'
<1>1. HeldIsPending'
  BY PendingHeld, PTL
<1> QED
  BY <1>1, PendingHeld DEF HeldIsPending

\* All that is pending was accepted.
LEMMA PendingAccepted ==
  ASSUME Apart, PromiseInv
  PROVE  Pending \subseteq accepted /\ accepted \subseteq Links
<1>1. Jobs \in Seq(Job) /\ republished \in Nat /\ accepted \subseteq Links
  BY DEF PromiseInv, TypeInv, TypeOK
<1>2. ASSUME NEW i \in republished + 1..Len(Jobs)
      PROVE  RequestOf(Jobs[i]) \in Requests(Jobs)
  BY <1>1 DEF Requests
<1>3. \A r : Held(r) => r \in accepted
  BY <1>2 DEF Held, PromiseInv, OnlyAccepted
<1> QED
  BY <1>1, <1>3, PendingHeld DEF HeldIsPending

LEMMA Stutters ==
  ASSUME UNCHANGED <<delivered, apologised, lost>>, Pending' = Pending
  PROVE  DeliveryStep
BY DEF DeliveryStep, Promise!deliveryVars

LEMMA Answers ==
  ASSUME NEW r \in Links, r \in Pending, Pending' = Pending, lost' = lost,
         delivered' \in {delivered, delivered \cup {r}},
         apologised' \in {apologised, apologised \cup {r}}
  PROVE  DeliveryStep
BY DEF DeliveryStep, Promise!DeliveryNext, Promise!Answer

LEMMA Drops ==
  ASSUME NEW rs \in SUBSET Links, rs \subseteq Pending, lost' = lost \cup rs,
         Pending' \subseteq Pending, Pending \ rs \subseteq Pending',
         UNCHANGED <<delivered, apologised>>
  PROVE  DeliveryStep
BY DEF DeliveryStep, Promise!DeliveryNext, Promise!Drop

\* A busy worker's request is one somebody may answer.
LEMMA BusyPending ==
  ASSUME Apart, PromiseInv, NEW w \in Workers, Busy(w)
  PROVE  RequestOf(cur[w]) \in Pending /\ RequestOf(cur[w]) \in Links
<1>1. RequestOf(cur[w]) \in Pending
  BY DEF Pending, InMemory
<1> QED
  BY <1>1, PendingAccepted

LEMMA PromiseUpdates ==
  ASSUME Apart, PromiseInv, PromiseInv',
         \/ ReceiveUpdate \/ StopPolling
         \/ \E d \in UpdateWorkers : UpdateWorker(d)
  PROVE  DeliveryStep
<1>1. ASSUME NEW d \in UpdateWorkers, AcceptLink(d) PROVE DeliveryStep
  <2>0. PICK r : r = Head(updates)
    OBVIOUS
  <2> DEFINE p == [video |-> r[2], chat |-> r[1], format |-> FALSE]
  <2>1. /\ r \in Links /\ p \in Payload /\ Publish("fetching", p)
        /\ UNCHANGED <<inbox, Jobs, republished, delivered, apologised>>
    BY <1>1, <2>0, RequestTypes DEF AcceptLink, workerVars, processVars
  <2>2. RequestOf(p) = r /\ "fetching" \in Kinds
    BY <2>1, SameRequest DEF Kinds
  <2> HIDE DEF p
  <2>3. /\ \A k \in Kinds :
             /\ Requests(queue[k]) \subseteq Requests(queue'[k])
             /\ Requests(queue'[k]) \subseteq Requests(queue[k]) \cup {r}
        /\ \/ lost' = lost /\ r \in Requests(queue'["fetching"])
           \/ lost' = lost \cup {r} /\ queue' = queue
    BY <2>1, <2>2, PublishKeeps DEF PromiseInv
  <2>4. CASE lost' = lost /\ r \in Requests(queue'["fetching"])
    <3>1. \A s : Held(s)' <=> Held(s) \/ s = r
      BY <2>1, <2>2, <2>3, <2>4 DEF Held
    <3>2. Pending' = Pending \cup {r}
      BY <3>1, PendingMoves
    <3> QED
      BY <2>1, <2>4, <3>2 DEF DeliveryStep, Promise!DeliveryNext, Promise!Accept
  <2>5. CASE lost' = lost \cup {r} /\ queue' = queue
    <3>1. \A s : Held(s)' <=> Held(s)
      BY <2>1, <2>5 DEF Held
    <3>2. Pending' = Pending
      BY <3>1, PendingMoves
    <3> QED
      BY <2>1, <2>5, <3>2 DEF DeliveryStep, Promise!DeliveryNext, Promise!Accept
  <2> QED
    BY <2>3, <2>4, <2>5
<1>2. ASSUME UNCHANGED <<queue, inbox, Jobs, republished>>
      PROVE  Pending' = Pending
  <2>1. \A s : Held(s)' <=> Held(s)
    BY <1>2 DEF Held
  <2> QED
    BY <2>1, PendingMoves
<1>3. ASSUME NEW d \in UpdateWorkers, RefuseLink(d) PROVE DeliveryStep
  <2>1. UNCHANGED <<queue, inbox, Jobs, republished, delivered, lost>>
    BY <1>3 DEF RefuseLink, brokerVars, workerVars, processVars
  <2>2. /\ Head(updates) \in Links
        /\ \/ apologised' = apologised \cup {Head(updates)}
           \/ apologised' = apologised
    BY <1>3 DEF RefuseLink, Apologise
  <2>3. CASE apologised' = apologised
    BY <1>2, <2>1, <2>3, Stutters
  <2>4. CASE apologised' = apologised \cup {Head(updates)}
    BY <1>2, <2>1, <2>2, <2>4
    DEF DeliveryStep, Promise!DeliveryNext, Promise!Refuse
  <2> QED
    BY <2>2, <2>3, <2>4
<1>4. CASE \/ ReceiveUpdate \/ StopPolling
           \/ \E d \in UpdateWorkers : TakeCommand(d) \/ DropLink(d) \/ StopListening(d)
  <2>1. UNCHANGED <<queue, inbox, Jobs, republished, delivered, apologised, lost>>
    BY <1>4 DEF ReceiveUpdate, StopPolling, TakeCommand, DropLink, StopListening,
                brokerVars, workerVars, processVars, answerVars
  <2> QED
    BY <1>2, <2>1, Stutters
<1> QED
  BY <1>1, <1>3, <1>4 DEF UpdateWorker

LEMMA PromiseConsumer ==
  ASSUME Apart, PromiseInv, PromiseInv', NEW w \in Workers, Consumer(w)
  PROVE  DeliveryStep
<1>0. /\ pc \in [Workers -> PCs] /\ cur \in [Workers -> Payload \cup {None}]
      /\ inbox \in [Workers -> Seq(Payload)] /\ queue \in [Kinds -> Seq(Payload)]
      /\ Kind(w) \in Kinds /\ Jobs \in Seq(Job)
      /\ Busy(w) => cur[w] \in Payload
      /\ TypeInv /\ JobsMatchWork /\ OnlyAccepted
  BY KindType DEF PromiseInv, TypeInv, TypeOK, InHand
<1>1. republished = 0 /\ republished' = republished
  <2>1. phase = "running"
    BY ConsumerRuns DEF PromiseInv
  <2>2. republished' = republished
    BY DEF Consumer, Setup, SetupFails, Take, Exit, FetchSucceeds,
           UploadDelivers, UploadRequeues, Fail, Interrupted, Delete, processVars
  <2> QED
    BY <2>1, <2>2 DEF PromiseInv, QuietInv, PhaseInv
<1>2. \A r : /\ Held(r) <=> \/ \E k \in Kinds : r \in Requests(queue[k])
                            \/ \E x \in Workers : r \in Requests(inbox[x])
                            \/ r \in Requests(Jobs)
             /\ Held(r)' <=> \/ \E k \in Kinds : r \in Requests(queue'[k])
                             \/ \E x \in Workers : r \in Requests(inbox'[x])
                             \/ r \in Requests(Jobs')
  <2>1. Jobs' \in Seq(Job)
    BY DEF PromiseInv, TypeInv, TypeOK
  <2>2. \A r : /\ r \in Requests(Jobs) <=> \E i \in 1..Len(Jobs) : r = RequestOf(Jobs[i])
               /\ r \in Requests(Jobs') <=> \E i \in 1..Len(Jobs') : r = RequestOf(Jobs'[i])
    BY <1>0, <2>1, RequestsIndex
  <2>3. republished + 1 = 1 /\ republished' + 1 = 1
    BY <1>1
  <2> QED
    BY <2>2, <2>3 DEF Held
<1>3. ASSUME \A r : Held(r)' <=> Held(r) PROVE Pending' = Pending
  BY <1>3, PendingMoves
<1>r. PICK req : req = RequestOf(cur[w])
  OBVIOUS
<1>4. ASSUME Busy(w) PROVE req \in Requests(Jobs) /\ req \in Pending /\ req \in Links
  BY <1>0, <1>4, <1>r, BusyListed, BusyPending
<1>5. CASE Setup(w) \/ SetupFails(w) \/ Exit(w)
  <2>1. UNCHANGED <<queue, inbox, Jobs, delivered, apologised, lost>>
    BY <1>5 DEF Setup, SetupFails, Exit, brokerVars, answerVars
  <2> QED
    BY <1>2, <1>3, <2>1, Stutters
<1>6. CASE Take(w)
  <2>0. PICK p : p = Head(inbox[w])
    OBVIOUS
  <2>00. PICK j : j = JobOf(Kind(w), p)
    OBVIOUS
  <2>1. inbox[w] \in Seq(Payload) /\ inbox[w] # << >>
    BY <1>0, <1>6 DEF Take
  <2>2. /\ p \in Payload
        /\ Requests(inbox[w]) = Requests(Tail(inbox[w])) \cup {RequestOf(p)}
    BY <2>0, <2>1, RequestsTail
  <2>3. j \in Job /\ RequestOf(j) = RequestOf(p)
    BY <1>0, <2>00, <2>2, RequestTypes, SameRequest
  <2>4. /\ Jobs' = Append(Jobs, j)
        /\ inbox' = [inbox EXCEPT ![w] = Tail(@)]
        /\ UNCHANGED <<queue, delivered, apologised, lost>>
    BY <1>6, <2>0, <2>00 DEF Take, answerVars
  <2>5. Requests(Jobs') = Requests(Jobs) \cup {RequestOf(p)}
    BY <1>0, <2>3, <2>4, RequestsAppend
  <2>6. /\ inbox'[w] = Tail(inbox[w])
        /\ \A x \in Workers : x # w => inbox'[x] = inbox[x]
    BY <1>0, <2>4
  <2>7. \A r : Held(r)' <=> Held(r)
    BY <1>2, <2>2, <2>4, <2>5, <2>6
  <2> QED
    BY <1>3, <2>4, <2>7, Stutters
<1>7. CASE FetchSucceeds(w)
  <2>0. PICK p : p = [cur[w] EXCEPT !.format = TRUE]
    OBVIOUS
  <2>1. /\ Busy(w) /\ Publish("uploading", p)
        /\ UNCHANGED <<inbox, Jobs, delivered, apologised>>
    BY <1>7, <2>0 DEF FetchSucceeds, answerVars, Busy
  <2>2. p \in Payload /\ RequestOf(p) = req /\ "uploading" \in Kinds
    BY <1>0, <1>r, <2>0, <2>1, RequestTypes, SameRequest DEF Kinds
  <2>3. /\ \A k \in Kinds :
             /\ Requests(queue[k]) \subseteq Requests(queue'[k])
             /\ Requests(queue'[k]) \subseteq Requests(queue[k]) \cup {req}
        /\ lost' = lost \/ lost' = lost \cup {req}
    BY <1>0, <2>1, <2>2, PublishKeeps
  <2>4. \A r : Held(r)' <=> Held(r)
    BY <1>2, <1>4, <2>1, <2>3
  <2>5. CASE lost' = lost
    BY <1>3, <2>1, <2>4, <2>5, Stutters
  <2>6. CASE lost' = lost \cup {req}
    <3>1. {req} \in SUBSET Links /\ {req} \subseteq Pending
      BY <1>4, <2>1
    <3> QED
      BY <1>3, <2>1, <2>4, <2>6, <3>1, Drops
  <2> QED
    BY <2>3, <2>5, <2>6
<1>8. CASE UploadRequeues(w)
  <2>0. PICK p : p = [cur[w] EXCEPT !.format = FALSE]
    OBVIOUS
  <2>1. /\ Busy(w) /\ UNCHANGED <<inbox, Jobs, delivered, apologised, lost>>
        /\ queue' = [queue EXCEPT !["fetching"] = Append(@, p)]
    BY <1>8, <2>0 DEF UploadRequeues, answerVars, Busy
  <2>2. p \in Payload /\ RequestOf(p) = req /\ "fetching" \in Kinds
    BY <1>0, <1>r, <2>0, <2>1, RequestTypes, SameRequest DEF Kinds
  <2>3. queue["fetching"] \in Seq(Payload)
    BY <1>0, <2>2
  <2>4. Requests(Append(queue["fetching"], p)) = Requests(queue["fetching"]) \cup {req}
    BY <2>2, <2>3, RequestsAppend
  <2>5. \A k \in Kinds :
          /\ Requests(queue[k]) \subseteq Requests(queue'[k])
          /\ Requests(queue'[k]) \subseteq Requests(queue[k]) \cup {req}
    BY <1>0, <2>1, <2>2, <2>4
  <2>6. \A r : Held(r)' <=> Held(r)
    BY <1>2, <1>4, <2>1, <2>5
  <2> QED
    BY <1>3, <2>1, <2>6, Stutters
<1>9. CASE UploadDelivers(w) \/ Fail(w) \/ Interrupted(w)
  <2>1. /\ Busy(w) /\ UNCHANGED <<queue, inbox, Jobs, lost>>
        /\ delivered' = delivered \/ delivered' = delivered \cup {req}
        /\ apologised' = apologised \/ apologised' = apologised \cup {req}
    BY <1>9, <1>r DEF UploadDelivers, Fail, Interrupted, Apologise, Abandon, Busy
  <2>2. req \in Pending /\ req \in Links
    BY <1>4, <2>1
  <2>3. Pending' = Pending
    BY <1>2, <1>3, <2>1
  <2> QED
    BY <2>1, <2>2, <2>3, Answers
<1>10. CASE Delete(w)
  <2>1. /\ Busy(w) /\ Jobs' = DeleteJob(Jobs, cur[w].video, Kind(w))
        /\ UNCHANGED <<queue, inbox, accepted, delivered, apologised, lost>>
    BY <1>10 DEF Delete, brokerVars, answerVars, Busy
  <2>2. /\ Requests(Jobs') \subseteq Requests(Jobs)
        /\ \A r \in Requests(Jobs) : r \in Requests(Jobs') \/ r[2] = cur[w].video
    BY <1>0, <2>1, RequestsDelete
  <2>3. ASSUME NEW r \in Requests(Jobs), r[2] = cur[w].video PROVE r = req
    <3>1. r \in Links /\ req \in Links
      BY <1>0, <1>4, <2>1 DEF OnlyAccepted, TypeInv, TypeOK
    <3>2. req[2] = cur[w].video
      BY <1>r DEF RequestOf
    <3> QED
      BY <2>3, <3>1, <3>2 DEF Apart
  <2>4. /\ \A r : Held(r)' => Held(r)
        /\ \A r : Held(r) => Held(r)' \/ r = req
    BY <1>2, <2>1, <2>2, <2>3
  <2>5. Pending' \subseteq Pending /\ Pending \subseteq Pending' \cup {req}
    BY <2>4, PendingMoves
  <2>6. CASE req \in Pending'
    <3>1. Pending' = Pending
      BY <2>5, <2>6
    <3> QED
      BY <2>1, <3>1, Stutters
  <2>7. CASE req \notin Pending'
    <3>1. Accounted'
      BY RememberedAccounted, PTL
    <3>2. req \in accepted
      BY <1>4, <2>1, PendingAccepted
    <3>3. req \in delivered \cup apologised \cup lost
      BY <2>1, <2>7, <3>1, <3>2 DEF Accounted, Answered
    <3>4. req \in Links /\ req \in Pending
      BY <1>4, <2>1
    <3>5. Pending' = Pending \ {req}
      BY <2>5, <2>7
    <3> QED
      BY <2>1, <3>3, <3>4, <3>5
      DEF DeliveryStep, Promise!DeliveryNext, Promise!Forget, Promise!Settled
  <2> QED
    BY <2>6, <2>7
<1> QED
  BY <1>5, <1>6, <1>7, <1>8, <1>9, <1>10 DEF Consumer

\* When a process ends, the requests pending are those in the queues.
LEMMA DiePending ==
  ASSUME Apart, PromiseInv, PromiseInv', NEW rs, Die(rs), UNCHANGED queue
  PROVE  Pending' = Queued
<1>1. /\ Jobs' = << >> /\ republished' = 0
      /\ \A w \in Workers : inbox'[w] = << >>
  BY DEF Die
<1>2. \A r : ~ \E i \in republished' + 1..Len(Jobs') : r = RequestOf(Jobs'[i])
  BY <1>1
<1>3. \A r : Held(r)' <=> \E k \in Kinds : r \in Requests(queue[k])
  BY <1>1, <1>2, RequestsEmpty DEF Held
<1> QED
  BY <1>3, PendingMoves DEF Queued

LEMMA PromiseOthers ==
  ASSUME Apart, PromiseInv, PromiseInv',
         \/ \E w \in Workers : Broker(w)
         \/ ConnectionEnds \/ Finalization \/ Interrupt \/ Crash \/ Restart
  PROVE  DeliveryStep
<1>0. /\ Jobs \in Seq(Job) /\ republished \in 0..Len(Jobs) /\ Len(Jobs) \in Nat
      /\ inbox \in [Workers -> Seq(Payload)] /\ TypeInv
      /\ Pending \subseteq Links
  <2>1. Jobs \in Seq(Job) /\ republished \in Nat /\ Len(Jobs) \in Nat /\ TypeInv
        /\ inbox \in [Workers -> Seq(Payload)]
        /\ phase \in {"running", "finalizing", "down"}
    BY DEF PromiseInv, TypeInv, TypeOK
  <2>2. republished \in 0..Len(Jobs)
    BY <2>1 DEF PromiseInv, QuietInv, PhaseInv, QuietWhenNotRunning
  <2>3. Pending \subseteq Links
    BY PendingAccepted
  <2> QED
    BY <2>1, <2>2, <2>3
<1>1. ASSUME NEW w \in Workers, Deliver(w) PROVE DeliveryStep
  <2>1. UNCHANGED <<Jobs, republished, delivered, apologised, lost>>
    BY <1>0, <1>1, DeliverMoves DEF workerVars, processVars, answerVars
  <2>2. Kind(w) \in Kinds
    BY KindType
  <2>3. \A r : Held(r)' <=> Held(r)
    BY <1>0, <1>1, <2>1, <2>2, DeliverMoves DEF Held
  <2> QED
    BY <2>1, <2>3, PendingMoves, Stutters
<1>2. CASE \/ \E w \in Workers : CloseChannel(w) \/ LoseChannel(w)
           \/ BeginFinalization \/ Interrupt \/ Restart
  <2>1. UNCHANGED <<queue, inbox, Jobs, republished, delivered, apologised, lost>>
    BY <1>2 DEF CloseChannel, LoseChannel, BeginFinalization, Interrupt, Restart,
                brokerVars, workerVars, processVars, answerVars
  <2>2. \A r : Held(r)' <=> Held(r)
    BY <2>1 DEF Held
  <2> QED
    BY <2>1, <2>2, PendingMoves, Stutters
<1>3. ASSUME NEW w \in Workers, DropInbox(w) PROVE DeliveryStep
  <2>0. PICK rs : rs = Requests(inbox[w])
    OBVIOUS
  <2>1. /\ UNCHANGED <<queue, Jobs, republished, delivered, apologised>>
        /\ lost' = lost \cup rs /\ inbox'[w] = << >>
        /\ \A x \in Workers : x # w => inbox'[x] = inbox[x]
    BY <1>0, <1>3, <2>0 DEF DropInbox, workerVars, processVars, answerVars
  <2>2. /\ \A r : Held(r)' => Held(r)
        /\ \A r : Held(r) => Held(r)' \/ r \in rs
        /\ \A r \in rs : Held(r)
    BY <2>0, <2>1, RequestsEmpty DEF Held
  <2>3. /\ rs \subseteq Pending /\ Pending' \subseteq Pending
        /\ Pending \ rs \subseteq Pending'
    BY <2>2, PendingMoves
  <2> QED
    BY <1>0, <2>1, <2>3, Drops
<1>4. CASE ConnectionEnds
  <2>1. PICK rs :
          /\ rs \subseteq Queued
          /\ lost' = lost \cup rs
          /\ \A k \in Kinds :
               /\ Requests(queue'[k]) \subseteq Requests(queue[k])
               /\ Requests(queue[k]) \subseteq Requests(queue'[k]) \cup rs
          /\ UNCHANGED <<inbox, Jobs, republished, delivered, apologised>>
    BY <1>0, <1>4, ConnectionDrops DEF workerVars
  <2>2. /\ \A r : Held(r)' => Held(r)
        /\ \A r : Held(r) => Held(r)' \/ r \in rs
    BY <2>1 DEF Held
  <2>3. /\ Pending' \subseteq Pending /\ Pending \ rs \subseteq Pending'
    BY <2>2, PendingMoves
  <2>4. rs \subseteq Pending
    BY <2>1 DEF Pending
  <2> QED
    BY <1>0, <2>1, <2>3, <2>4, Drops
<1>5. CASE RepublishJob
  <2>0. PICK j : j = Jobs[republished + 1]
    OBVIOUS
  <2>00. PICK r : r = RequestOf(j)
    OBVIOUS
  <2>1. /\ republished + 1 \in 1..Len(Jobs) /\ republished' = republished + 1
        /\ UNCHANGED <<inbox, Jobs, delivered, apologised>>
        /\ \A k \in Kinds :
             /\ Requests(queue[k]) \subseteq Requests(queue'[k])
             /\ Requests(queue'[k]) \subseteq Requests(queue[k]) \cup {r}
        /\ \/ lost' = lost /\ \E k \in Kinds : r \in Requests(queue'[k])
           \/ lost' = lost \cup {r} /\ queue' = queue
    BY <1>0, <1>5, <2>0, <2>00, RepublishKeeps DEF workerVars
  <2>2. Held(r)
    BY <1>0, <2>0, <2>00, <2>1 DEF Held
  <2>3. /\ \A i \in republished' + 1..Len(Jobs') : i \in republished + 1..Len(Jobs)
        /\ \A i \in republished + 1..Len(Jobs) :
             i = republished + 1 \/ i \in republished' + 1..Len(Jobs')
    BY <1>0, <2>1
  <2>4. \A s : Held(s)' => Held(s)
    BY <2>1, <2>2, <2>3 DEF Held
  <2>5. \A s : Held(s) => Held(s)' \/ s = r
    BY <2>0, <2>00, <2>1, <2>3 DEF Held
  <2>6. CASE lost' = lost /\ \E k \in Kinds : r \in Requests(queue'[k])
    <3>1. Held(r)'
      BY <2>6 DEF Held
    <3>2. Pending' = Pending
      BY <2>4, <2>5, <3>1, PendingMoves
    <3> QED
      BY <2>1, <2>6, <3>2, Stutters
  <2>7. CASE lost' = lost \cup {r}
    <3>1. /\ {r} \subseteq Pending /\ Pending' \subseteq Pending
          /\ Pending \ {r} \subseteq Pending'
      BY <2>2, <2>4, <2>5, PendingMoves
    <3>2. {r} \in SUBSET Links
      BY <1>0, <3>1
    <3> QED
      BY <2>1, <2>7, <3>1, <3>2, Drops
  <2> QED
    BY <2>1, <2>6, <2>7
<1>6. CASE EndFinalization
  <2>1. /\ phase = "finalizing" /\ republished = Len(Jobs) /\ lost' = lost
        /\ Die({}) /\ UNCHANGED <<queue, delivered, apologised>>
    BY <1>6 DEF EndFinalization, Die
  <2>2. \A w \in Workers : inbox[w] = << >>
    BY <2>1 DEF PromiseInv, QuietInv, QuietWhenNotRunning
  <2>3. \A r : Held(r) => r \in Queued
    BY <1>0, <2>1, <2>2, RequestsEmpty DEF Held, Queued
  <2>4. Queued \subseteq Pending
    BY DEF Pending
  <2>5. Pending' = Pending
    BY <2>1, <2>3, <2>4, DiePending, PendingMoves
  <2> QED
    BY <2>1, <2>5, Stutters
<1>7. CASE FinalizationFails
  <2>0. PICK rs : rs = Requests(Jobs)
    OBVIOUS
  <2>1. /\ phase = "running" /\ lost' = lost \cup rs /\ Die(rs)
        /\ UNCHANGED <<queue, delivered, apologised>>
        /\ \A w \in Workers : pc[w] = "gone"
    BY <1>7, <2>0 DEF FinalizationFails, Die
  <2>2. republished = 0 /\ \A w \in Workers : inbox[w] = << >>
    BY <2>1 DEF PromiseInv, QuietInv, OpenIsServed, PhaseInv
  <2>3. \A r : r \in rs <=> \E i \in republished + 1..Len(Jobs) : r = RequestOf(Jobs[i])
    BY <1>0, <2>0, <2>2, RequestsIndex
  <2>4. \A r : Held(r) <=> r \in Queued \/ r \in rs
    BY <2>2, <2>3, RequestsEmpty DEF Held, Queued
  <2>5. /\ rs \subseteq Pending /\ Pending' \subseteq Pending
        /\ Pending \ rs \subseteq Pending'
    BY <2>1, <2>4, DiePending, PendingMoves
  <2> QED
    BY <1>0, <2>1, <2>5, Drops
<1>8. CASE Crash
  <2>0. PICK rs : rs = InMemory
    OBVIOUS
  <2>1. /\ lost' = lost \cup rs /\ Die(rs) /\ UNCHANGED <<queue, delivered, apologised>>
    BY <1>8, <2>0 DEF Crash, Die
  <2>2. Pending = rs \cup Queued
    BY <2>0 DEF Pending
  <2>3. Pending' = Queued
    BY <2>1, DiePending
  <2> QED
    BY <1>0, <2>1, <2>2, <2>3, Drops
<1> QED
  BY <1>1, <1>2, <1>3, <1>4, <1>5, <1>6, <1>7, <1>8 DEF Broker, Finalization

LEMMA PromiseInit == Init => Promise!DeliveryInit
<1> SUFFICES ASSUME Init PROVE Promise!DeliveryInit
  OBVIOUS
<1>1. /\ \A k \in Kinds : queue[k] = << >>
      /\ \A w \in Workers : inbox[w] = << >> /\ ~ Busy(w)
      /\ Jobs = << >> /\ republished = 0
  BY DEF Init, Busy
<1>2. SubSeq(Jobs, republished + 1, Len(Jobs)) = << >>
  BY <1>1
<1>3. Pending = {}
  BY <1>1, <1>2, RequestsEmpty DEF Pending, InMemory, Queued
<1> QED
  BY <1>3 DEF Init, Promise!DeliveryInit

LEMMA PromiseStep ==
  ASSUME Apart
  PROVE  PromiseInv /\ PromiseInv' /\ [Next]_vars => DeliveryStep
<1> SUFFICES ASSUME PromiseInv, PromiseInv', [Next]_vars PROVE DeliveryStep
  OBVIOUS
<1>1. CASE Next
  <2>1. \/ ReceiveUpdate \/ StopPolling
        \/ \E d \in UpdateWorkers : UpdateWorker(d)
        \/ \E w \in Workers : Consumer(w)
        \/ \E w \in Workers : Broker(w)
        \/ ConnectionEnds \/ Finalization \/ Interrupt \/ Crash \/ Restart
    BY <1>1 DEF Next
  <2> QED
    BY <2>1, PromiseUpdates, PromiseConsumer, PromiseOthers
<1>2. CASE UNCHANGED vars
  <2>1. UNCHANGED <<queue, inbox, Jobs, republished, delivered, apologised, lost>>
    BY <1>2 DEF vars, brokerVars, workerVars, processVars, answerVars
  <2>2. \A r : Held(r)' <=> Held(r)
    BY <2>1 DEF Held
  <2> QED
    BY <2>1, <2>2, PendingMoves, Stutters
<1> QED
  BY <1>1, <1>2

\* Dispatcher implements Delivery when no two chats ask for the same video: each
\* step of the goroutines, the broker and the operating system accepts, refuses,
\* answers, forgets or drops requests as Delivery allows, or leaves them alone.
THEOREM DispatcherKeepsPromise ==
  ASSUME Apart
  PROVE  Spec => KeepsPromise
<1>1. PromiseInv /\ PromiseInv' /\ [Next]_vars
        => [Promise!DeliveryNext]_(Promise!deliveryVars)
  BY PromiseStep DEF DeliveryStep
<1> QED
  BY <1>1, PromiseInit, PromiseInvariant, PTL
  DEF Spec, KeepsPromise, Promise!DeliverySpec

=============================================================================
