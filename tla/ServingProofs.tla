---------------------------- MODULE ServingProofs ----------------------------
(***************************************************************************)
(* What a run of Dispatcher does to requests while it serves: it loses     *)
(* none, leaves none behind untold, and makes no more work of them than    *)
(* came in; for any number of workers, links, updates and runs.            *)
(***************************************************************************)
EXTENDS PromiseProofs

-----------------------------------------------------------------------------
(* Nothing is lost while the process and the broker stay up.               *)

\* What may go wrong with one request, or with the bot's clients, while the
\* process, its channels and its connection stay.
RequestFaults ==
    {"session", "parse", "fetch", "upload", "evicted", "send", "redelivery"}

\* Both queues exist, and every consumer past its setup has its channel.
ServesInv ==
    /\ lost = {} /\ ~ctxDone /\ declared = Kinds
    /\ phase # "down" =>
           /\ connected
           /\ \A w \in Workers : pc[w] # "setup" => w \in open

LEMMA ServesInit ==
  ASSUME QueuesAtStart = Kinds
  PROVE  Init => ServesInv
BY DEF Init, ServesInv

LEMMA ServesConsumer ==
  ASSUME Faults \subseteq RequestFaults, TypeInv, QuietInv, ServesInv,
         NEW w \in Workers, Consumer(w)
  PROVE  ServesInv'
<1>0. /\ phase = "running" /\ UNCHANGED phase
      /\ connected /\ "setup" \notin Faults
      /\ pc \in [Workers -> PCs] /\ Kind(w) \in Kinds /\ "fetching" \in Kinds
      /\ \A x \in Workers : pc[x] # "setup" => x \in open
  BY ConsumerRuns, KindType DEF ServesInv, RequestFaults, TypeInv, TypeOK, Kinds
<1>1. ~ SetupFails(w) /\ ~ Exit(w)
  BY <1>0 DEF SetupFails, Exit
<1>2. CASE Setup(w)
  BY <1>0, <1>2 DEF Setup, ServesInv, processVars
<1>3. ASSUME pc[w] # "setup", declared' \subseteq declared \cup {"fetching"},
             declared \subseteq declared', \A x \in Workers : x # w => pc'[x] = pc[x],
             UNCHANGED <<lost, ctxDone, connected, open>>
      PROVE  ServesInv'
  BY <1>0, <1>3 DEF ServesInv
<1>4. CASE Take(w)
  BY <1>0, <1>3, <1>4 DEF Take, processVars
<1>5. CASE FetchSucceeds(w)
  <2>1. UNCHANGED lost
    BY <1>5 DEF FetchSucceeds, Publish, ServesInv, Kinds
  <2> QED
    BY <1>0, <1>3, <1>5, <2>1 DEF FetchSucceeds, Succeed, processVars
<1>6. CASE UploadDelivers(w) \/ UploadRequeues(w)
  BY <1>0, <1>3, <1>6 DEF UploadDelivers, UploadRequeues, Succeed, processVars
<1>7. CASE Fail(w) \/ Interrupted(w)
  BY <1>0, <1>3, <1>7 DEF Fail, Interrupted, Abandon, processVars
<1>8. CASE Delete(w)
  BY <1>0, <1>3, <1>8 DEF Delete, brokerVars, processVars
<1> QED
  BY <1>1, <1>2, <1>4, <1>5, <1>6, <1>7, <1>8 DEF Consumer

LEMMA ServesOthers ==
  ASSUME Faults \subseteq RequestFaults, TypeInv, QuietInv, ServesInv,
         \/ ReceiveUpdate \/ StopPolling
         \/ \E d \in UpdateWorkers : UpdateWorker(d)
         \/ \E w \in Workers : Broker(w)
         \/ ConnectionEnds \/ Finalization \/ Interrupt \/ Crash \/ Restart
  PROVE  ServesInv'
<1>0. Faults \cap {"interrupt", "crash", "channel", "connection", "broker",
                   "finalize"} = {}
  BY DEF RequestFaults
<1>1. CASE ReceiveUpdate \/ StopPolling
  BY <1>1 DEF ReceiveUpdate, StopPolling, ServesInv, brokerVars, workerVars,
              processVars
<1>2. ASSUME NEW d \in UpdateWorkers, UpdateWorker(d) PROVE ServesInv'
  <2>1. CASE AcceptLink(d)
    <3>1. UNCHANGED lost
      BY <2>1 DEF AcceptLink, Publish, ServesInv, Kinds
    <3> QED
      BY <2>1, <3>1 DEF AcceptLink, ServesInv, workerVars, processVars
  <2> QED
    BY <1>2, <2>1 DEF UpdateWorker, TakeCommand, DropLink, RefuseLink,
         StopListening, ServesInv, brokerVars, workerVars, processVars
<1>3. ASSUME NEW w \in Workers, Broker(w) PROVE ServesInv'
  <2>1. ~ CloseChannel(w) /\ ~ LoseChannel(w)
    BY <1>0 DEF CloseChannel, LoseChannel, ServesInv
  <2>2. ~ DropInbox(w)
    BY DEF DropInbox, ServesInv, QuietInv, QuietWhenNotRunning
  <2> QED
    BY <1>3, <2>1, <2>2 DEF Broker, Deliver, ServesInv, workerVars, processVars
<1>4. CASE BeginFinalization
  BY <1>4 DEF BeginFinalization, ServesInv, workerVars
<1>5. CASE RepublishJob
  <2>1. Jobs[republished + 1] \in Job
    BY <1>5 DEF RepublishJob, TypeInv, TypeOK
  <2>2. connected /\ Jobs[republished + 1].kind \in declared
    BY <1>5, <2>1 DEF RepublishJob, ServesInv, Job
  <2>3. UNCHANGED lost
    BY <1>0, <1>5, <2>2 DEF RepublishJob, Publish
  <2> QED
    BY <1>5, <2>3 DEF RepublishJob, ServesInv, workerVars
<1>6. CASE EndFinalization
  BY <1>6 DEF EndFinalization, Die, ServesInv
<1>7. CASE Restart
  BY <1>7 DEF Restart, ServesInv, brokerVars
<1>8. ~ ConnectionEnds /\ ~ FinalizationFails /\ ~ Interrupt /\ ~ Crash
  BY <1>0 DEF ConnectionEnds, LoseConnection, RestartBroker, FinalizationFails,
       Interrupt, Crash, ServesInv
<1> QED
  BY <1>1, <1>2, <1>3, <1>4, <1>5, <1>6, <1>7, <1>8 DEF Finalization

LEMMA ServesStep ==
  ASSUME Faults \subseteq RequestFaults
  PROVE  TypeInv /\ QuietInv /\ ServesInv /\ [Next]_vars => ServesInv'
<1> SUFFICES ASSUME TypeInv, QuietInv, ServesInv, [Next]_vars PROVE ServesInv'
  OBVIOUS
<1>1. CASE Next
  <2>1. \/ ReceiveUpdate \/ StopPolling
        \/ \E d \in UpdateWorkers : UpdateWorker(d)
        \/ \E w \in Workers : Consumer(w)
        \/ \E w \in Workers : Broker(w)
        \/ ConnectionEnds \/ Finalization \/ Interrupt \/ Crash \/ Restart
    BY <1>1 DEF Next
  <2> QED
    BY <2>1, ServesConsumer, ServesOthers
<1>2. CASE UNCHANGED vars
  BY <1>2 DEF vars, brokerVars, workerVars, processVars, ServesInv
<1> QED
  BY <1>1, <1>2

\* As long as nobody stops the process and the broker stays up, and if both
\* queues exist from the start, no accepted request is ever dropped: no error of
\* a session, of YouTube, of fetch or upload, of Telegram or of the storage makes
\* the dispatcher lose one, and it never comes to finalization.
THEOREM DispatcherNothingLost ==
  ASSUME Faults \subseteq RequestFaults, QueuesAtStart = Kinds
  PROVE  Spec => []NothingLost
<1>1. ServesInv => NothingLost
  BY DEF ServesInv, NothingLost
<1> QED
  BY <1>1, ServesInit, ServesStep, TypeInvariant, QuietInvariant, PTL DEF Spec

-----------------------------------------------------------------------------
(* The jobs that are left behind.                                          *)

\* Until a shutdown begins, a user with an unfinished job has been told.
Told ==
    ~ctxDone =>
        \A r \in Links, k \in Kinds :
            unfinished[<<r[2], k>>] > 0 => r \in apologised \cup ignored

\* A dead process leaves none.
DeadHasNone ==
    phase = "down" => \A x \in Videos \X Kinds : unfinished[x] = 0

LEMMA ToldInit == Init => Told /\ DeadHasNone
<1>1. \A r \in Links : r[2] \in Videos
  BY RequestTypes DEF Request
<1> QED
  BY <1>1 DEF Init, Told, DeadHasNone

\* A consumer that fails before a shutdown has told the user.
LEMMA ToldConsumer ==
  ASSUME Apart, TypeInv, QuietInv, OnlyAccepted, Told,
         NEW w \in Workers, Consumer(w)
  PROVE  Told' /\ DeadHasNone'
<1>0. phase' = "running" /\ accepted \subseteq Links
      /\ unfinished \in [Videos \X Kinds -> Nat]
      /\ \A r \in Links : r[2] \in Videos
  BY ConsumerRuns, RequestTypes DEF TypeInv, TypeOK, Request
<1>1. ASSUME UNCHANGED unfinished, apologised \subseteq apologised',
             ignored \subseteq ignored', ctxDone => ctxDone'
      PROVE  Told'
  BY <1>1 DEF Told
<1>2. CASE ~ Fail(w) /\ ~ Interrupted(w)
  <2>1. /\ UNCHANGED <<unfinished, apologised, ignored>>
        /\ ctxDone => ctxDone'
    BY <1>2 DEF Consumer, Setup, SetupFails, Take, Exit, FetchSucceeds,
         UploadDelivers, UploadRequeues, Delete, Succeed, processVars, answerVars
  <2> QED
    BY <1>0, <1>1, <2>1 DEF DeadHasNone
<1>3. CASE Interrupted(w)
  BY <1>0, <1>3 DEF Interrupted, processVars, Told, DeadHasNone
<1>4. CASE Fail(w)
  <2>1. /\ ctxDone' = ctxDone /\ Busy(w)
        /\ unfinished' = [unfinished EXCEPT ![<<cur[w].video, Kind(w)>>] = @ + 1]
        /\ RequestOf(cur[w]) \in apologised' \cup ignored'
        /\ apologised \subseteq apologised' /\ ignored \subseteq ignored'
    BY <1>4 DEF Fail, Abandon, Apologise, processVars, Busy
  <2>2. RequestOf(cur[w]) \in Links /\ RequestOf(cur[w])[2] = cur[w].video
    BY <1>0, <2>1 DEF OnlyAccepted, RequestOf
  <2>3. ASSUME NEW r \in Links, NEW k \in Kinds, ~ctxDone,
               unfinished'[<<r[2], k>>] > 0
        PROVE  r \in apologised' \cup ignored'
    <3>1. CASE r[2] = cur[w].video
      BY <2>1, <2>2, <3>1 DEF Apart
    <3>2. CASE r[2] # cur[w].video
      <4>1. unfinished'[<<r[2], k>>] = unfinished[<<r[2], k>>]
        BY <1>0, <2>1, <3>2
      <4> QED
        BY <2>1, <2>3, <4>1 DEF Told
    <3> QED
      BY <3>1, <3>2
  <2> QED
    BY <1>0, <2>1, <2>3 DEF Told, DeadHasNone
<1> QED
  BY <1>2, <1>3, <1>4

LEMMA ToldOthers ==
  ASSUME TypeInv, Told, DeadHasNone,
         \/ ReceiveUpdate \/ StopPolling
         \/ \E d \in UpdateWorkers : UpdateWorker(d)
         \/ \E w \in Workers : Broker(w)
         \/ ConnectionEnds \/ Finalization \/ Interrupt \/ Crash \/ Restart
  PROVE  Told' /\ DeadHasNone'
<1>0. \A r \in Links : r[2] \in Videos
  BY RequestTypes DEF Request
<1>1. CASE \/ ReceiveUpdate \/ StopPolling \/ BeginFinalization
           \/ RepublishJob \/ Interrupt \/ ConnectionEnds
           \/ \E d \in UpdateWorkers : UpdateWorker(d)
           \/ \E w \in Workers : Broker(w)
  <2>1. /\ UNCHANGED unfinished /\ (phase' # "down" \/ phase' = phase)
        /\ apologised \subseteq apologised' /\ ignored \subseteq ignored'
        /\ ctxDone => ctxDone'
    BY <1>1 DEF ReceiveUpdate, StopPolling, UpdateWorker, TakeCommand, DropLink,
         RefuseLink, AcceptLink, StopListening, Apologise, Broker, Deliver,
         CloseChannel, LoseChannel, DropInbox, BeginFinalization, RepublishJob,
         Interrupt, ConnectionEnds, LoseConnection, RestartBroker, processVars,
         answerVars
  <2> QED
    BY <2>1 DEF Told, DeadHasNone
<1>2. CASE EndFinalization \/ FinalizationFails \/ Crash
  <2>1. unfinished' = [x \in Videos \X Kinds |-> 0]
    BY <1>2 DEF EndFinalization, FinalizationFails, Crash, Die
  <2> QED
    BY <1>0, <2>1 DEF Told, DeadHasNone
<1>3. CASE Restart
  <2>1. /\ UNCHANGED unfinished /\ phase' = "running"
        /\ \A x \in Videos \X Kinds : unfinished[x] = 0
    BY <1>3 DEF Restart, DeadHasNone
  <2> QED
    BY <1>0, <2>1 DEF Told, DeadHasNone
<1> QED
  BY <1>1, <1>2, <1>3 DEF Finalization

LEMMA ToldStep ==
  ASSUME Apart
  PROVE  /\ TypeInv /\ QuietInv /\ OnlyAccepted /\ Told /\ DeadHasNone
         /\ [Next]_vars
         => Told' /\ DeadHasNone'
<1> SUFFICES ASSUME TypeInv, QuietInv, OnlyAccepted, Told, DeadHasNone, [Next]_vars
             PROVE  Told' /\ DeadHasNone'
  OBVIOUS
<1>1. CASE Next
  <2>1. \/ ReceiveUpdate \/ StopPolling
        \/ \E d \in UpdateWorkers : UpdateWorker(d)
        \/ \E w \in Workers : Consumer(w)
        \/ \E w \in Workers : Broker(w)
        \/ ConnectionEnds \/ Finalization \/ Interrupt \/ Crash \/ Restart
    BY <1>1 DEF Next
  <2> QED
    BY <2>1, ToldConsumer, ToldOthers
<1>2. CASE UNCHANGED vars
  BY <1>2 DEF vars, processVars, answerVars, Told, DeadHasNone
<1> QED
  BY <1>1, <1>2

\* An entry nobody works on is one of an unfinished job.
LEMMA ToldLeftovers ==
  ASSUME Apart, TypeInv, JobsMatchWork, OnlyAccepted, Told
  PROVE  LeftoversWereTold
<1> SUFFICES ASSUME ~ctxDone, NEW i \in DOMAIN Jobs,
                    RequestOf(Jobs[i]) \notin apologised \cup ignored
             PROVE  \E w \in Workers : /\ Busy(w) /\ Kind(w) = Jobs[i].kind
                                       /\ RequestOf(cur[w]) = RequestOf(Jobs[i])
  BY DEF LeftoversWereTold
<1> DEFINE r == RequestOf(Jobs[i])
           v == Jobs[i].video
           k == Jobs[i].kind
<1>1. /\ Jobs \in Seq(Job) /\ Jobs[i] \in Job /\ v \in Videos /\ k \in Kinds
      /\ accepted \subseteq Links /\ r \in Links /\ r[2] = v
  <2>1. /\ Jobs \in Seq(Job) /\ accepted \subseteq Links
        /\ Requests(Jobs) \subseteq accepted
    BY DEF TypeInv, TypeOK, OnlyAccepted
  <2>2. Jobs[i] \in Job
    BY <2>1
  <2>3. r \in Requests(Jobs)
    BY DEF Requests
  <2> QED
    BY <2>1, <2>2, <2>3 DEF Job, RequestOf
<1>2. Cardinality(Entries(Jobs, v, k)) # 0
  <2>1. i \in Entries(Jobs, v, k)
    BY DEF Entries
  <2> QED
    BY <1>1, <2>1, EntriesFinite, FS_EmptySet
<1>3. unfinished[<<v, k>>] = 0
  <2>1. unfinished[<<v, k>>] \in Nat
    BY <1>1 DEF TypeInv, TypeOK
  <2>2. ~ (unfinished[<<r[2], k>>] > 0)
    BY <1>1 DEF Told
  <2> QED
    BY <1>1, <2>1, <2>2
<1>4. Cardinality(BusyWith(v, k)) # 0
  BY <1>1, <1>2, <1>3, BusyFinite DEF JobsMatchWork
<1>5. PICK w \in BusyWith(v, k) : TRUE
  BY <1>4, FS_EmptySet
<1>6. w \in Workers /\ Busy(w) /\ Kind(w) = k /\ cur[w].video = v
  BY <1>5 DEF BusyWith
<1>7. RequestOf(cur[w]) \in Links /\ RequestOf(cur[w])[2] = v
  BY <1>1, <1>6 DEF OnlyAccepted, RequestOf
<1>8. RequestOf(cur[w]) = r
  BY <1>1, <1>7 DEF Apart
<1> QED
  BY <1>6, <1>8

\* When no two chats ask for the same video, whatever fails, an entry stays in
\* Jobs with no worker on it only if its user was told to send the link again,
\* or could not be told.  So what a later shutdown republishes of those entries
\* is done twice for the users that took the advice.
THEOREM DispatcherLeftoversWereTold ==
  ASSUME Apart
  PROVE  Spec => []LeftoversWereTold
<1>1. Spec => [](TypeInv /\ QuietInv /\ JobsMatchWork /\ OnlyAccepted)
  BY PromiseInvariant, PTL DEF PromiseInv
<1> QED
  BY <1>1, ToldInit, ToldStep, ToldLeftovers, PTL DEF Spec

-----------------------------------------------------------------------------
(* Lemmas about counting.                                                  *)

\* A set that another one agrees with but for one element.
LEMMA OneMoves ==
  ASSUME NEW S, NEW R, NEW x, IsFiniteSet(S), R \ {x} = S \ {x}
  PROVE  /\ IsFiniteSet(R) /\ Cardinality(R) \in Nat /\ Cardinality(S) \in Nat
         /\ (x \in R <=> x \in S) => Cardinality(R) = Cardinality(S)
         /\ x \in R /\ x \notin S => Cardinality(R) = Cardinality(S) + 1
         /\ x \notin R /\ x \in S => Cardinality(R) = Cardinality(S) - 1
<1> DEFINE B == S \ {x}
<1>1. /\ IsFiniteSet(B) /\ Cardinality(S) \in Nat /\ Cardinality(B) \in Nat
      /\ Cardinality(B) = Cardinality(S) - (IF x \in S THEN 1 ELSE 0)
  BY FS_RemoveElement, FS_CardinalityType
<1>2. x \notin B /\ R \ {x} = B
  OBVIOUS
<1> HIDE DEF B
<1>3. CASE x \in R
  <2>1. R = B \cup {x}
    BY <1>2, <1>3
  <2>2. IsFiniteSet(R) /\ Cardinality(R) = Cardinality(B) + 1
    BY <1>1, <1>2, <2>1, FS_AddElement
  <2> QED
    BY <1>1, <1>3, <2>2
<1>4. CASE x \notin R
  <2>1. R = B
    BY <1>2, <1>4
  <2> QED
    BY <1>1, <1>4, <2>1
<1> QED
  BY <1>3, <1>4

\* Sequences of T, one for each member of S.
Rows(S, T) == [S -> Seq(T)]

LEMMA PlacesMember ==
  ASSUME NEW S, NEW T, NEW f \in Rows(S, T), NEW x \in S, NEW i
  PROVE  <<x, i>> \in Places(f) <=> i \in 1..Len(f[x])
BY DEF Places, Rows

LEMMA PlacesPairs ==
  ASSUME NEW S, NEW T, NEW f \in Rows(S, T)
  PROVE  \A z \in Places(f) : \E x \in S : \E i \in 1..Len(f[x]) : z = <<x, i>>
BY DEF Places, Rows

LEMMA PlacesType ==
  ASSUME NEW S, IsFiniteSet(S), NEW T, NEW f \in Rows(S, T)
  PROVE  IsFiniteSet(Places(f)) /\ Cardinality(Places(f)) \in Nat
<1> DEFINE column(x) == {x} \X DOMAIN f[x]
           R == {column(x) : x \in S}
           g == [x \in S |-> column(x)]
<1>1. IsFiniteSet(R)
  <2>1. g \in Surjection(S, R)
    BY DEF Surjection
  <2> QED
    BY <2>1, FS_Surjection
<1>2. ASSUME NEW x \in S PROVE IsFiniteSet(column(x))
  <2>1. DOMAIN f[x] = 1..Len(f[x]) /\ Len(f[x]) \in Nat
    BY DEF Rows
  <2>2. IsFiniteSet(1..Len(f[x])) /\ IsFiniteSet({x})
    <3>1. 1 \in Int /\ Len(f[x]) \in Int
      BY <2>1
    <3> QED
      BY <3>1, FS_Interval, FS_Singleton
  <2> QED
    BY <2>1, <2>2, FS_Product
<1>3. \A C \in R : IsFiniteSet(C)
  BY <1>2
<1>4. Places(f) = UNION R
  BY DEF Places, Rows
<1> HIDE DEF R
<1> QED
  BY <1>1, <1>3, <1>4, FS_UNION, FS_CardinalityType

\* One of the sequences gets longer by one.
LEMMA PlacesOneMore ==
  ASSUME NEW S, IsFiniteSet(S), NEW T, NEW f \in Rows(S, T), NEW g \in Rows(S, T),
         NEW k \in S, Len(g[k]) = Len(f[k]) + 1, \A x \in S : x # k => g[x] = f[x]
  PROVE  Cardinality(Places(g)) = Cardinality(Places(f)) + 1
<1> DEFINE z == <<k, Len(g[k])>>
<1>1. z \in Places(g) /\ z \notin Places(f)
  <2>1. Len(g[k]) \in Nat /\ Len(f[k]) \in Nat
    BY DEF Rows
  <2>2. Len(g[k]) \in 1..Len(g[k]) /\ Len(g[k]) \notin 1..Len(f[k])
    BY <2>1
  <2> QED
    BY <2>2, PlacesMember
<1>2. ASSUME NEW x \in S, NEW i, <<x, i>> # z
      PROVE  <<x, i>> \in Places(g) <=> <<x, i>> \in Places(f)
  <2>1. i \in 1..Len(g[x]) <=> i \in 1..Len(f[x])
    <3>1. CASE x = k
      BY <1>2, <3>1 DEF Rows
    <3> QED
      BY <3>1
  <2> QED
    BY <2>1, PlacesMember
<1>3. Places(g) \ {z} = Places(f) \ {z}
  BY <1>2, PlacesPairs
<1> HIDE DEF z
<1> QED
  BY <1>1, <1>3, PlacesType, OneMoves

Shortened(f, k) == [f EXCEPT ![k] = Tail(@)]

Lengthened(f, k, p) == [f EXCEPT ![k] = Append(@, p)]

LEMMA PlacesShortened ==
  ASSUME NEW S, IsFiniteSet(S), NEW T, NEW f \in Rows(S, T), NEW k \in S, f[k] # << >>
  PROVE  Cardinality(Places(f)) = Cardinality(Places(Shortened(f, k))) + 1
<1> DEFINE g == Shortened(f, k)
<1>1. Tail(f[k]) \in Seq(T) /\ Len(f[k]) = Len(Tail(f[k])) + 1
  BY DEF Rows
<1>2. g[k] = Tail(f[k])
  BY <1>1 DEF Rows, Shortened
<1>3. g \in Rows(S, T) /\ \A x \in S : x # k => f[x] = g[x]
  BY <1>1 DEF Rows, Shortened
<1>4. Len(f[k]) = Len(g[k]) + 1
  BY <1>1, <1>2
<1> QED
  BY <1>3, <1>4, PlacesOneMore

LEMMA PlacesLengthened ==
  ASSUME NEW S, IsFiniteSet(S), NEW T, NEW f \in Rows(S, T), NEW k \in S, NEW p \in T
  PROVE  Cardinality(Places(Lengthened(f, k, p))) = Cardinality(Places(f)) + 1
<1> DEFINE g == Lengthened(f, k, p)
<1>1. Append(f[k], p) \in Seq(T) /\ Len(Append(f[k], p)) = Len(f[k]) + 1
  BY DEF Rows
<1>2. g[k] = Append(f[k], p)
  BY <1>1 DEF Rows, Lengthened
<1>3. g \in Rows(S, T) /\ \A x \in S : x # k => g[x] = f[x]
  BY <1>1 DEF Rows, Lengthened
<1>4. Len(g[k]) = Len(f[k]) + 1
  BY <1>1, <1>2
<1> QED
  BY <1>3, <1>4, PlacesOneMore

\* None of the sequences gets longer.
LEMMA PlacesFewer ==
  ASSUME NEW S, IsFiniteSet(S), NEW T, NEW f \in Rows(S, T), NEW g \in Rows(S, T),
         \A x \in S : Len(g[x]) <= Len(f[x])
  PROVE  Cardinality(Places(g)) <= Cardinality(Places(f))
<1> DEFINE A == Places(f)
           B == Places(g)
<1>1. ASSUME NEW x \in S, NEW i \in 1..Len(g[x]) PROVE <<x, i>> \in A
  <2>1. i \in 1..Len(f[x])
    BY DEF Rows
  <2> QED
    BY <2>1, PlacesMember
<1>2. ASSUME NEW z \in Places(g) PROVE z \in A
  <2>1. \A y \in Places(g) : \E x \in S : \E i \in 1..Len(g[x]) : y = <<x, i>>
    BY DEF Places, Rows
  <2>2. PICK x \in S : \E i \in 1..Len(g[x]) : z = <<x, i>>
    BY <2>1
  <2> QED
    BY <1>1, <2>2
<1>3. IsFiniteSet(A)
  BY PlacesType
<1> HIDE DEF A, B
<1>4. Cardinality(B) <= Cardinality(A)
  <2>1. B \in SUBSET A
    BY <1>2 DEF B
  <2> QED
    BY <1>3, <2>1, FS_Subset
<1> QED
  BY <1>4 DEF A, B

-----------------------------------------------------------------------------
(* Work does not multiply.                                                 *)

Deleting == {w \in Workers : pc[w] = "deleting"}

BusyWorkers == {w \in Workers : Busy(w)}

\* What Load adds up, by name.
Waiting == Len(updates)

InQueues == Cardinality(Places(queue))

InInboxes == Cardinality(Places(inbox))

Entered == Len(Jobs)

Finishing == Cardinality(Deleting)

Occupied == Cardinality(BusyWorkers)

Allowed == runs * received

\* The load is bounded, there is a job for every message in hand, and a process
\* that is started finds no more updates than were ever received.
LoadInv ==
    /\ NoAmplification
    /\ runs > 0
    /\ Len(unconfirmed) <= received
    /\ Occupied <= Entered
    /\ phase = "down" => updates = << >>

LoadFacts ==
    /\ Waiting \in Nat /\ InQueues \in Nat /\ InInboxes \in Nat /\ Entered \in Nat
    /\ republished \in Nat /\ Finishing \in Nat /\ Occupied \in Nat /\ Allowed \in Nat
    /\ Finishing <= Occupied
    /\ runs \in Nat /\ received \in Nat /\ Len(unconfirmed) \in Nat
    /\ Load \in Int
    /\ Load = Waiting + InQueues + InInboxes + (Entered - republished) - Finishing

LEMMA FiniteFacts == IsFiniteSet(Workers) /\ IsFiniteSet(Kinds)
<1>1. IsFiniteSet({"fetching"}) /\ IsFiniteSet({"uploading"})
  BY FS_Singleton
<1>2. Kinds = {"fetching"} \cup {"uploading"}
  BY DEF Kinds
<1> QED
  BY <1>1, <1>2, ConstantsOK, FS_Union DEF Workers

LEMMA BrokerTypes ==
  ASSUME TypeInv
  PROVE  /\ queue \in Rows(Kinds, Payload) /\ inbox \in Rows(Workers, Payload)
         /\ IsFiniteSet(Deleting) /\ IsFiniteSet(BusyWorkers)
<1>1. Deleting \subseteq Workers /\ BusyWorkers \subseteq Workers
  BY DEF Deleting, BusyWorkers
<1>2. IsFiniteSet(Deleting) /\ IsFiniteSet(BusyWorkers)
  BY <1>1, FiniteFacts, FS_Subset
<1> QED
  BY <1>2 DEF TypeInv, TypeOK, Rows

LEMMA LoadTypes == TypeInv => LoadFacts
<1> SUFFICES ASSUME TypeInv PROVE LoadFacts
  OBVIOUS
<1>1. Deleting \subseteq BusyWorkers
  BY DEF Deleting, BusyWorkers, Busy
<1>2. Finishing \in Nat /\ Occupied \in Nat /\ Finishing <= Occupied
  BY <1>1, BrokerTypes, FS_Subset, FS_CardinalityType DEF Finishing, Occupied
<1>3. InQueues \in Nat /\ InInboxes \in Nat
  BY FiniteFacts, BrokerTypes, PlacesType DEF InQueues, InInboxes
<1>4. Waiting \in Nat /\ Entered \in Nat /\ Allowed \in Nat
  BY DEF TypeInv, TypeOK, Waiting, Entered, Allowed
<1>5. republished \in Nat /\ runs \in Nat /\ received \in Nat /\ Len(unconfirmed) \in Nat
  BY DEF TypeInv, TypeOK
<1>6. Load = Waiting + InQueues + InInboxes + (Entered - republished) - Finishing
  BY DEF Load, Waiting, InQueues, InInboxes, Entered, Finishing, Deleting
<1> QED
  BY <1>2, <1>3, <1>4, <1>5, <1>6 DEF LoadFacts

LEMMA LoadTypesNext == TypeInv' => LoadFacts'
BY LoadTypes, PTL

\* A goroutine moves on.
LEMMA GoroutineMoves ==
  ASSUME TypeInv, NEW w \in Workers, NEW label \in PCs, pc' = [pc EXCEPT ![w] = label]
  PROVE  /\ (label = "deleting" <=> pc[w] = "deleting") => Finishing' = Finishing
         /\ label = "deleting" /\ pc[w] # "deleting" => Finishing' = Finishing + 1
         /\ label # "deleting" /\ pc[w] = "deleting" => Finishing' = Finishing - 1
         /\ (label \in {"working", "deleting"} <=> Busy(w)) => Occupied' = Occupied
         /\ label \in {"working", "deleting"} /\ ~Busy(w) => Occupied' = Occupied + 1
         /\ label \notin {"working", "deleting"} /\ Busy(w) => Occupied' = Occupied - 1
<1>1. /\ pc \in [Workers -> PCs] /\ pc'[w] = label
      /\ \A x \in Workers : x # w => pc'[x] = pc[x]
  BY DEF TypeInv, TypeOK
<1>2. /\ Deleting' \ {w} = Deleting \ {w}
      /\ w \in Deleting' <=> label = "deleting"
      /\ w \in Deleting <=> pc[w] = "deleting"
  BY <1>1 DEF Deleting
<1>3. /\ BusyWorkers' \ {w} = BusyWorkers \ {w}
      /\ w \in BusyWorkers' <=> label \in {"working", "deleting"}
      /\ w \in BusyWorkers <=> Busy(w)
  BY <1>1 DEF BusyWorkers, Busy
<1>4. /\ (w \in Deleting' <=> w \in Deleting) => Finishing' = Finishing
      /\ w \in Deleting' /\ w \notin Deleting => Finishing' = Finishing + 1
      /\ w \notin Deleting' /\ w \in Deleting => Finishing' = Finishing - 1
  BY <1>2, BrokerTypes, OneMoves DEF Finishing
<1>5. /\ (w \in BusyWorkers' <=> w \in BusyWorkers) => Occupied' = Occupied
      /\ w \in BusyWorkers' /\ w \notin BusyWorkers => Occupied' = Occupied + 1
      /\ w \notin BusyWorkers' /\ w \in BusyWorkers => Occupied' = Occupied - 1
  BY <1>3, BrokerTypes, OneMoves DEF Occupied
<1> QED
  BY <1>2, <1>3, <1>4, <1>5

\* A message is published, or dropped by the broker.
LEMMA PublishLoad ==
  ASSUME TypeInv, NEW kind \in Kinds, NEW p \in Payload, Publish(kind, p)
  PROVE  InQueues' = InQueues \/ InQueues' = InQueues + 1
<1>1. queue \in Rows(Kinds, Payload) /\ IsFiniteSet(Kinds)
  BY BrokerTypes, FiniteFacts
<1>2. CASE UNCHANGED queue
  BY <1>2 DEF InQueues
<1>3. CASE queue' = [queue EXCEPT ![kind] = Append(@, p)]
  <2>1. queue' = Lengthened(queue, kind, p)
    BY <1>3 DEF Lengthened
  <2> QED
    BY <1>1, <2>1, PlacesLengthened DEF InQueues
<1> QED
  BY <1>2, <1>3 DEF Publish

\* What one worker does is worth no more work than it was given.
LEMMA LoadConsumer ==
  ASSUME TypeInv, TypeInv', JobsMatchWork, NEW w \in Workers, Consumer(w)
  PROVE  /\ Load' <= Load
         /\ Occupied <= Entered => Occupied' <= Entered'
         /\ UNCHANGED <<runs, received, unconfirmed, updates>>
<1>1. UNCHANGED <<runs, received, unconfirmed, updates, republished>>
  BY DEF Consumer, Setup, SetupFails, Take, Exit, FetchSucceeds, UploadDelivers,
         UploadRequeues, Fail, Interrupted, Delete, processVars, updateVars
<1>2. Waiting' = Waiting /\ republished' = republished
  BY <1>1 DEF Waiting
<1>3. LoadFacts /\ LoadFacts'
  BY LoadTypes, LoadTypesNext
<1>4. SUFFICES
        \/ /\ InQueues' = InQueues /\ InInboxes' = InInboxes /\ Entered' = Entered
           /\ Finishing' = Finishing /\ Occupied' = Occupied
        \/ /\ InQueues' = InQueues /\ InInboxes' = InInboxes /\ Entered' = Entered
           /\ Finishing' = Finishing /\ Occupied' = Occupied - 1
        \/ /\ InQueues' = InQueues /\ InInboxes = InInboxes' + 1 /\ Entered' = Entered + 1
           /\ Finishing' = Finishing /\ Occupied' = Occupied + 1
        \/ /\ InQueues' = InQueues \/ InQueues' = InQueues + 1
           /\ InInboxes' = InInboxes /\ Entered' = Entered
           /\ Finishing' = Finishing + 1 /\ Occupied' = Occupied
        \/ /\ InQueues' = InQueues /\ InInboxes' = InInboxes /\ Entered' = Entered - 1
           /\ Finishing' = Finishing - 1 /\ Occupied' = Occupied - 1
  <2> DEFINE u == Waiting
             p == republished
             q == InQueues
             q1 == InQueues'
             i == InInboxes
             i1 == InInboxes'
             l == Entered
             l1 == Entered'
             f == Finishing
             f1 == Finishing'
             b == Occupied
             b1 == Occupied'
  <2>1. /\ u \in Nat /\ p \in Nat /\ q \in Nat /\ i \in Nat /\ l \in Nat /\ f \in Nat
        /\ b \in Nat /\ q1 \in Nat /\ i1 \in Nat /\ l1 \in Nat /\ f1 \in Nat /\ b1 \in Nat
    BY <1>3 DEF LoadFacts
  <2>2. Load = u + q + i + (l - p) - f /\ Load' = u + q1 + i1 + (l1 - p) - f1
    BY <1>2, <1>3 DEF LoadFacts
  <2> HIDE DEF u, p, q, q1, i, i1, l, l1, f, f1, b, b1
  <2>3. \/ q1 = q /\ i1 = i /\ l1 = l /\ f1 = f /\ b1 = b
        \/ q1 = q /\ i1 = i /\ l1 = l /\ f1 = f /\ b1 = b - 1
        \/ q1 = q /\ i = i1 + 1 /\ l1 = l + 1 /\ f1 = f /\ b1 = b + 1
        \/ (q1 = q \/ q1 = q + 1) /\ i1 = i /\ l1 = l /\ f1 = f + 1 /\ b1 = b
        \/ q1 = q /\ i1 = i /\ l1 = l - 1 /\ f1 = f - 1 /\ b1 = b - 1
    BY <1>4 DEF q, q1, i, i1, l, l1, f, f1, b, b1
  <2>4. /\ u + q1 + i1 + (l1 - p) - f1 <= u + q + i + (l - p) - f
        /\ b <= l => b1 <= l1
    BY <2>1, <2>3
  <2>5. Occupied <= Entered => Occupied' <= Entered'
    BY <2>4 DEF b, b1, l, l1
  <2> QED
    BY <1>1, <2>2, <2>4, <2>5
<1>5. CASE Setup(w) \/ SetupFails(w) \/ Exit(w)
  <2>1. PICK label \in {"ready", "gone"} : pc' = [pc EXCEPT ![w] = label]
    BY <1>5 DEF Setup, SetupFails, Exit
  <2>2. pc[w] \in {"setup", "ready"} /\ UNCHANGED <<queue, inbox, Jobs>>
    BY <1>5 DEF Setup, SetupFails, Exit, brokerVars
  <2>3. Finishing' = Finishing /\ Occupied' = Occupied
    BY <2>1, <2>2, GoroutineMoves DEF PCs, Busy
  <2>4. InQueues' = InQueues /\ InInboxes' = InInboxes /\ Entered' = Entered
    BY <2>2 DEF InQueues, InInboxes, Entered
  <2> QED
    BY <2>3, <2>4
<1>6. CASE Take(w)
  <2>1. /\ inbox \in Rows(Workers, Payload) /\ IsFiniteSet(Workers)
        /\ Jobs \in Seq(Job)
    BY BrokerTypes, FiniteFacts DEF TypeInv, TypeOK
  <2>2. /\ Jobs' = Append(Jobs, JobOf(Kind(w), Head(inbox[w])))
        /\ pc[w] = "ready" /\ pc' = [pc EXCEPT ![w] = "working"] /\ UNCHANGED queue
    BY <1>6, <2>1 DEF Take
  <2>3. inbox[w] # << >> /\ inbox' = Shortened(inbox, w)
    BY <1>6 DEF Take, Shortened
  <2>4. InInboxes = InInboxes' + 1
    BY <2>1, <2>3, PlacesShortened DEF InInboxes
  <2>5. Entered' = Entered + 1
    BY <2>1, <2>2 DEF Entered
  <2>6. Finishing' = Finishing /\ Occupied' = Occupied + 1
    BY <2>2, GoroutineMoves DEF PCs, Busy
  <2>7. InQueues' = InQueues
    BY <2>2 DEF InQueues
  <2> QED
    BY <2>4, <2>5, <2>6, <2>7
<1>7. CASE FetchSucceeds(w) \/ UploadDelivers(w) \/ UploadRequeues(w)
  <2>1. /\ pc[w] = "working" /\ pc' = [pc EXCEPT ![w] = "deleting"]
        /\ UNCHANGED <<inbox, Jobs>>
    BY <1>7 DEF FetchSucceeds, UploadDelivers, UploadRequeues, Succeed
  <2>2. cur[w] \in Payload
    BY <2>1 DEF TypeInv, InHand, Busy
  <2>3. Finishing' = Finishing + 1 /\ Occupied' = Occupied
    BY <2>1, GoroutineMoves DEF PCs, Busy
  <2>4. InQueues' = InQueues \/ InQueues' = InQueues + 1
    <3>1. CASE FetchSucceeds(w)
      <4>1. [cur[w] EXCEPT !.format = TRUE] \in Payload /\ "uploading" \in Kinds
        BY <2>2 DEF Payload, Kinds
      <4> QED
        BY <3>1, <4>1, PublishLoad DEF FetchSucceeds
    <3>2. CASE UploadDelivers(w)
      BY <3>2 DEF UploadDelivers, InQueues
    <3>3. CASE UploadRequeues(w)
      <4>1. [cur[w] EXCEPT !.format = FALSE] \in Payload /\ "fetching" \in Kinds
        BY <2>2 DEF Payload, Kinds
      <4>2. queue \in Rows(Kinds, Payload) /\ IsFiniteSet(Kinds)
        BY BrokerTypes, FiniteFacts
      <4>3. queue' = Lengthened(queue, "fetching", [cur[w] EXCEPT !.format = FALSE])
        BY <3>3 DEF UploadRequeues, Lengthened
      <4> QED
        BY <4>1, <4>2, <4>3, PlacesLengthened DEF InQueues
    <3> QED
      BY <1>7, <3>1, <3>2, <3>3
  <2>5. InInboxes' = InInboxes /\ Entered' = Entered
    BY <2>1 DEF InInboxes, Entered
  <2> QED
    BY <2>3, <2>4, <2>5
<1>8. CASE Fail(w) \/ Interrupted(w)
  <2>1. /\ pc[w] = "working" /\ pc' = [pc EXCEPT ![w] = "ready"]
        /\ UNCHANGED <<inbox, Jobs, queue>>
    BY <1>8 DEF Fail, Interrupted, Abandon, brokerVars
  <2>2. Finishing' = Finishing /\ Occupied' = Occupied - 1
    BY <2>1, GoroutineMoves DEF PCs, Busy
  <2>3. InQueues' = InQueues /\ InInboxes' = InInboxes /\ Entered' = Entered
    BY <2>1 DEF InQueues, InInboxes, Entered
  <2> QED
    BY <2>2, <2>3
<1>9. CASE Delete(w)
  <2>1. /\ pc[w] = "deleting" /\ pc' = [pc EXCEPT ![w] = "ready"]
        /\ Jobs' = DeleteJob(Jobs, cur[w].video, Kind(w))
        /\ UNCHANGED <<inbox, queue>>
    BY <1>9 DEF Delete, brokerVars
  <2>2. /\ Jobs \in Seq(Job) /\ Busy(w) /\ Kind(w) \in Kinds
        /\ cur[w].video \in Videos
    BY <2>1, KindType DEF TypeInv, TypeOK, InHand, Busy, Payload
  <2>3. Entries(Jobs, cur[w].video, Kind(w)) # {}
    <3>1. w \in BusyWith(cur[w].video, Kind(w))
      BY <2>2 DEF BusyWith
    <3>2. /\ Cardinality(BusyWith(cur[w].video, Kind(w))) \in Nat
          /\ Cardinality(BusyWith(cur[w].video, Kind(w))) # 0
      BY <3>1, BusyFinite, FS_EmptySet
    <3>3. unfinished[<<cur[w].video, Kind(w)>>] \in Nat
      BY <2>2 DEF TypeInv, TypeOK
    <3>4. Cardinality(Entries(Jobs, cur[w].video, Kind(w))) =
            Cardinality(BusyWith(cur[w].video, Kind(w)))
              + unfinished[<<cur[w].video, Kind(w)>>]
      BY <2>2 DEF JobsMatchWork
    <3>5. Cardinality(Entries(Jobs, cur[w].video, Kind(w))) # 0
      BY <3>2, <3>3, <3>4
    <3> QED
      BY <3>5, FS_EmptySet
  <2>4. Entered' = Entered - 1
    BY <2>1, <2>2, <2>3, DeleteLength DEF Entered
  <2>5. Finishing' = Finishing - 1 /\ Occupied' = Occupied - 1
    BY <2>1, <2>2, GoroutineMoves DEF PCs
  <2>6. InQueues' = InQueues /\ InInboxes' = InInboxes
    BY <2>1 DEF InQueues, InInboxes
  <2> QED
    BY <2>4, <2>5, <2>6
<1> QED
  BY <1>5, <1>6, <1>7, <1>8, <1>9 DEF Consumer

\* What the other steps of a run may do to the numbers.
LEMMA LoadKept ==
  ASSUME TypeInv, TypeInv',
         UNCHANGED <<runs, received, unconfirmed, Jobs, pc>>,
         \/ /\ Waiting' = Waiting /\ republished' = republished
            /\ InQueues' = InQueues /\ InInboxes' = InInboxes
         \/ /\ Waiting' = Waiting /\ republished' = republished
            /\ InQueues' <= InQueues /\ InInboxes' <= InInboxes
         \/ /\ Waiting' = Waiting /\ republished' = republished
            /\ InQueues = InQueues' + 1 /\ InInboxes' = InInboxes + 1
         \/ /\ Waiting = Waiting' + 1 /\ republished' = republished
            /\ InQueues' = InQueues \/ InQueues' = InQueues + 1
            /\ InInboxes' = InInboxes
         \/ /\ Waiting' = Waiting /\ republished' = republished + 1
            /\ InQueues' = InQueues \/ InQueues' = InQueues + 1
            /\ InInboxes' = InInboxes
  PROVE  /\ Load' <= Load
         /\ Occupied <= Entered => Occupied' <= Entered'
<1> DEFINE u == Waiting
           u1 == Waiting'
           p == republished
           p1 == republished'
           q == InQueues
           q1 == InQueues'
           i == InInboxes
           i1 == InInboxes'
           l == Entered
           f == Finishing
<1>1. Entered' = Entered /\ Finishing' = Finishing /\ Occupied' = Occupied
  BY DEF Entered, Finishing, Occupied, Deleting, BusyWorkers, Busy
<1>2. /\ u \in Nat /\ p \in Nat /\ q \in Nat /\ i \in Nat /\ l \in Nat /\ f \in Nat
      /\ u1 \in Nat /\ p1 \in Nat /\ q1 \in Nat /\ i1 \in Nat
  BY LoadTypes, LoadTypesNext DEF LoadFacts
<1>3. Load = u + q + i + (l - p) - f /\ Load' = u1 + q1 + i1 + (l - p1) - f
  BY <1>1, LoadTypes, LoadTypesNext DEF LoadFacts
<1>4. \/ u1 = u /\ p1 = p /\ q1 = q /\ i1 = i
      \/ u1 = u /\ p1 = p /\ q1 <= q /\ i1 <= i
      \/ u1 = u /\ p1 = p /\ q = q1 + 1 /\ i1 = i + 1
      \/ u = u1 + 1 /\ p1 = p /\ (q1 = q \/ q1 = q + 1) /\ i1 = i
      \/ u1 = u /\ p1 = p + 1 /\ (q1 = q \/ q1 = q + 1) /\ i1 = i
  OBVIOUS
<1> HIDE DEF u, u1, p, p1, q, q1, i, i1, l, f
<1>5. u1 + q1 + i1 + (l - p1) - f <= u + q + i + (l - p) - f
  BY <1>2, <1>4
<1> QED
  BY <1>1, <1>3, <1>5

\* What the broker does to one consumer.
LEMMA LoadBroker ==
  ASSUME TypeInv, TypeInv', NEW w \in Workers, Broker(w)
  PROVE  /\ Load' <= Load
         /\ Occupied <= Entered => Occupied' <= Entered'
         /\ UNCHANGED <<runs, received, unconfirmed, updates>>
<1>1. UNCHANGED <<runs, received, unconfirmed, updates, republished, Jobs, pc>>
  BY DEF Broker, Deliver, CloseChannel, LoseChannel, DropInbox, workerVars,
         processVars, updateVars
<1>2. Waiting' = Waiting
  BY <1>1 DEF Waiting
<1>3. IsFiniteSet(Workers) /\ IsFiniteSet(Kinds) /\ Kind(w) \in Kinds
  BY FiniteFacts, KindType
<1>4. queue \in Rows(Kinds, Payload) /\ inbox \in Rows(Workers, Payload)
  BY BrokerTypes
<1>5. CASE Deliver(w)
  <2>1. /\ queue[Kind(w)] # << >> /\ queue' = Shortened(queue, Kind(w))
        /\ inbox' = Lengthened(inbox, w, Head(queue[Kind(w)]))
    BY <1>5 DEF Deliver, Shortened, Lengthened
  <2>2. Head(queue[Kind(w)]) \in Payload
    BY <1>3, <1>4, <2>1 DEF Rows
  <2>3. InQueues = InQueues' + 1
    BY <1>3, <1>4, <2>1, PlacesShortened DEF InQueues
  <2>4. InInboxes' = InInboxes + 1
    BY <1>3, <1>4, <2>1, <2>2, PlacesLengthened DEF InInboxes
  <2> QED
    BY <1>1, <1>2, <2>3, <2>4, LoadKept
<1>6. CASE CloseChannel(w) \/ LoseChannel(w)
  <2>1. InQueues' = InQueues /\ InInboxes' = InInboxes
    BY <1>6 DEF CloseChannel, LoseChannel, InQueues, InInboxes
  <2> QED
    BY <1>1, <1>2, <2>1, LoadKept
<1>7. CASE DropInbox(w)
  <2> DEFINE g == [inbox EXCEPT ![w] = << >>]
  <2>1. g \in Rows(Workers, Payload) /\ \A x \in Workers : Len(g[x]) <= Len(inbox[x])
    BY <1>4 DEF Rows
  <2>2. UNCHANGED queue /\ inbox' = g
    BY <1>7 DEF DropInbox
  <2> HIDE DEF g
  <2>3. Cardinality(Places(g)) <= Cardinality(Places(inbox))
    BY <1>3, <1>4, <2>1, PlacesFewer
  <2>4. InInboxes' <= InInboxes
    BY <2>2, <2>3 DEF InInboxes
  <2>5. InQueues' = InQueues /\ InQueues \in Nat
    BY <2>2, LoadTypes DEF InQueues, LoadFacts
  <2>6. InQueues' <= InQueues
    <3>1. InQueues <= InQueues
      BY <2>5
    <3> QED
      BY <2>5, <3>1
  <2> QED
    BY <1>1, <1>2, <2>4, <2>6, LoadKept
<1> QED
  BY <1>1, <1>5, <1>6, <1>7 DEF Broker

\* The broker forgets messages.
LEMMA LoadConnection ==
  ASSUME TypeInv, TypeInv', ConnectionEnds
  PROVE  /\ Load' <= Load
         /\ Occupied <= Entered => Occupied' <= Entered'
         /\ UNCHANGED <<runs, received, unconfirmed, updates>>
<1>1. /\ UNCHANGED <<runs, received, unconfirmed, updates, republished, Jobs, pc>>
      /\ UNCHANGED inbox
  BY DEF ConnectionEnds, LoseConnection, RestartBroker, workerVars, updateVars
<1>2. Waiting' = Waiting /\ InInboxes' = InInboxes
  BY <1>1 DEF Waiting, InInboxes
<1>3. queue \in Rows(Kinds, Payload) /\ IsFiniteSet(Kinds)
  BY BrokerTypes, FiniteFacts
<1>4. CASE UNCHANGED queue
  <2>1. InQueues' = InQueues
    BY <1>4 DEF InQueues
  <2> QED
    BY <1>1, <1>2, <2>1, LoadKept
<1>5. CASE queue' # queue
  <2>1. PICK g \in Rows(Kinds, Payload) :
               queue' = g /\ \A x \in Kinds : Len(g[x]) <= Len(queue[x])
    <3>1. CASE RestartBroker
      <4> DEFINE g == [k \in Kinds |-> << >>]
      <4>1. queue' = g
        BY <3>1 DEF RestartBroker
      <4>2. g \in Rows(Kinds, Payload) /\ \A x \in Kinds : Len(g[x]) <= Len(queue[x])
        BY <1>3 DEF Rows
      <4> HIDE DEF g
      <4> QED
        BY <4>1, <4>2
    <3>2. CASE LoseConnection
      <4>1. PICK k \in Kinds : queue[k] # << >> /\ queue' = [queue EXCEPT ![k] = Front(@)]
        BY <1>5, <3>2 DEF LoseConnection
      <4> DEFINE g == [queue EXCEPT ![k] = Front(@)]
      <4>2. queue[k] \in Seq(Payload)
        BY <1>3 DEF Rows
      <4>3. /\ Front(queue[k]) \in Seq(Payload)
            /\ Len(Front(queue[k])) = Len(queue[k]) - 1
        BY <4>1, <4>2, FrontProperties
      <4>4. g \in Rows(Kinds, Payload) /\ \A x \in Kinds : Len(g[x]) <= Len(queue[x])
        BY <1>3, <4>2, <4>3 DEF Rows
      <4>5. queue' = g
        BY <4>1
      <4> HIDE DEF g
      <4> QED
        BY <4>4, <4>5
    <3> QED
      BY <3>1, <3>2 DEF ConnectionEnds
  <2>2. InQueues' <= InQueues
    BY <1>3, <2>1, PlacesFewer DEF InQueues
  <2>3. InInboxes' <= InInboxes
    <3>1. InInboxes <= InInboxes
      BY LoadTypes DEF LoadFacts
    <3> QED
      BY <1>2, <3>1
  <2> QED
    BY <1>1, <1>2, <2>2, <2>3, LoadKept
<1> QED
  BY <1>1, <1>4, <1>5

\* A link that was read is one message at most.
LEMMA LoadUpdateWorker ==
  ASSUME TypeInv, TypeInv', NEW d \in UpdateWorkers, UpdateWorker(d)
  PROVE  /\ Load' <= Load
         /\ Occupied <= Entered => Occupied' <= Entered'
         /\ UNCHANGED <<runs, received, unconfirmed, phase>>
<1>1. /\ UNCHANGED <<runs, received, unconfirmed, republished, Jobs, pc, phase>>
      /\ UNCHANGED inbox
  BY DEF UpdateWorker, TakeCommand, DropLink, RefuseLink, AcceptLink, StopListening,
         workerVars, processVars, brokerVars
<1>2. InInboxes' = InInboxes
  BY <1>1 DEF InInboxes
<1>3. CASE StopListening(d)
  <2>1. Waiting' = Waiting /\ InQueues' = InQueues
    BY <1>3 DEF StopListening, Waiting, InQueues, brokerVars
  <2> QED
    BY <1>1, <1>2, <2>1, LoadKept
<1>4. CASE TakeCommand(d) \/ DropLink(d) \/ RefuseLink(d) \/ AcceptLink(d)
  <2>1. Waiting = Waiting' + 1
    <3>1. updates # << >> /\ updates' = Tail(updates)
      BY <1>4 DEF TakeCommand, DropLink, RefuseLink, AcceptLink
    <3>2. updates \in Seq(Links \cup Commands)
      BY DEF TypeInv, TypeOK
    <3> QED
      BY <3>1, <3>2 DEF Waiting
  <2>2. InQueues' = InQueues \/ InQueues' = InQueues + 1
    <3>1. CASE AcceptLink(d)
      <4> DEFINE r == Head(updates)
                 p == [video |-> r[2], chat |-> r[1], format |-> FALSE]
      <4>1. Publish("fetching", p) /\ r \in Links
        BY <3>1 DEF AcceptLink
      <4>2. p \in Payload /\ "fetching" \in Kinds
        BY <4>1, RequestTypes DEF Kinds
      <4> HIDE DEF p
      <4> QED
        BY <4>1, <4>2, PublishLoad
    <3>2. CASE ~AcceptLink(d)
      BY <1>4, <3>2 DEF TakeCommand, DropLink, RefuseLink, brokerVars, InQueues
    <3> QED
      BY <3>1, <3>2
  <2> QED
    BY <1>1, <1>2, <2>1, <2>2, LoadKept
<1> QED
  BY <1>1, <1>3, <1>4 DEF UpdateWorker

LEMMA LoadPreserved ==
  ASSUME TypeInv, TypeInv', LoadInv, UNCHANGED <<runs, received, unconfirmed>>,
         Load' <= Load, Occupied <= Entered => Occupied' <= Entered',
         phase' = "down" => updates' = << >>
  PROVE  LoadInv'
<1> DEFINE a == Load
           b == Load'
           c == Allowed
<1>1. a \in Int /\ b \in Int /\ c \in Nat /\ a <= c /\ Allowed' = c
  BY LoadTypes, LoadTypesNext DEF LoadFacts, LoadInv, NoAmplification, Allowed
<1>2. b <= a
  OBVIOUS
<1> HIDE DEF a, b, c
<1>3. b <= c
  BY <1>1, <1>2
<1>4. NoAmplification'
  BY <1>1, <1>3 DEF b, NoAmplification, Allowed
<1> QED
  BY <1>4 DEF LoadInv

\* A process that dies leaves what the broker has.
LEMMA LoadDie ==
  ASSUME TypeInv, TypeInv', QuietInv, LoadInv, NEW inMemory, Die(inMemory),
         UNCHANGED <<queue, runs, received, unconfirmed>>
  PROVE  LoadInv'
<1>1. /\ inbox' = [w \in Workers |-> << >>] /\ Jobs' = << >> /\ republished' = 0
      /\ pc' = [w \in Workers |-> "gone"] /\ updates' = << >>
  BY DEF Die
<1>2. Deleting' = {} /\ BusyWorkers' = {} /\ Places(inbox') = {}
  BY <1>1 DEF Deleting, BusyWorkers, Busy, Places
<1>3. /\ Finishing' = 0 /\ Occupied' = 0 /\ InInboxes' = 0
      /\ Entered' = 0 /\ Waiting' = 0
  BY <1>1, <1>2, FS_EmptySet DEF Finishing, Occupied, InInboxes, Entered, Waiting
<1>4. InQueues' = InQueues
  BY DEF InQueues
<1> DEFINE u == Waiting
           p == republished
           q == InQueues
           i == InInboxes
           l == Entered
           f == Finishing
<1>5. /\ u \in Nat /\ p \in Nat /\ q \in Nat /\ i \in Nat /\ l \in Nat /\ f \in Nat
      /\ Load = u + q + i + (l - p) - f
  BY LoadTypes DEF LoadFacts
<1>6. Load' = q
  <2>1. Load' = 0 + InQueues + 0 + (0 - 0) - 0 /\ InQueues \in Nat
    BY <1>1, <1>3, <1>4, LoadTypes, LoadTypesNext DEF LoadFacts
  <2> QED
    BY <2>1
<1>7. p + f <= l
  <2>1. CASE phase = "running"
    <3>1. p = 0
      BY <2>1 DEF QuietInv, PhaseInv
    <3>2. f <= Occupied /\ Occupied <= l /\ Occupied \in Nat
      BY LoadTypes DEF LoadFacts, LoadInv
    <3> QED
      BY <1>5, <3>1, <3>2
  <2>2. CASE phase # "running"
    <3>1. (\A w \in Workers : pc[w] = "gone") /\ p <= l
      BY <2>2 DEF QuietInv, QuietWhenNotRunning, Entered
    <3>2. Deleting = {}
      BY <3>1 DEF Deleting
    <3>3. f = 0
      BY <3>2, FS_EmptySet DEF Finishing
    <3> QED
      BY <1>5, <3>1, <3>3
  <2> QED
    BY <2>1, <2>2
<1> HIDE DEF u, p, q, i, l, f
<1>8. q <= u + q + i + (l - p) - f
  BY <1>5, <1>7
<1>9. Load' <= Load
  BY <1>5, <1>6, <1>8
<1>10. Occupied' <= Entered'
  BY <1>3
<1> QED
  BY <1>1, <1>9, <1>10, LoadPreserved

\* An update is one piece of work in every run.
LEMMA LoadReceive ==
  ASSUME TypeInv, TypeInv', QuietInv, LoadInv, ReceiveUpdate
  PROVE  LoadInv'
<1>1. /\ UNCHANGED <<runs, republished, Jobs, pc, inbox, queue, phase>>
      /\ received' = received + 1 /\ phase = "running"
  BY DEF ReceiveUpdate, workerVars, processVars, brokerVars
<1>2. /\ updates \in Seq(Links \cup Commands) /\ unconfirmed \in Seq(Links \cup Commands)
  BY DEF TypeInv, TypeOK
<1>3. PICK x \in Links \cup Commands :
             /\ updates' = Append(updates, x)
             /\ unconfirmed' \in {<< >>, <<x>>, Append(unconfirmed, x)}
  BY DEF ReceiveUpdate
<1>4. Waiting' = Waiting + 1
  BY <1>2, <1>3 DEF Waiting
<1>5. /\ InQueues' = InQueues /\ InInboxes' = InInboxes /\ Entered' = Entered
      /\ Finishing' = Finishing /\ Occupied' = Occupied /\ republished' = republished
  BY <1>1 DEF InQueues, InInboxes, Entered, Finishing, Occupied, Deleting,
              BusyWorkers, Busy
<1> DEFINE u == Waiting
           p == republished
           q == InQueues
           i == InInboxes
           l == Entered
           f == Finishing
           r == runs
           n == received
<1>6. /\ u \in Nat /\ p \in Nat /\ q \in Nat /\ i \in Nat /\ l \in Nat /\ f \in Nat
      /\ r \in Nat /\ n \in Nat /\ Load = u + q + i + (l - p) - f
      /\ r > 0 /\ Load <= r * n
  BY LoadTypes DEF LoadFacts, LoadInv, NoAmplification
<1>7. Load' = (u + 1) + q + i + (l - p) - f
  BY <1>4, <1>5, LoadTypesNext DEF LoadFacts
<1> HIDE DEF u, p, q, i, l, f, r, n
<1>8. (u + 1) + q + i + (l - p) - f <= r * (n + 1)
  <2>1. r * (n + 1) = r * n + r /\ r * n \in Nat
    BY <1>6
  <2>2. u + q + i + (l - p) - f <= r * n
    BY <1>6
  <2> DEFINE m == r * n
  <2> HIDE DEF m
  <2>3. (u + 1) + q + i + (l - p) - f <= m + r
    BY <1>6, <2>1, <2>2 DEF m
  <2> QED
    BY <2>1, <2>3 DEF m
<1>9. NoAmplification'
  BY <1>1, <1>7, <1>8 DEF NoAmplification, r, n
<1>10. Len(unconfirmed') <= received'
  <2> DEFINE k == Len(unconfirmed)
             k1 == Len(unconfirmed')
  <2>1. k \in Nat /\ k <= n
    BY <1>2 DEF LoadInv, n
  <2>2. k1 \in {0, 1, k + 1}
    BY <1>2, <1>3
  <2> HIDE DEF k, k1
  <2>3. k1 <= n + 1
    BY <1>6, <2>1, <2>2
  <2> QED
    BY <1>1, <2>3 DEF k1, n
<1> QED
  BY <1>1, <1>5, <1>9, <1>10 DEF LoadInv

\* A new process finds what the last one left with Telegram, at most all of it.
LEMMA LoadRestart ==
  ASSUME TypeInv, TypeInv', QuietInv, LoadInv, Restart
  PROVE  LoadInv'
<1>1. /\ UNCHANGED <<received, republished, Jobs, inbox, queue>>
      /\ runs' = runs + 1 /\ phase = "down" /\ phase' = "running"
      /\ pc' = [w \in Workers |-> "setup"]
      /\ updates' = unconfirmed /\ unconfirmed' \in {unconfirmed, << >>}
  BY DEF Restart, brokerVars
<1>2. Deleting' = {} /\ BusyWorkers' = {}
  BY <1>1 DEF Deleting, BusyWorkers, Busy
<1>3. Deleting = {} /\ updates = << >>
  BY <1>1 DEF Deleting, QuietInv, QuietWhenNotRunning, LoadInv
<1>4. /\ InQueues' = InQueues /\ InInboxes' = InInboxes /\ Entered' = Entered
      /\ Finishing' = 0 /\ Finishing = 0 /\ Occupied' = 0
      /\ Waiting = 0 /\ Waiting' = Len(unconfirmed)
  BY <1>1, <1>2, <1>3, FS_EmptySet
     DEF InQueues, InInboxes, Entered, Finishing, Occupied, Waiting
<1> DEFINE k == Len(unconfirmed)
           p == republished
           q == InQueues
           i == InInboxes
           l == Entered
           r == runs
           n == received
<1>5. /\ k \in Nat /\ p \in Nat /\ q \in Nat /\ i \in Nat /\ l \in Nat
      /\ r \in Nat /\ n \in Nat /\ k <= n /\ r > 0
  BY LoadTypes DEF LoadFacts, LoadInv
<1>6. 0 + q + i + (l - p) - 0 <= r * n
  BY <1>4, LoadTypes DEF LoadFacts, LoadInv, NoAmplification
<1>7. Load' = k + q + i + (l - p) - 0
  BY <1>1, <1>4, LoadTypesNext DEF LoadFacts
<1>8. Occupied' <= Entered'
  BY <1>4, <1>5
<1>9. Len(unconfirmed') <= received'
  <2>1. CASE unconfirmed' = unconfirmed
    BY <1>1, <1>5, <2>1
  <2>2. CASE unconfirmed' = << >>
    BY <1>1, <1>5, <2>2
  <2> QED
    BY <1>1, <2>1, <2>2
<1>10. runs' > 0
  BY <1>1, <1>5
<1> HIDE DEF k, p, q, i, l, r, n
<1>11. k + q + i + (l - p) - 0 <= (r + 1) * n
  <2> DEFINE m == r * n
  <2>1. (r + 1) * n = m + n /\ m \in Nat
    BY <1>5
  <2>2. 0 + q + i + (l - p) - 0 <= m
    BY <1>6
  <2> HIDE DEF m
  <2>3. k + q + i + (l - p) - 0 <= m + n
    BY <1>5, <2>1, <2>2
  <2> QED
    BY <2>1, <2>3
<1>12. NoAmplification'
  BY <1>1, <1>7, <1>11 DEF NoAmplification, r, n
<1> QED
  BY <1>1, <1>8, <1>9, <1>10, <1>12 DEF LoadInv

LEMMA LoadInit == Init => LoadInv
<1> SUFFICES ASSUME Init PROVE LoadInv
  OBVIOUS
<1>1. /\ updates = << >> /\ Jobs = << >> /\ republished = 0 /\ runs = 1
      /\ received = 0 /\ unconfirmed = << >> /\ phase = "running"
  BY DEF Init
<1>2. /\ Deleting = {} /\ BusyWorkers = {} /\ Places(queue) = {} /\ Places(inbox) = {}
  BY DEF Init, Deleting, BusyWorkers, Busy, Places
<1>3. /\ Waiting = 0 /\ InQueues = 0 /\ InInboxes = 0 /\ Entered = 0
      /\ Finishing = 0 /\ Occupied = 0
  BY <1>1, <1>2, FS_EmptySet
     DEF Waiting, InQueues, InInboxes, Entered, Finishing, Occupied
<1>4. Load = 0
  BY <1>1, <1>3 DEF Load, Waiting, InQueues, InInboxes, Entered, Finishing, Deleting
<1> QED
  BY <1>1, <1>3, <1>4 DEF LoadInv, NoAmplification

LEMMA LoadStep ==
  TypeInv /\ TypeInv' /\ QuietInv /\ JobsMatchWork /\ LoadInv /\ [Next]_vars => LoadInv'
<1> SUFFICES ASSUME TypeInv, TypeInv', QuietInv, JobsMatchWork, LoadInv, [Next]_vars
             PROVE  LoadInv'
  OBVIOUS
<1>1. CASE ReceiveUpdate
  BY <1>1, LoadReceive
<1>2. CASE \E d \in UpdateWorkers : UpdateWorker(d)
  <2>1. PICK d \in UpdateWorkers : UpdateWorker(d)
    BY <1>2
  <2>2. phase' # "down"
    <3>1. phase = "running"
      BY <2>1 DEF UpdateWorker, TakeCommand, DropLink, RefuseLink, AcceptLink,
                  StopListening, QuietInv, QuietWhenNotRunning
    <3> QED
      BY <2>1, <3>1, LoadUpdateWorker
  <2> QED
    BY <2>1, <2>2, LoadUpdateWorker, LoadPreserved
<1>3. CASE \E w \in Workers : Consumer(w) \/ Broker(w)
  <2>1. PICK w \in Workers : Consumer(w) \/ Broker(w)
    BY <1>3
  <2>2. phase' = phase
    BY <2>1 DEF Consumer, Setup, SetupFails, Take, Exit, FetchSucceeds, UploadDelivers,
                UploadRequeues, Fail, Interrupted, Delete, Broker, Deliver,
                CloseChannel, LoseChannel, DropInbox, processVars
  <2> QED
    BY <2>1, <2>2, LoadConsumer, LoadBroker, LoadPreserved DEF LoadInv
<1>4. CASE ConnectionEnds
  <2>1. phase' = phase
    BY <1>4 DEF ConnectionEnds, LoseConnection, RestartBroker
  <2> QED
    BY <1>4, <2>1, LoadConnection, LoadPreserved DEF LoadInv
<1>5. CASE RepublishJob
  <2>1. /\ UNCHANGED <<runs, received, unconfirmed, Jobs, pc, inbox, updates, phase>>
        /\ republished' = republished + 1
    BY <1>5 DEF RepublishJob, workerVars, updateVars
  <2>2. Waiting' = Waiting /\ InInboxes' = InInboxes
    BY <2>1 DEF Waiting, InInboxes
  <2>3. InQueues' = InQueues \/ InQueues' = InQueues + 1
    <3> DEFINE j == Jobs[republished + 1]
    <3>1. j \in Job
      <4>1. Jobs \in Seq(Job) /\ republished \in Nat /\ republished < Len(Jobs)
        BY <1>5 DEF RepublishJob, TypeInv, TypeOK
      <4>2. republished + 1 \in 1..Len(Jobs)
        BY <4>1
      <4> QED
        BY <4>1, <4>2
    <3>2. PayloadOf(j) \in Payload /\ j.kind \in Kinds
      BY <3>1, RequestTypes DEF Job
    <3>3. Publish(j.kind, PayloadOf(j)) \/ UNCHANGED queue
      BY <1>5 DEF RepublishJob
    <3>4. ASSUME UNCHANGED queue PROVE InQueues' = InQueues
      BY <3>4 DEF InQueues
    <3> HIDE DEF j
    <3> QED
      BY <3>2, <3>3, <3>4, PublishLoad
  <2>4. Load' <= Load /\ (Occupied <= Entered => Occupied' <= Entered')
    BY <2>1, <2>2, <2>3, LoadKept
  <2> QED
    BY <2>1, <2>4, LoadPreserved DEF LoadInv
<1>6. CASE EndFinalization \/ FinalizationFails \/ Crash
  <2>1. PICK inMemory \in {{}, Requests(Jobs), InMemory} : Die(inMemory)
    BY <1>6 DEF EndFinalization, FinalizationFails, Crash
  <2>2. UNCHANGED <<queue, runs, received, unconfirmed>>
    BY <1>6 DEF EndFinalization, FinalizationFails, Crash
  <2> QED
    BY <2>1, <2>2, LoadDie
<1>7. CASE Restart
  BY <1>7, LoadRestart
<1>8. CASE StopPolling \/ BeginFinalization \/ Interrupt \/ UNCHANGED vars
  <2>1. UNCHANGED <<runs, received, unconfirmed, Jobs, pc, inbox, queue, updates,
                    republished>>
    BY <1>8 DEF StopPolling, BeginFinalization, Interrupt, vars, workerVars, brokerVars,
                processVars, updateVars
  <2>2. /\ Waiting' = Waiting /\ InInboxes' = InInboxes /\ InQueues' = InQueues
        /\ republished' = republished
    BY <2>1 DEF Waiting, InInboxes, InQueues
  <2>3. Load' <= Load /\ (Occupied <= Entered => Occupied' <= Entered')
    BY <2>1, <2>2, LoadKept
  <2>4. phase' = "down" => phase = "down"
    BY <1>8 DEF StopPolling, BeginFinalization, Interrupt, vars, processVars
  <2> QED
    BY <2>1, <2>3, <2>4, LoadPreserved DEF LoadInv
<1> QED
  BY <1>1, <1>2, <1>3, <1>4, <1>5, <1>6, <1>7, <1>8 DEF Next, Finalization

\* However many messages, restarts, crashes and failures of the broker: the
\* updates, messages and jobs still to be done are at most one per update ever
\* received and run of the process, so what upload sends back, finalization
\* republishes and Telegram repeats never multiplies.
THEOREM DispatcherNoAmplification == Spec => []NoAmplification
<1>1. LoadInv => NoAmplification
  BY DEF LoadInv
<1>2. Spec => [](TypeInv /\ QuietInv /\ JobsMatchWork)
  BY TypeInvariant, QuietInvariant, DispatcherJobsMatchWork, PTL
<1> QED
  BY <1>1, <1>2, LoadInit, LoadStep, PTL DEF Spec

=============================================================================
