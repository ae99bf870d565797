----------------------------- MODULE Dispatcher -----------------------------
(***************************************************************************)
(* Dispatcher.Run (internal/bot/server.go): the life of the bot process,   *)
(* its update workers, its fetching and uploading consumers, the list of   *)
(* jobs they share, graceful shutdown with the republishing of unfinished  *)
(* jobs, crashes and restarts.  The bodies of handleMessage, fetch and     *)
(* upload are reduced here to what they publish, send and return; Media    *)
(* and Session model them step by step.                                    *)
(***************************************************************************)
EXTENDS JobList

CONSTANTS
    Links,           \* the <<chat, video>> requests users may send
    Commands,        \* bot commands users may send, such as start
    FetchWorkers,    \* goroutines running consumingVideoFetching
    UploadWorkers,   \* goroutines running consumingVideoUploading
    UpdateWorkers,   \* goroutines running dispatchingMessages
    Faults,          \* what may go wrong around the process (below)
    QueuesAtStart,   \* queues that exist before the first run of the bot
    MaxUpdates,      \* bound: Telegram updates received over all runs
    MaxRuns,         \* bound: times the process is started
    None             \* no payload in hand

FaultKinds ==
    {"interrupt",   \* SIGINT or SIGTERM
     "crash",       \* the process dies without running finalization
     "setup",       \* a consumer cannot open its channel, queue or consumer
     "session",     \* the session backend cannot be read
     "parse",       \* YouTube or the broker rejects a link
     "fetch",       \* an error inside fetch
     "upload",      \* an error inside upload
     "evicted",     \* upload finds the metadata row or the object missing
     "send",        \* Telegram does not take an error message
     "redelivery",  \* the process ends before the next poll of Telegram
     "channel",     \* the broker closes the channel of a consumer
     "connection",  \* the connection to the broker ends
     "broker",      \* the broker restarts
     "finalize"}    \* the broker fails during finalization

ASSUME ConstantsOK ==
    /\ Links \subseteq Request
    /\ Commands \cap Request = {}
    /\ IsFiniteSet(FetchWorkers) /\ IsFiniteSet(UploadWorkers)
    /\ FetchWorkers \cap UploadWorkers = {}
    /\ Faults \subseteq FaultKinds
    /\ QueuesAtStart \subseteq Kinds
    /\ MaxUpdates \in Nat /\ MaxRuns \in Nat
    /\ None \notin Payload

Workers == FetchWorkers \cup UploadWorkers
Kind(w) == IF w \in FetchWorkers THEN "fetching" ELSE "uploading"

VARIABLES
    \* the broker
    declared,    \* queues that exist
    queue,       \* messages each queue still holds
    open,        \* consumers whose channel is open
    inbox,       \* messages pushed to a consumer, already acknowledged
    \* the process
    phase,       \* "running", "finalizing" or "down"
    ctxDone,     \* the context of Run has been cancelled
    connected,   \* the AMQP connection, opened once when the process starts
    pc,          \* where each consumer goroutine is
    cur,         \* the payload a consumer is processing
    Jobs,        \* Dispatcher.Jobs
    republished, \* how many jobs finalization has gone through
    runs,        \* processes started so far
    \* Telegram updates
    updates,     \* the buffered updates channel
    polling,     \* the updates channel is not closed yet
    listening,   \* update workers still ranging over the channel
    received,    \* updates received so far
    unconfirmed, \* updates that no later poll of this process confirms
    \* history, read by properties only
    accepted,    \* requests whose message was handed to the broker
    delivered,   \* requests whose video Telegram took
    apologised,  \* requests answered with SendingMessageError
    ignored,     \* requests whose chat was not even sent an error
    lost,        \* requests dropped by the broker or with the process
    unfinished   \* per <<video, kind>>, jobs of this run that did not finish

brokerVars  == <<declared, queue, open, inbox>>
workerVars  == <<pc, cur, Jobs>>
processVars == <<phase, ctxDone, connected, republished, runs>>
updateVars  == <<updates, polling, listening, received, unconfirmed>>
answerVars  == <<accepted, delivered, apologised, ignored>>
vars == <<brokerVars, workerVars, processVars, updateVars, answerVars, lost,
          unfinished>>

PCs == {"setup", "ready", "working", "deleting", "gone"}

\* A consumer with a message in hand.
Busy(w) == pc[w] \in {"working", "deleting"}

TypeOK ==
    /\ declared \subseteq Kinds
    /\ queue \in [Kinds -> Seq(Payload)]
    /\ open \subseteq Workers
    /\ inbox \in [Workers -> Seq(Payload)]
    /\ phase \in {"running", "finalizing", "down"}
    /\ ctxDone \in BOOLEAN
    /\ connected \in BOOLEAN
    /\ pc \in [Workers -> PCs]
    /\ cur \in [Workers -> Payload \cup {None}]
    /\ Jobs \in Seq(Job)
    /\ republished \in Nat
    /\ runs \in Nat
    /\ updates \in Seq(Links \cup Commands)
    /\ polling \in BOOLEAN
    /\ listening \subseteq UpdateWorkers
    /\ received \in Nat
    /\ unconfirmed \in Seq(Links \cup Commands)
    /\ accepted \subseteq Links
    /\ delivered \subseteq Request
    /\ apologised \subseteq Request
    /\ ignored \subseteq Request
    /\ lost \subseteq Request
    /\ unfinished \in [Videos \X Kinds -> Nat]

-----------------------------------------------------------------------------
\* Run starts every goroutine; the broker keeps what it held.
Init ==
    /\ declared = QueuesAtStart
    /\ queue = [k \in Kinds |-> << >>]
    /\ open = {}
    /\ inbox = [w \in Workers |-> << >>]
    /\ phase = "running"
    /\ ctxDone = FALSE
    /\ connected = TRUE
    /\ pc = [w \in Workers |-> "setup"]
    /\ cur = [w \in Workers |-> None]
    /\ Jobs = << >>
    /\ republished = 0
    /\ runs = 1
    /\ updates = << >>
    /\ polling = TRUE
    /\ listening = UpdateWorkers
    /\ received = 0
    /\ unconfirmed = << >>
    /\ accepted = {} /\ delivered = {} /\ apologised = {} /\ ignored = {}
    /\ lost = {}
    /\ unfinished = [x \in Videos \X Kinds |-> 0]

\* The default exchange silently drops a message for a queue that nobody has
\* declared: the code publishes with mandatory = false.
Publish(kind, p) ==
    \/ /\ kind \in declared
       /\ queue' = [queue EXCEPT ![kind] = Append(@, p)]
       /\ UNCHANGED lost
    \/ /\ kind \notin declared
       /\ lost' = lost \cup {RequestOf(p)}
       /\ UNCHANGED queue

\* The requests the queues of the broker hold.
Queued == UNION {Requests(queue[k]) : k \in Kinds}

\* Sending SendingMessageError to the chat; a failure of that is only logged.
Apologise(request) ==
    \/ /\ apologised' = apologised \cup {request}
       /\ UNCHANGED ignored
    \/ /\ "send" \in Faults
       /\ ignored' = ignored \cup {request}
       /\ UNCHANGED apologised

-----------------------------------------------------------------------------
(* The Telegram client: a goroutine that polls and fills a channel.        *)

\* A user writes to the bot.  A poll confirms what the one before it returned,
\* so this update will be confirmed, or it is the first of the last answer this
\* process gets, or one more of that answer.
ReceiveUpdate ==
    /\ phase = "running" /\ polling
    /\ received < MaxUpdates
    /\ \E u \in Links \cup Commands :
           /\ updates' = Append(updates, u)
           /\ \/ unconfirmed' = << >>
              \/ /\ "redelivery" \in Faults
                 /\ unconfirmed' \in {<<u>>, Append(unconfirmed, u)}
    /\ received' = received + 1
    /\ UNCHANGED <<brokerVars, workerVars, processVars, polling, listening,
                   answerVars, lost, unfinished>>

\* StopReceivingUpdates: the client closes the channel; what it buffered can
\* still be read.
StopPolling ==
    /\ phase = "running" /\ polling
    /\ ctxDone
    /\ polling' = FALSE
    /\ UNCHANGED <<brokerVars, workerVars, processVars, updates, listening,
                   received, unconfirmed, answerVars, lost, unfinished>>

-----------------------------------------------------------------------------
(* dispatchingMessages, run by each update worker.                         *)

\* Any command, whether answered or not, makes the worker return.
TakeCommand(d) ==
    /\ d \in listening
    /\ updates # << >> /\ Head(updates) \in Commands
    /\ updates' = Tail(updates)
    /\ listening' = listening \ {d}
    /\ UNCHANGED <<brokerVars, workerVars, processVars, polling, received,
                   unconfirmed, answerVars, lost, unfinished>>

\* handleMessage returns an error that is only logged: the session cannot be
\* read, as it never can once the context is cancelled.
DropLink(d) ==
    /\ d \in listening
    /\ updates # << >> /\ Head(updates) \in Links
    /\ "session" \in Faults \/ ctxDone
    /\ ignored' = ignored \cup {Head(updates)}
    /\ updates' = Tail(updates)
    /\ UNCHANGED <<brokerVars, workerVars, processVars, polling, listening,
                   received, unconfirmed, accepted, delivered, apologised,
                   lost, unfinished>>

\* ParsingAction.Execute fails to read the video or to publish.
RefuseLink(d) ==
    /\ d \in listening
    /\ updates # << >> /\ Head(updates) \in Links
    /\ "parse" \in Faults \/ ctxDone \/ ~connected
    /\ Apologise(Head(updates))
    /\ updates' = Tail(updates)
    /\ UNCHANGED <<brokerVars, workerVars, processVars, polling, listening,
                   received, unconfirmed, accepted, delivered, lost,
                   unfinished>>

\* ParsingAction.Execute publishes the video id without declaring the queue: in a
\* new process no consumer need have done so yet.
AcceptLink(d) ==
    /\ d \in listening
    /\ updates # << >> /\ Head(updates) \in Links
    /\ connected
    /\ LET r == Head(updates) IN
       /\ Publish("fetching",
                  [video |-> r[2], chat |-> r[1], format |-> FALSE])
       /\ accepted' = accepted \cup {r}
    /\ updates' = Tail(updates)
    /\ UNCHANGED <<declared, open, inbox, workerVars, processVars, polling,
                   listening, received, unconfirmed, delivered, apologised,
                   ignored, unfinished>>

\* The range over the closed channel ends.
StopListening(d) ==
    /\ d \in listening
    /\ ~polling /\ updates = << >>
    /\ listening' = listening \ {d}
    /\ UNCHANGED <<brokerVars, workerVars, processVars, updates, polling,
                   received, unconfirmed, answerVars, lost, unfinished>>

-----------------------------------------------------------------------------
(* consumingVideoFetching and consumingVideoUploading, one per consumer.   *)

\* Open a channel, declare the queue and start consuming.
Setup(w) ==
    /\ pc[w] = "setup"
    /\ connected
    /\ pc' = [pc EXCEPT ![w] = "ready"]
    /\ declared' = declared \cup {Kind(w)}
    /\ open' = open \cup {w}
    /\ UNCHANGED <<queue, inbox, cur, Jobs, processVars, updateVars,
                   answerVars, lost, unfinished>>

\* One of the three calls fails, before or after the queue is declared: the
\* goroutine returns the error and Run cancels the context of all of them.
SetupFails(w) ==
    /\ "setup" \in Faults \/ ~connected
    /\ pc[w] = "setup"
    /\ pc' = [pc EXCEPT ![w] = "gone"]
    /\ declared' \in {declared, declared \cup {Kind(w)}}
    /\ ctxDone' = TRUE
    /\ UNCHANGED <<queue, open, inbox, cur, Jobs, phase, connected, republished,
                   runs, updateVars, answerVars, lost, unfinished>>

\* The broker pushes messages as soon as a consumer is open: no Qos limit is
\* set, and autoAck makes the push the acknowledgement.
Deliver(w) ==
    LET k == Kind(w) IN
    /\ w \in open
    /\ queue[k] # << >>
    /\ inbox' = [inbox EXCEPT ![w] = Append(@, Head(queue[k]))]
    /\ queue' = [queue EXCEPT ![k] = Tail(@)]
    /\ UNCHANGED <<declared, open, workerVars, processVars, updateVars,
                   answerVars, lost, unfinished>>

\* Mutant of CloseChannel: the channel is closed once every worker returned.
CloseChannelAtTheEnd(w) ==
    /\ phase = "finalizing" /\ w \in open
    /\ open' = open \ {w}
    /\ UNCHANGED <<declared, queue, inbox, workerVars, processVars,
                   updateVars, answerVars, lost, unfinished>>

\* The goroutine that waits for the context closes the consumer's channel.
CloseChannel(w) ==
    /\ ctxDone /\ w \in open
    /\ open' = open \ {w}
    /\ UNCHANGED <<declared, queue, inbox, workerVars, processVars,
                   updateVars, answerVars, lost, unfinished>>

\* The broker closes the channel: no cancellation, so the worker will just find
\* its range at an end, and nobody starts another one.
LoseChannel(w) ==
    /\ "channel" \in Faults
    /\ w \in open
    /\ open' = open \ {w}
    /\ UNCHANGED <<declared, queue, inbox, workerVars, processVars,
                   updateVars, answerVars, lost, unfinished>>

\* The connection ends, and every channel with it; the code never reconnects.
\* It publishes without confirms, so the broker may not have got the last
\* message.
LoseConnection ==
    /\ "connection" \in Faults
    /\ connected
    /\ connected' = FALSE
    /\ open' = {}
    /\ \/ UNCHANGED <<queue, lost>>
       \/ \E k \in Kinds :
              /\ queue[k] # << >>
              /\ queue' = [queue EXCEPT ![k] = Front(@)]
              /\ lost' = lost \cup {RequestOf(Last(queue[k]))}
    /\ UNCHANGED <<declared, inbox, workerVars, phase, ctxDone, republished,
                   runs, updateVars, answerVars, unfinished>>

\* The broker restarts: its queues are durable, the messages, published
\* without a persistent delivery mode, are not.
RestartBroker ==
    /\ "broker" \in Faults
    /\ connected' = FALSE
    /\ open' = {}
    /\ queue' = [k \in Kinds |-> << >>]
    /\ lost' = lost \cup Queued
    /\ UNCHANGED <<declared, inbox, workerVars, phase, ctxDone, republished,
                   runs, updateVars, answerVars, unfinished>>

ConnectionEnds == LoseConnection \/ RestartBroker

\* The client library forgets what was pushed to a consumer now closed.
DropInbox(w) ==
    /\ pc[w] # "setup" /\ w \notin open
    /\ inbox[w] # << >>
    /\ inbox' = [inbox EXCEPT ![w] = << >>]
    /\ lost' = lost \cup Requests(inbox[w])
    /\ UNCHANGED <<declared, queue, open, workerVars, processVars,
                   updateVars, answerVars, unfinished>>

\* Receive the next message and record it in Jobs.
Take(w) ==
    /\ pc[w] = "ready"
    /\ inbox[w] # << >>
    /\ pc' = [pc EXCEPT ![w] = "working"]
    /\ cur' = [cur EXCEPT ![w] = Head(inbox[w])]
    /\ inbox' = [inbox EXCEPT ![w] = Tail(@)]
    /\ Jobs' = Append(Jobs, JobOf(Kind(w), Head(inbox[w])))
    /\ UNCHANGED <<declared, queue, open, processVars, updateVars,
                   answerVars, lost, unfinished>>

\* The messages channel is closed and drained: the range ends.
Exit(w) ==
    /\ pc[w] = "ready"
    /\ w \notin open /\ inbox[w] = << >>
    /\ pc' = [pc EXCEPT ![w] = "gone"]
    /\ UNCHANGED <<brokerVars, cur, Jobs, processVars, updateVars,
                   answerVars, lost, unfinished>>

\* fetch or upload returns nil: the job is deleted next.
Succeed(w) == pc' = [pc EXCEPT ![w] = "deleting"] /\ UNCHANGED <<cur, unfinished>>

\* fetch or upload returns an error: the worker goes on with the next message
\* and leaves the job where it is.  upload may have declared "fetching" by then.
Abandon(w) ==
    /\ pc' = [pc EXCEPT ![w] = "ready"]
    /\ cur' = [cur EXCEPT ![w] = None]
    /\ unfinished' =
           [unfinished EXCEPT ![<<cur[w].video, Kind(w)>>] = @ + 1]
    /\ \/ UNCHANGED declared
       \/ w \in UploadWorkers /\ declared' = declared \cup {"fetching"}
    /\ UNCHANGED <<queue, open, inbox, Jobs>>

\* fetch stores the video and publishes it, format included, on the channel of
\* its own consumer, which only works while that is open.
FetchSucceeds(w) ==
    /\ w \in FetchWorkers /\ pc[w] = "working"
    /\ w \in open
    /\ Publish("uploading", [cur[w] EXCEPT !.format = TRUE])
    /\ Succeed(w)
    /\ UNCHANGED <<declared, open, inbox, Jobs, processVars, updateVars,
                   answerVars>>

\* upload opens a channel and declares "fetching", as it always does first, and
\* hands the video, or the file id of an earlier upload, to Telegram.
UploadDelivers(w) ==
    /\ w \in UploadWorkers /\ pc[w] = "working"
    /\ connected /\ cur[w].format
    /\ declared' = declared \cup {"fetching"}
    /\ delivered' = delivered \cup {RequestOf(cur[w])}
    /\ Succeed(w)
    /\ UNCHANGED <<queue, open, inbox, Jobs, processVars, updateVars, accepted,
                   apologised, ignored, lost>>

\* Mutant of UploadRequeues: the job of a video sent back is not deleted.
UploadRequeuesAndFails(w) ==
    /\ w \in UploadWorkers /\ pc[w] = "working"
    /\ connected
    /\ cur[w].format => "evicted" \in Faults
    /\ declared' = declared \cup {"fetching"}
    /\ queue' = [queue EXCEPT !["fetching"] =
                     Append(@, [cur[w] EXCEPT !.format = FALSE])]
    /\ pc' = [pc EXCEPT ![w] = "ready"]
    /\ cur' = [cur EXCEPT ![w] = None]
    /\ unfinished' =
           [unfinished EXCEPT ![<<cur[w].video, Kind(w)>>] = @ + 1]
    /\ UNCHANGED <<open, inbox, Jobs, processVars, updateVars, answerVars,
                   lost>>

\* upload finds no metadata for that video and format, as is always so without
\* a format, or no object: it declares "fetching" and sends the video back.
UploadRequeues(w) ==
    /\ w \in UploadWorkers /\ pc[w] = "working"
    /\ connected
    /\ cur[w].format => "evicted" \in Faults
    /\ declared' = declared \cup {"fetching"}
    /\ queue' = [queue EXCEPT !["fetching"] =
                     Append(@, [cur[w] EXCEPT !.format = FALSE])]
    /\ Succeed(w)
    /\ UNCHANGED <<open, inbox, Jobs, processVars, updateVars, answerVars,
                   lost>>

\* Mutant of Fail: the worker goes on before it sends the error message.
FailSilently(w) ==
    /\ pc[w] = "working"
    /\ "fetch" \in Faults \/ "upload" \in Faults
    /\ Abandon(w)
    /\ UNCHANGED <<processVars, updateVars, answerVars, lost>>

\* An error other than context.Canceled: the user is told to send the link
\* again.  fetch cannot publish on a closed channel, nor upload open one without
\* a connection, and what a client returns for a cancelled call need not wrap
\* context.Canceled.  upload can fail after Telegram took the video.
Fail(w) ==
    /\ pc[w] = "working"
    /\ \/ w \in FetchWorkers /\ ("fetch" \in Faults \/ w \notin open)
       \/ w \in UploadWorkers /\ ("upload" \in Faults \/ ~connected)
       \/ ctxDone
    /\ Apologise(RequestOf(cur[w]))
    /\ Abandon(w)
    /\ \/ UNCHANGED delivered
       \/ /\ w \in UploadWorkers /\ cur[w].format
          /\ "upload" \in Faults \/ ctxDone
          /\ delivered' = delivered \cup {RequestOf(cur[w])}
    /\ UNCHANGED <<processVars, updateVars, accepted, lost>>

\* Mutant of Interrupted: the job is deleted on this path as well.
InterruptedDeletes(w) ==
    /\ pc[w] = "working"
    /\ ctxDone
    /\ Jobs' = DeleteJob(Jobs, cur[w].video, Kind(w))
    /\ pc' = [pc EXCEPT ![w] = "ready"]
    /\ cur' = [cur EXCEPT ![w] = None]
    /\ UNCHANGED <<brokerVars, processVars, updateVars, answerVars, lost,
                   unfinished>>

\* context.Canceled: nobody is told, the job is left to finalization.  upload
\* looks at the context after Telegram took the video, too.
Interrupted(w) ==
    /\ pc[w] = "working"
    /\ ctxDone
    /\ Abandon(w)
    /\ \/ UNCHANGED delivered
       \/ /\ w \in UploadWorkers /\ cur[w].format
          /\ delivered' = delivered \cup {RequestOf(cur[w])}
    /\ UNCHANGED <<processVars, updateVars, accepted, apologised, ignored, lost>>

\* deleteJob, under the mutex.
Delete(w) ==
    /\ pc[w] = "deleting"
    /\ Jobs' = DeleteJob(Jobs, cur[w].video, Kind(w))
    /\ pc' = [pc EXCEPT ![w] = "ready"]
    /\ cur' = [cur EXCEPT ![w] = None]
    /\ UNCHANGED <<brokerVars, processVars, updateVars, answerVars, lost,
                   unfinished>>

-----------------------------------------------------------------------------
(* The end of Run, and what the operating system does to the process.      *)

\* Mutant of BeginFinalization: the uploading consumers are not waited for.
BeginFinalizationEarly ==
    /\ phase = "running"
    /\ listening = {} /\ \A w \in FetchWorkers : pc[w] = "gone"
    /\ phase' = "finalizing"
    /\ declared' = declared \cup Kinds
    /\ UNCHANGED <<queue, open, inbox, workerVars, ctxDone, connected,
                   republished, runs, updateVars, answerVars, lost, unfinished>>

\* wg.Wait returns once every worker has: finalization declares both queues.
BeginFinalization ==
    /\ phase = "running" /\ connected
    /\ listening = {} /\ \A w \in Workers : pc[w] = "gone"
    /\ phase' = "finalizing"
    /\ declared' = declared \cup Kinds
    /\ UNCHANGED <<queue, open, inbox, workerVars, ctxDone, connected,
                   republished, runs, updateVars, answerVars, lost, unfinished>>

\* One turn of the loop over Jobs; a failed publish does not end the loop.
RepublishJob ==
    /\ phase = "finalizing"
    /\ republished < Len(Jobs)
    /\ LET j == Jobs[republished + 1] IN
       \/ connected /\ Publish(j.kind, PayloadOf(j))
       \/ /\ "finalize" \in Faults \/ ~connected
          /\ lost' = lost \cup {RequestOf(j)}
          /\ UNCHANGED queue
    /\ republished' = republished + 1
    /\ UNCHANGED <<declared, open, inbox, workerVars, phase, ctxDone, connected,
                   runs, updateVars, answerVars, unfinished>>

\* The requests the process knows of: pushed to it, in a worker's hands, or
\* jobs that finalization has not gone through.
InMemory ==
    (UNION {Requests(inbox[w]) : w \in Workers})
        \cup {RequestOf(cur[w]) : w \in {x \in Workers : Busy(x)}}
        \cup Requests(SubSeq(Jobs, republished + 1, Len(Jobs)))

\* The memory of the process is gone, and its connection with it: everything
\* in hand, unless the broker has it, and every update Telegram will not send
\* again.
Die(inMemory) ==
    /\ phase' = "down" /\ connected' = FALSE
    /\ lost' = lost \cup inMemory
    /\ ignored' = ignored \cup
                      ((ToSet(updates) \ ToSet(unconfirmed)) \cap Links)
    /\ open' = {}
    /\ inbox' = [w \in Workers |-> << >>]
    /\ pc' = [w \in Workers |-> "gone"]
    /\ cur' = [w \in Workers |-> None]
    /\ Jobs' = << >> /\ republished' = 0
    /\ updates' = << >> /\ polling' = FALSE /\ listening' = {}
    /\ unfinished' = [x \in Videos \X Kinds |-> 0]

\* Mutant of EndFinalization: the loop stops one job early.
EndFinalizationEarly ==
    /\ phase = "finalizing"
    /\ republished + 1 >= Len(Jobs)
    /\ Die({})
    /\ UNCHANGED <<declared, queue, ctxDone, runs, received, unconfirmed,
                   accepted, delivered, apologised>>

\* Run returns and main ends.
EndFinalization ==
    /\ phase = "finalizing"
    /\ republished = Len(Jobs)
    /\ Die({})
    /\ UNCHANGED <<declared, queue, ctxDone, runs, received, unconfirmed,
                   accepted, delivered, apologised>>

\* The channel or a queue declaration, the first or the second, fails: no job
\* is republished.
FinalizationFails ==
    /\ "finalize" \in Faults \/ ~connected
    /\ phase = "running"
    /\ listening = {} /\ \A w \in Workers : pc[w] = "gone"
    /\ Die(Requests(Jobs))
    /\ declared' \in {declared, declared \cup {"fetching"}}
    /\ UNCHANGED <<queue, ctxDone, runs, received, unconfirmed, accepted,
                   delivered, apologised>>

\* A signal cancels the context.
Interrupt ==
    /\ "interrupt" \in Faults
    /\ phase = "running" /\ ~ctxDone
    /\ ctxDone' = TRUE
    /\ UNCHANGED <<brokerVars, workerVars, phase, connected, republished, runs,
                   updateVars, answerVars, lost, unfinished>>

\* A kill, or a panic in any goroutine.
Crash ==
    /\ "crash" \in Faults
    /\ phase # "down"
    /\ Die(InMemory)
    /\ UNCHANGED <<declared, queue, ctxDone, runs, received, unconfirmed,
                   accepted, delivered, apologised>>

\* The supervisor starts the bot again: a new process, the same broker.  Its
\* first poll gets what the last one of the old process left unconfirmed.
Restart ==
    /\ phase = "down"
    /\ runs < MaxRuns
    /\ runs' = runs + 1
    /\ phase' = "running" /\ ctxDone' = FALSE /\ connected' = TRUE
    /\ pc' = [w \in Workers |-> "setup"]
    /\ updates' = unconfirmed
    /\ unconfirmed' \in {unconfirmed, << >>}
    /\ polling' = TRUE /\ listening' = UpdateWorkers
    /\ UNCHANGED <<brokerVars, cur, Jobs, republished, received, answerVars,
                   lost, unfinished>>

UpdateWorker(d) ==
    \/ TakeCommand(d) \/ DropLink(d) \/ RefuseLink(d) \/ AcceptLink(d)
    \/ StopListening(d)

Consumer(w) ==
    \/ Setup(w) \/ SetupFails(w) \/ Take(w) \/ Exit(w)
    \/ FetchSucceeds(w) \/ UploadDelivers(w) \/ UploadRequeues(w)
    \/ Fail(w) \/ Interrupted(w) \/ Delete(w)

Broker(w) ==
    Deliver(w) \/ CloseChannel(w) \/ LoseChannel(w) \/ DropInbox(w)

Finalization ==
    BeginFinalization \/ RepublishJob \/ EndFinalization \/ FinalizationFails

Next ==
    \/ ReceiveUpdate \/ StopPolling
    \/ \E d \in UpdateWorkers : UpdateWorker(d)
    \/ \E w \in Workers : Consumer(w) \/ Broker(w)
    \/ Finalization
    \/ ConnectionEnds
    \/ Interrupt \/ Crash \/ Restart

Spec == Init /\ [][Next]_vars

\* The Go scheduler runs every goroutine that can run, the broker pushes to
\* open consumers and the long poll of Telegram ends; users, signals, crashes
\* and the supervisor owe nothing.
Fairness ==
    /\ WF_vars(StopPolling) /\ WF_vars(Finalization)
    /\ \A d \in UpdateWorkers : WF_vars(UpdateWorker(d))
    /\ \A w \in Workers :
           /\ WF_vars(Consumer(w))
           /\ WF_vars(Deliver(w))
           /\ WF_vars(CloseChannel(w))
           /\ WF_vars(DropInbox(w))

FairSpec == Spec /\ Fairness

-----------------------------------------------------------------------------
(* Properties.                                                             *)

\* The consumers of one kind that have a message of one video in hand.
BusyWith(video, kind) ==
    {w \in Workers : Busy(w) /\ Kind(w) = kind /\ cur[w].video = video}

\* Dispatcher.Jobs holds, for every video and kind, exactly one entry per
\* message in a worker's hands and one per job that ended in an error, although
\* append and deleteJob of different workers interleave and deleteJob matches
\* neither chat nor worker.  So nothing in hand is missed by finalization, and
\* nothing finished is published again.
JobsMatchWork ==
    \A v \in Videos, k \in Kinds :
        Cardinality(Entries(Jobs, v, k)) =
            Cardinality(BusyWith(v, k)) + unfinished[<<v, k>>]

\* Finalization walks over Jobs only when no goroutine can still change it, no
\* consumer is open and nothing pushed to one is waiting: what wg.Wait is for.
\* The same holds of a process that has ended.
QuietWhenNotRunning ==
    phase # "running" =>
        /\ open = {} /\ listening = {}
        /\ \A w \in Workers : pc[w] = "gone" /\ inbox[w] = << >>
        /\ republished <= Len(Jobs)

\* Until a shutdown begins, a job that no worker is on any more is one whose user
\* has been told to send the link again, or whose chat could not even be told:
\* fetch and upload leave an entry in Jobs only on the path that apologises, and
\* deleteJob, which looks at neither chat nor worker, never takes the entry of
\* a request that is still being worked on instead of its own.
LeftoversWereTold ==
    ~ctxDone =>
        \A i \in DOMAIN Jobs :
            \/ RequestOf(Jobs[i]) \in apologised \cup ignored
            \/ \E w \in Workers : /\ Busy(w) /\ Kind(w) = Jobs[i].kind
                                  /\ RequestOf(cur[w]) = RequestOf(Jobs[i])

\* The positions of a family of sequences.
Places(f) == UNION {{x} \X DOMAIN f[x] : x \in DOMAIN f}

\* Updates, messages and jobs to be done.  The job of a worker that is about to
\* delete it is done.
Load ==
    Len(updates) + Cardinality(Places(queue)) + Cardinality(Places(inbox))
        + (Len(Jobs) - republished)
        - Cardinality({w \in Workers : pc[w] = "deleting"})

\* Work does not multiply: however often upload sends a video back to fetching,
\* a job fails after its message was published again, finalization republishes
\* what is left, and Telegram repeats updates to a new process, an update stands
\* for at most one piece of work per run.  So the queues, which the code bounds
\* nowhere, grow no faster than the users ask.
NoAmplification == Load <= runs * received

\* The requests somebody will still work on or republish.
Pending == InMemory \cup Queued

Answered == delivered \cup apologised

\* No accepted request vanishes: it was answered, is still being worked on, in
\* this run or by what finalization publishes for the next one, or was dropped
\* by the broker, by a closed channel or by a process that died.
Accounted == accepted \subseteq Answered \cup Pending \cup lost

\* The refinement mapping: what Delivery calls pending and dropped.
Promise == INSTANCE Delivery
               WITH Promised <- Links, pending <- Pending, dropped <- lost

\* Through queues, prefetched inboxes, the shared job list, finalization and
\* restarts, each step of the dispatcher does to the requests what Delivery
\* allows: above all, none ceases to be pending before it is settled.
KeepsPromise == Promise!DeliverySpec

\* No request the bot accepted, and announced the download of, is dropped.
NothingLost == lost = {}

\* Once the context is cancelled the run ends: every worker returns, whatever
\* it was doing, and finalization publishes the jobs.
ShutdownCompletes == ctxDone ~> phase = "down"

\* Every link a user sends is answered, by the video or by an error message.
EveryLinkAnswered ==
    \A r \in Links : r \in ToSet(updates) ~> r \in Answered

\* Somebody reads the updates, and each queue has a consumer.
Serving ==
    /\ phase = "running" /\ ~ctxDone
    /\ listening # {}
    /\ \A k \in Kinds : \E w \in open : Kind(w) = k

\* However often the bot is stopped, killed and started, whatever consumers and
\* connections it loses: if one run then serves for good, every link ever sent
\* is settled.  It is answered, by the video or by an error message, or it is
\* one of those dropped without a word at the places the code has for that.
\* Republished jobs are taken up again and completed.
LinksAreSettled ==
    <>[]Serving
        => \A r \in Links :
               r \in ToSet(updates) ~> r \in Answered \cup lost \cup ignored

=============================================================================
