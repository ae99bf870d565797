# Verification of cribe

cribe is a Telegram bot: a user sends a YouTube link, the bot downloads the
video and uploads it to Telegram. One process runs three pools of goroutines
that pass messages to each other through two RabbitMQ queues and share a
metadata table (PostgreSQL), a blob storage (a directory or S3) and a session
store (Redis). This directory holds TLA+ models of that process, the TLC
configurations that check them and TLAPS proofs about them. Paths below are
relative to the repository (`src/`).

## Inventory

| Component | State | Operations | Talks to |
|---|---|---|---|
| `Dispatcher.Run` and its goroutines (`internal/bot/server.go`) | `Jobs` under `mtx`, a context, a wait group | start the pools, stop polling, wait, `finalization` | everything below |
| Update workers (`dispatchingMessages`, `handleMessage`) | none | take an update; answer a command and return; load the session, send the event, flush | sessions, `ParsingAction` |
| `ParsingAction.Execute` | none | look the video up, publish to `fetching` or apologise | YouTube, RabbitMQ, Telegram |
| Fetching consumers (`consumingVideoFetching`, `fetch.go`) | message in hand, own channel | take, record a job, `fetch`, delete the job or apologise | RabbitMQ, YouTube, metadata, blobs |
| Uploading consumers (`consumingVideoUploading`, `upload.go`) | message in hand, own channel | take, record a job, `upload`, delete the job or apologise | RabbitMQ, metadata, blobs, Telegram |
| Metadata repository (`internal/db/metadata.go`) | one row per (video, mime, quality) | `FetchByMetadata`, `Save` (upsert), each in a transaction | PostgreSQL |
| Blob storage (`internal/storage`) | one object per video | `GetObject`, `CreateObject`, `DeleteObject` | directory or S3 |
| Session state machine (`pkg/botstate`) | current and previous state per user | `Load`, `SendEvent`, `Flush` | Redis |
| `finalization` | `Jobs` | declare both queues, publish every job again | RabbitMQ |
| Process entry, `srvenv.Setup`, signal watcher, `/health`, webhook listener (`cmd/cribe-bot`, `internal/srvenv`, `internal/shutdown`) | connections, a context | connect to everything, run, end; the supervisor starts it again | everything above |
| Thumbnail choice (`fetch.go:70-86`) | none | sort, take the first | YouTube |
| Logging, localization, build info, migrations, mocks | none while running | not modelled, see below | |

Hard behaviours, and what correctness means for each:

* Concurrency over `Jobs`: many workers append and delete by (video, kind). The
  list must always tell finalization exactly what is unfinished.
* Shutdown: a cancelled context must end goroutines that block on three kinds
  of channels, and finalization must see a list nobody changes any more.
* Delivery: messages are acknowledged when pushed, live in memory, and survive
  a run only through `finalization`. No accepted request may vanish.
* Detours: republished jobs carry no format, so `upload` sends them back to
  `fetch`; that must end, and neither lose nor duplicate a request.
* Stale reads: `fetch` and `upload` decide on a row or an object and act later,
  while other workers overwrite the row, replace, truncate or delete the object.
* The broker: messages are transient, publishes unconfirmed, the connection is
  opened once. When it ends, the consumers return and the process lives on.
* The process: Setup, the signal watcher, the health server, a webhook listener
  and panics end it in different ways, and only one of them publishes the jobs.
* Sessions: a user whose session is stored in the wrong state would be ignored
  until it expires, and `Flush` renews it on every ignored message.

`PROJECT.json` lists every hazard at its line, with the properties that watch it.

## Modules

| Module | Models |
|---|---|
| `JobList` | payloads, jobs, `append` of a job and `deleteJob` |
| `Dispatcher` | EXTENDS `JobList`; `Run` and its goroutines, both queues, shutdown, finalization, crash, restart |
| `Delivery` | the abstract specification: what the bot promises for a request, with no queue, worker or process in it |
| `MCDispatcher` | finite instances of `Dispatcher` |
| `Media` | `fetch` and `upload` call by call, against the row and the object of each video |
| `MCMedia` | finite instances of `Media` |
| `Session` | `handleMessage` with `Load`, `SendEvent` and `Flush` step by step |
| `MCSession` | a finite instance of `Session` |
| `Lifecycle` | the process: Setup, the goroutines that start and end it, polling and webhook mode, the supervisor |
| `Thumbnails` | the sort of `fetch.go:70-86` and what it puts first |
| `MCThumbnails` | lists of thumbnails of the sizes YouTube has |
| `JobListProofs` | what `append` and `deleteJob` do to the length of the list and to the number of entries of a video and kind |
| `DispatcherProofs` | type correctness, quiet finalization and the match of jobs and work |
| `PromiseProofs` | `Accounted` and the refinement of `Delivery` |
| `ServingProofs` | when nothing is lost, who is behind a job nobody works on, and that work does not multiply |
| `MediaProofs` | the type, the safety invariants and the action property of `Media` |
| `SessionProofs` | type correctness and the two properties of sessions |
| `LifecycleProofs` | `NoErrorSkipsFinalization` and the type of `Lifecycle` |
| `ThumbnailProofs` | the type and the two properties of the insertion sort |

### Dispatcher

An action is what one goroutine does between two points at which others can
act: a channel operation, a call to a service, a critical section of `mtx`.
`pc[w]` is where a consumer is: `setup` (before its queue is consumed), `ready`
(in `range messages`), `working` (in `fetch` or `upload`), `deleting` (before
`deleteJob`) and `gone` (returned). `Take` is the receive and the append to
`Jobs`; in between, the code only decodes the message into locals. `queue` is
what RabbitMQ holds, `inbox[w]` what it has pushed to a consumer: without
`Qos` everything, with `autoAck` acknowledged at that moment. When the context
is done a goroutine per consumer closes its channel (`CloseChannel`); the client
library then drops the rest (`DropInbox`), in a race with the worker that may
still take some of it. The default exchange drops messages for queues nobody
has declared (`Publish`). Neither `ParsingAction` nor `fetch` declares the queue
it publishes to; `ParsingAction` may do so before any consumer has (`firstboot`),
and so may a `fetch` whose fellow consumers of `uploading` are still being set
up. A payload keeps one bit of Mime and
Quality, whether they are filled in: that is all `upload` depends on.

`Fail` and `Interrupted` are the two error paths of the consumers: the first
apologises, the second does not, and both leave the job in the list. A cancelled
context may lead to either: `errors.Is(err, context.Canceled)` depends on how
the failing client wraps the cancellation, and publishing on the closed channel
is an error of its own. Either can
happen after Telegram took the video. A crash (`Crash`) is a kill or a panic;
`Restart` is the `restart: always` of `docker-compose.yml`. `accepted`,
`delivered`, `apologised`, `lost` and `unfinished` are history: no action reads
them.

The broker fails in three ways. `LoseChannel` closes one consumer's channel;
`LoseConnection` ends the connection and may take the last publish with it, since
nothing is confirmed; `RestartBroker` empties the queues as well, since messages
are not persistent. None of them cancels the context and the code does not
reconnect: `connected` only becomes true in a new process, and every action that
opens a channel or publishes needs it. `ReceiveUpdate` and `Restart` model what
Telegram sends again: a poll confirms the answer of the poll before it, so the
last answer a process got (`unconfirmed`) comes back, or does not if it was
confirmed after all.

A message or a job that is dropped, in whatever way the code permits, is
recorded in `lost`; a link whose chat is not told of the failure in `ignored`.
`Accounted` says there is no other way for an accepted request to disappear, and
`NothingLost` that there is none at all. `LeftoversWereTold` is about the entries
of `Jobs` that no worker is on: until a shutdown begins they belong to users who
were told to send the link again. `NoAmplification` bounds all the work there is
(`Load`: updates, messages in queues and inboxes, jobs) by one piece per update
received and run: `upload` sends videos back, `finalization` republishes and
Telegram repeats, and nothing in the code bounds the queues.

### Delivery

A request is accepted, stays pending until it has been answered or dropped, and
is then forgotten; several messages for one request make no difference. The
refinement mapping reads pending off everything that holds requests in
`Dispatcher`: both queues, the inboxes, the messages in hand and the jobs that
finalization has not gone through. `KeepsPromise` says that every step, a crash
or a broker restart included, is one that `Delivery` allows.

### Media

One action per call to the table, the storage or Telegram, so every overlap of
several `fetch` and `upload` of one video is explored. A row is `absent`,
`uncached` (its `FileID` is empty) or cached, as the content that was
sent. An object is `absent`, `partial` or `whole`: `FS.CreateObject` is
`os.WriteFile`, which truncates (`OpenFile`) and then writes (`WriteFile`);
`opener` tells whose data ends up in the file. `S3.CreateObject` is one step. The
chat plays no part in either function, so messages are counted per video.
`FetchProbe` keeps the ignored error of line 62 of `fetch.go`. Republished
messages of the uploading queue have no format, and the restart does not
overlap with the run before it.

`GiveUp` is an error of any call. It may hide that the call took effect
(`TookEffect`): `InTx` returns the error of a commit, and S3 and Telegram may
lose an answer. The job stays, so an upload that fails after `UploadSend` will
be served again; `owed` counts deliveries still to be made and goes up by one
then. After a crash nobody owes what only the process knew of.

`suspect` is history: the videos that two fetches held at once, whose file was
created although their row was there, or whose write an error or a crash cut
short. `TruncationHasCause` says that these three are all it takes to explain a
truncated video, and that the rest of the overlaps explains none. A crash in the
midst of a write is such a cause: the next fetch takes the torn file for the
video (`fetch.go:62`) and an upload sends it. With S3 the model has no truncated
object to begin with, so the property is checked with files.

### Session

`handleMessage` reads the session, changes its own machine and writes it back;
workers that hold messages of one user interleave in between. `Move` and
`Execute` are the halves of one turn of the loop in `SendEvent`. `Expire` is the
expiry of Redis, `BackendFails` an error of `Get` or `Set`.

### Lifecycle

`stage` is how far `main` has come: the four connections of `Setup`, then
`setupTelegramMode` inside `Run`, then the goroutines. `up` are the dependencies
that answer, which changes at any time (`Outage`) until `Settle`. `Signal` and
`WatchSignal` are the two ends of the signal channel; nothing before `Run` looks
at the context. `Die` keeps how the process ended: `returned` from `main`, a
`fatal` log line, a `panic`, or `killed`. The code has three panics:
`VideoPanics` (`upload.go:111`, an answer of Telegram without Video),
`BlobPanics` and `SessionPanics`. The consumers are one abstract party
here, and so is finalization; `Dispatcher` has them in detail. The webhook
listener (`HookFails`) is given a URL where `http.ListenAndServe` wants an
address, so it can only fail; updates come in polling mode alone.

### Thumbnails

`sort.Slice` sorts up to 12 elements by insertion; `Swap` and `Insert` are the
turns of its two loops, with the comparator of the code (`Less`), which is no
weak order. `Choose` takes the first, whose URL is kept up to its query.

## Runs

Every run finishes by itself; deadlock is not checked because the bounded
inputs run out and a run of the bot ends.

| Run | Checks | Instance |
|---|---|---|
| `safety` | `TypeOK`, `JobsMatchWork`, `QuietWhenNotRunning`, `Accounted`, `LeftoversWereTold`, `NoAmplification`, `KeepsPromise` | 2 links of 2 chats for 2 videos, either of which may be sent twice, 2 fetchers, 1 uploader, 1 run with a shutdown, faults that change who holds a request |
| `shutdown` | `ShutdownCompletes`, `LinksAreSettled`, `KeepsPromise` | 1 link, a command, every fault except `evicted`, 2 runs |
| `overlap` | `ServedOnce`, `UncachedIsInFlight`, `TruncationHasCause`, `EveryoneServed` | 1 video, 2 fetchers, 2 uploaders, 3 links, files; crashes at every call, in the midst of a write included |
| `faults` | `MediaTypeOK`, `ServedOnce`, `UncachedIsInFlight`, `RowBeforeUpload`, `CacheSettles` | 1 video, 2 fetchers, 2 uploaders, 3 links, S3; errors, interrupts and crashes at every call |
| `session` | `SessionTypeOK`, `NobodyMuted`, `ParsedOnce` | 2 users, 2 workers, 4 messages |
| `lifecycle` | `LifecycleTypeOK`, `NoErrorSkipsFinalization`, `SignalEndsProcess`, `ServesInTheEnd` | every configuration, 2 update workers, any number of processes |
| `thumbnails` | `ThumbnailTypeOK`, `ChosenFits`, `LargestIsChosen` | lists of up to 4 thumbnails of 5 sizes |

Bounds. Two workers of a kind are what an overlap needs: each hazard listed is
between two parties on one video, and workers of one kind are interchangeable.
Two videos of two chats make requests independent, and a link sent twice puts
two jobs of one video into the list; two chats on one video, the case in which
`deleteJob` confuses requests, are the instance of `sharedvideo`. Rows, objects
and messages of different videos do not touch each other in `Media`, so one
video is enough there. The state a run starts from is the queues and the
unconfirmed updates alone, so two runs cover a republished job and a redelivered
link, and a third run starts from nothing the second cannot. The `safety` run has
one run with every loss of messages; `shutdown` has the second, with one link,
and what restarts do to `NoAmplification` is left to its proof.
`MaxUpdates` and `MaxLinks` bound the messages of users, `MaxRuns` the starts of
the process and `MaxMessages` the messages handled by `Session`; `MaxLength`
bounds the lists of `Thumbnails`, and four are enough for an insertion to stop
in the middle, at the front and not to move at all. `Lifecycle` has no bound but
the number of update workers. Symmetry is used for safety only.

A cached file id can be lost: a fetch that found no row saves an empty `FileID`
over one that was cached meanwhile. `CacheSettles` confines that to fetches that
had found no row when the file id was cached and not saved yet, with any number
of fetchers; `UncachedIsInFlight` says that somebody repairs it. `overlap` has
crashes but no errors, since a call that fails for ever is never served;
`TruncationHasCause` under errors of the write is left to its proof.
`Accounted` is checked with one video per chat because it does not hold
otherwise, see `sharedvideo`.

### Disagreements shown by a run

| Run | Property | What happens |
|---|---|---|
| `firstboot` | `NothingLost` | with a fresh broker, a link published before a consumer declared `fetching` is dropped; the user was told the download starts (`server.go:555`, `:571`) |
| `prefetch` | `NothingLost` | a pushed message the worker has not read is lost when the channel closes (`server.go:329`, `:336`) |
| `command` | `EveryLinkAnswered` | a command ends the update worker (`server.go:307`); without one, links wait for ever |
| `sharedvideo` | `Accounted` | `deleteJob` ignores the chat (`server.go:450`), so the interrupted job of one chat is deleted in place of the finished one of another |
| `partialfile` | `DeliveredWhole` | an upload reads a file another fetch has just truncated, and caches its file id (`storage/fs.go:39`) |

Three of these are also delimited by a theorem. The loss of `firstboot` and
`prefetch` needs a missing queue or the end of a process, channel or connection:
without those nothing is lost (`DispatcherNothingLost`). The truncated video of
`partialfile` needs an overlap of fetches, a file created anew for a row, or a
write cut short (`MediaTruncationHasCause`).

Losses the broker, a closed channel or a dead process causes (messages that are
not persistent, publishes without confirms, jobs in memory) are recorded in `lost`,
and `Accounted` and `KeepsPromise` allow them: these hazards are accounted for, not
prevented.

## Fairness

In `Dispatcher` liveness is checked under weak fairness of each goroutine's
steps (the Go scheduler runs what can run, and every call to a service returns,
with or without an error), of the broker's push to an open consumer, of closing
channels on a cancelled context and of the end of a long poll after
`StopReceivingUpdates` (`TELEGRAM_POLLING_TIMEOUT` bounds it). Nothing is assumed
of users, signals, crashes, the broker's failures or the supervisor. A goroutine
is fair as a whole: which branch a call takes, success or error, stays open,
which is why the properties accept an apology. In `Media` a worker is fair as a
whole as well, so that a message on a queue is received by some worker that is
free.

That calls return is an assumption about the broker too: with the default
heartbeat of 12 h (`srvenv/config.go:26`) a peer that vanishes silently blocks
publishing and `channel.Close` for as long, and shutdown with them.

`LinksAreSettled` has its premise in the formula: it speaks of behaviours in
which, from some point on, a run serves (`<>[]Serving`), because nothing in the
code leads back there from a run that has lost its consumers or its update
workers. `Lifecycle` says what does: restarts, once every dependency answers. Its
fairness adds the supervisor (`restart: always`, `docker-compose.yml:60`), and
`ServesInTheEnd` has the process that outlived its workers as the one exception.
Both liveness properties of `Lifecycle` are also about processes that are killed
in between. Deadlock is not checked because nothing happens any more once the
environment is calm and such a process, or one that serves, just goes on.

## Proofs

`tlapm` checks these for every value of the constants that satisfies the named
assumptions `ConstantsOK`, `MediaConstantsOK`, `SessionConstantsOK`, `SizesOK`
and `UpdateWorkersOK` (finite sets of workers, disjoint pools, model values that
are not data).

* `DispatcherTypeCorrect`: `Spec => []TypeOK`. Not inductive alone: what a worker
  publishes or records is well formed only if a busy worker has a payload
  (`InHand`), so `TypeInv == TypeOK /\ InHand` is proved, one step per action.
* `DispatcherQuiet`: `Spec => []QuietWhenNotRunning`. wg.Wait only sees goroutines
  return; that no channel is open then, and no message is left in an inbox,
  needs `OpenIsServed` (an open consumer or a filled inbox has a goroutine past
  its setup and not yet returned), and that finalization starts at the first job
  needs `PhaseInv`.
* `DispatcherJobsMatchWork`: `Spec => []JobsMatchWork`, from the two invariants
  above. `JobListProofs` counts entries: `EntriesAppend` for `append`,
  `EntriesDelete` for `deleteJob`, through a bijection between the entries
  before and after the removal. `OneMoreBusy` and `OneLessBusy` count the
  workers; the two sides change together in `Take`, `Delete` and `Abandon`, and
  `deleteJob` always finds an entry because the worker that calls it is counted.
* `DispatcherAccounted` and `DispatcherKeepsPromise`: `Accounted` and the
  refinement of `Delivery`, both under `Apart`, that no two chats ask for one
  video; without it they do not hold, see `sharedvideo`. The steps that could
  drop a request silently are those that remove an entry of `Jobs`: `Delete`
  removes the first entry of the video, which under `Apart` is an entry of the
  same request, and the jobs of a request that is not settled outnumber what is
  removed. Every other step of `Dispatcher` is shown to be one step of `Delivery`
  or a stutter, from a lemma on what the step does to each of the four places
  that hold requests.
* `DispatcherNothingLost`: `NothingLost` if both queues exist and `Faults` is
  within `RequestFaults`, the failures of sessions, YouTube, storage, Telegram
  and the database, evicted rows and repeated updates. `ServesInv` says that the
  context stays alive, the connection up and every consumer past its setup on
  its open channel, so that no action that drops a message is ever enabled.
* `DispatcherLeftoversWereTold`: under `Apart`, again because of `deleteJob`. The
  invariant (`Told`) says that a video and kind with unfinished jobs has a user
  who was told or could not be; an entry beyond those is matched by a worker
  (`JobsMatchWork`), and a worker on the same video serves the same request.
* `DispatcherNoAmplification`: for every value of the constants. `Load` is a
  difference, because the job of a worker in `deleting` is done, so the
  invariant (`LoadInv`) adds that there is a job for every message in hand, that
  Telegram repeats no more updates than there were, and that a dead process has
  no updates. `PlacesOneMore` and `PlacesFewer` count the positions of queues
  and inboxes, and each step is shown to move work, not to make it: what
  publishes also finishes a job or takes an update, except `Restart`, which
  adds as many updates as were left, and `ReceiveUpdate`, which adds one.
* `MediaTypeCorrect`, `MediaRowBeforeUpload`, `MediaServedOnce`,
  `MediaUncachedIsInFlight`: rows never go away and `fetch` saves before it
  publishes; `ServedOnce` counts workers by what they owe, one lemma per action
  saying how the count changes; and a row without file id has a message, a
  worker or a job because a worker only leaves by handing its video on.
* `MediaCacheSettles`: for any workers, storage and faults. A fetch saves an empty
  file id only if its lookup found no row (`FetchRemembers` keeps what it found
  from call to call), so a fetch that is not on its way to that when a file id
  is cached never gets there (`NobodyInserts`), and uploads save file ids of what
  they sent (`CachedStays`).
* `MediaTruncationHasCause`: for any workers, storage and faults. The invariant
  (`CauseInv`) says that a truncated file that is not suspect has no row yet and
  that whoever truncated it last is still going to write it (`Completes`). While
  that is so nobody inserts the row (`RowStaysAbsent`): another fetch would have
  made the video suspect (`Overlaps`), and an upload only saves where a row is. An
  upload reads only with a row, so what it reads truncated is suspect.
* `ThumbnailTypeCorrect`, `ThumbnailChosenFits`, `ThumbnailLargestIsChosen`: for
  lists of any length that is sorted by insertion, which `sort.Slice` does up to
  12 elements. The invariants are those of an insertion sort, except that they
  cannot use an order: what stands in front is the first listed or fits, and for
  an ascending list the part already inserted keeps its largest fitting element
  in front.
* `LifecycleTypeCorrect`, `LifecycleNoErrorSkipsFinalization`: for every
  configuration. Only a webhook has a listener, and messages are taken only after
  `Setup`, so that no other `Fatalf` comes before finalization.
* `SessionTypeCorrect`, `SessionNobodyMuted`, `SessionParsedOnce`: the inductive
  invariant ties every `pc` to the state, the pending event and the number of
  parses of the worker's machine, and says every stored state is `Default`.

Only model-checked: the liveness properties `ShutdownCompletes`,
`LinksAreSettled`, `EveryoneServed`, `SignalEndsProcess` and `ServesInTheEnd`, since
fairness and ENABLED are beyond the prover. Every other property of a passing
run is proved, `Accounted`, `KeepsPromise` and `LeftoversWereTold` under the
assumption named, the rest for all constants.

## Not modelled

* Logging, localization, build info, migrations, what `/health` and pprof serve:
  no state that a property could be about.
* Calls that never return, see Fairness. Objects that stay in the storage
  although their row has a file id: one fetch and one upload of a video suffice to
  leave one, and no answer depends on it.
* The no-op session backend is not selectable; `Session.Clean` has no caller.
* Messages that cannot be decoded: every publisher encodes a `Payload`.

## Plan

1. Done: the modules, runs and proofs above.
2. The order of `Media` and `Dispatcher` in one instance: answers given twice per
   chat, as the composition of both modules shows them.
