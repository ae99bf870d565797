------------------------------- MODULE Media -------------------------------
(***************************************************************************)
(* Dispatcher.fetch and Dispatcher.upload (internal/bot/fetch.go and       *)
(* upload.go) call by call, against the metadata table (internal/db) and   *)
(* the blob storage (internal/storage), with several workers on the same   *)
(* video.  The chat of a request plays no part here, so messages are       *)
(* counted per video; how they travel, and when a run of the bot ends, is  *)
(* Dispatcher's.                                                           *)
(***************************************************************************)
EXTENDS Integers, FiniteSets

CONSTANTS
    Videos,          \* YouTube video ids
    FetchWorkers,    \* goroutines that run fetch
    UploadWorkers,   \* goroutines that run upload
    Storage,         \* STORAGE_TYPE: "fs" or "s3"
    Faults,          \* "error", "interrupt", "crash"
    MaxLinks,        \* bound: messages published for users
    None             \* no worker, nothing in hand

\* A message of the uploading queue; without a format when it was published by
\* finalization.
Upload == [video : Videos, format : BOOLEAN]

ASSUME MediaConstantsOK ==
    /\ IsFiniteSet(FetchWorkers) /\ IsFiniteSet(UploadWorkers)
    /\ FetchWorkers \cap UploadWorkers = {}
    /\ Storage \in {"fs", "s3"}
    /\ Faults \subseteq {"error", "interrupt", "crash"}
    /\ MaxLinks \in Nat
    /\ None \notin FetchWorkers \cup UploadWorkers \cup Upload

Workers == FetchWorkers \cup UploadWorkers

VARIABLES
    toFetch,   \* messages of the fetching queue, per video
    toUpload,  \* messages of the uploading queue
    row,       \* per video, the metadata row: "absent", "uncached" (FileID is
               \* empty), or what the file of its FileID holds
    blob,      \* per video, the stored object: "absent", "partial", "whole"
    opener,    \* per video, the worker that last truncated the file
    pc,        \* the next call of each worker
    cur,       \* the message in a worker's hands
    seen,      \* what a worker has read: fetch, the row; upload, the object
    ctxDone,   \* the context has been cancelled
    unfetched,   \* messages whose fetch ended in an error, still in Jobs
    unuploaded,  \* the same for upload
    \* history, read by properties only
    links,     \* messages published for users
    owed,      \* per video, deliveries still to be made
    stranded,  \* videos that were worked on when the process died
    cut,       \* videos delivered incomplete
    suspect    \* videos that were fetched twice at once, or created again for a
               \* row that is there, or not written to the end

queueVars  == <<toFetch, toUpload>>
storeVars  == <<row, blob, opener>>
workerVars == <<pc, cur, seen>>
jobVars    == <<ctxDone, unfetched, unuploaded>>
history    == <<links, owed, stranded, cut, suspect>>
vars == <<queueVars, storeVars, workerVars, jobVars, history>>

FetchPCs  == {"idle", "lookup", "probe", "check", "create", "writing", "save",
              "publish"}
UploadPCs == {"idle", "lookup", "object", "save", "delete"}

MediaTypeOK ==
    /\ toFetch \in [Videos -> Nat]
    /\ toUpload \in [Upload -> Nat]
    /\ row \in [Videos -> {"absent", "uncached", "partial", "whole"}]
    /\ blob \in [Videos -> {"absent", "partial", "whole"}]
    /\ opener \in [Videos -> FetchWorkers \cup {None}]
    /\ pc \in [Workers -> FetchPCs \cup UploadPCs]
    /\ \A w \in FetchWorkers : pc[w] \in FetchPCs
    /\ \A w \in UploadWorkers : pc[w] \in UploadPCs
    /\ cur \in [Workers -> Upload \cup {None}]
    /\ \A w \in Workers : pc[w] = "idle" <=> cur[w] = None
    /\ seen \in [Workers -> {"absent", "uncached", "partial", "whole"}]
    /\ ctxDone \in BOOLEAN
    /\ unfetched \in [Videos -> Nat]
    /\ unuploaded \in [Videos -> Nat]
    /\ links \in Nat
    /\ owed \in [Videos -> Int]
    /\ stranded \subseteq Videos
    /\ cut \subseteq Videos
    /\ suspect \subseteq Videos

Init ==
    /\ toFetch = [v \in Videos |-> 0]
    /\ toUpload = [m \in Upload |-> 0]
    /\ row = [v \in Videos |-> "absent"]
    /\ blob = [v \in Videos |-> "absent"]
    /\ opener = [v \in Videos |-> None]
    /\ pc = [w \in Workers |-> "idle"]
    /\ cur = [w \in Workers |-> None]
    /\ seen = [w \in Workers |-> "absent"]
    /\ ctxDone = FALSE
    /\ unfetched = [v \in Videos |-> 0]
    /\ unuploaded = [v \in Videos |-> 0]
    /\ links = 0
    /\ owed = [v \in Videos |-> 0]
    /\ stranded = {}
    /\ cut = {}
    /\ suspect = {}

-----------------------------------------------------------------------------
Video(w) == cur[w].video

Goto(w, label) == pc' = [pc EXCEPT ![w] = label] /\ UNCHANGED <<cur, seen>>

Return(w) ==
    /\ pc' = [pc EXCEPT ![w] = "idle"]
    /\ cur' = [cur EXCEPT ![w] = None]
    /\ UNCHANGED seen

\* A user's link becomes a message of the fetching queue.
SendLink(v) ==
    /\ links < MaxLinks
    /\ links' = links + 1
    /\ owed' = [owed EXCEPT ![v] = @ + 1]
    /\ toFetch' = [toFetch EXCEPT ![v] = @ + 1]
    /\ UNCHANGED <<toUpload, storeVars, workerVars, jobVars, stranded, cut,
                   suspect>>

BeingFetched(v) == \E w \in FetchWorkers : pc[w] # "idle" /\ Video(w) = v

\* A fetching worker receives a message and calls fetch.
TakeFetch(w, v) ==
    /\ pc[w] = "idle" /\ toFetch[v] > 0
    /\ toFetch' = [toFetch EXCEPT ![v] = @ - 1]
    /\ pc' = [pc EXCEPT ![w] = "lookup"]
    /\ cur' = [cur EXCEPT ![w] = [video |-> v, format |-> FALSE]]
    /\ suspect' = IF BeingFetched(v) THEN suspect \cup {v} ELSE suspect
    /\ UNCHANGED <<toUpload, storeVars, seen, jobVars, links, owed, stranded, cut>>

\* An uploading worker receives a message and calls upload.
TakeUpload(w, m) ==
    /\ pc[w] = "idle" /\ toUpload[m] > 0
    /\ toUpload' = [toUpload EXCEPT ![m] = @ - 1]
    /\ pc' = [pc EXCEPT ![w] = "lookup"]
    /\ cur' = [cur EXCEPT ![w] = m]
    /\ UNCHANGED <<toFetch, storeVars, seen, jobVars, history>>

-----------------------------------------------------------------------------
(* fetch.  Reading the video's formats and its stream touch nothing that   *)
(* is shared: they belong to the call that follows them.                   *)

\* Mutant of FetchLookup: the result of the lookup is not used.
FetchAnew(w) ==
    /\ w \in FetchWorkers /\ pc[w] = "lookup"
    /\ seen' = [seen EXCEPT ![w] = "absent"]
    /\ pc' = [pc EXCEPT ![w] = "probe"]
    /\ UNCHANGED <<queueVars, storeVars, cur, jobVars, history>>

\* FetchByMetadata: no row, a row without file id, or a cached file id.
FetchLookup(w) ==
    /\ w \in FetchWorkers /\ pc[w] = "lookup"
    /\ seen' = [seen EXCEPT ![w] = row[Video(w)]]
    /\ pc' = [pc EXCEPT ![w] =
                  CASE row[Video(w)] = "absent"   -> "probe"
                    [] row[Video(w)] = "uncached" -> "check"
                    [] OTHER                      -> "publish"]
    /\ UNCHANGED <<queueVars, storeVars, cur, jobVars, history>>

\* Mutant of FetchProbe: a video that is stored is published at once.
FetchProbeStored(w) ==
    /\ pc[w] = "probe"
    /\ Goto(w, IF blob[Video(w)] = "absent" THEN "create" ELSE "publish")
    /\ UNCHANGED <<queueVars, storeVars, jobVars, history>>

\* GetObject after the stream has been read.  Any object will do, and so will
\* an error other than ErrNotFound.
FetchProbe(w) ==
    /\ pc[w] = "probe"
    /\ \/ blob[Video(w)] = "absent" /\ Goto(w, "create")
       \/ blob[Video(w)] # "absent" /\ Goto(w, "save")
       \/ ("error" \in Faults \/ (ctxDone /\ Storage = "s3")) /\ Goto(w, "save")
    /\ UNCHANGED <<queueVars, storeVars, jobVars, history>>

\* Mutant of FetchCheck: the object is taken to be there.
FetchCheckNothing(w) ==
    /\ pc[w] = "check"
    /\ Goto(w, "publish")
    /\ UNCHANGED <<queueVars, storeVars, jobVars, history>>

\* GetObject for a row without file id; here an error ends fetch.
FetchCheck(w) ==
    /\ pc[w] = "check"
    /\ Goto(w, IF blob[Video(w)] = "absent" THEN "create" ELSE "publish")
    /\ UNCHANGED <<queueVars, storeVars, jobVars, history>>

AfterCreate(w) == IF seen[w] = "absent" THEN "save" ELSE "publish"

\* CreateObject of S3 replaces the object at once.
PutObject(w) ==
    /\ Storage = "s3" /\ pc[w] = "create"
    /\ blob' = [blob EXCEPT ![Video(w)] = "whole"]
    /\ Goto(w, AfterCreate(w))
    /\ UNCHANGED <<queueVars, row, opener, jobVars, history>>

\* CreateObject of FS is os.WriteFile: it truncates the file ...
OpenFile(w) ==
    /\ Storage = "fs" /\ pc[w] = "create"
    /\ blob' = [blob EXCEPT ![Video(w)] = "partial"]
    /\ opener' = [opener EXCEPT ![Video(w)] = w]
    /\ suspect' = IF row[Video(w)] = "absent" THEN suspect
                                              ELSE suspect \cup {Video(w)}
    /\ Goto(w, "writing")
    /\ UNCHANGED <<queueVars, row, jobVars, links, owed, stranded, cut>>

\* ... and then writes it.  Only the worker that truncated it last is known to
\* have written all of it, and nobody has if the file was removed meanwhile.
WriteFile(w) ==
    /\ pc[w] = "writing"
    /\ blob' = [blob EXCEPT ![Video(w)] =
                    IF opener[Video(w)] = w THEN "whole" ELSE @]
    /\ Goto(w, AfterCreate(w))
    /\ UNCHANGED <<queueVars, row, opener, jobVars, history>>

\* Save inserts the row, or overwrites the one that is there by now, with an
\* empty file id.
FetchSave(w) ==
    /\ w \in FetchWorkers /\ pc[w] = "save"
    /\ row' = [row EXCEPT ![Video(w)] = "uncached"]
    /\ Goto(w, "publish")
    /\ UNCHANGED <<queueVars, blob, opener, jobVars, history>>

\* Publish to the uploading queue and return nil.
FetchPublish(w) ==
    /\ pc[w] = "publish"
    /\ toUpload' = [toUpload EXCEPT ![[video |-> Video(w), format |-> TRUE]] =
                        @ + 1]
    /\ Return(w)
    /\ UNCHANGED <<toFetch, storeVars, jobVars, history>>

-----------------------------------------------------------------------------
(* upload.                                                                 *)

\* What a chat gets to see, from a file id or from the bytes that are sent.
Show(v, content) == cut' = IF content = "whole" THEN cut ELSE cut \cup {v}

\* Telegram takes a video and says so.
Serve(v, content) ==
    /\ owed' = [owed EXCEPT ![v] = @ - 1]
    /\ Show(v, content)
    /\ UNCHANGED <<links, stranded, suspect>>

\* Publish to the fetching queue and return nil.
Requeue(w) ==
    /\ toFetch' = [toFetch EXCEPT ![Video(w)] = @ + 1]
    /\ Return(w)
    /\ UNCHANGED <<toUpload, storeVars, jobVars, history>>

\* FetchByMetadata finds a row only for the format fetch has published.
HasRow(w) == cur[w].format /\ row[Video(w)] # "absent"

UploadUnknown(w) ==
    /\ w \in UploadWorkers /\ pc[w] = "lookup"
    /\ ~HasRow(w)
    /\ Requeue(w)

\* The cached file id is shared.
UploadShare(w) ==
    /\ w \in UploadWorkers /\ pc[w] = "lookup"
    /\ HasRow(w) /\ row[Video(w)] # "uncached"
    /\ Serve(Video(w), row[Video(w)])
    /\ Return(w)
    /\ UNCHANGED <<queueVars, storeVars, jobVars>>

UploadLookup(w) ==
    /\ w \in UploadWorkers /\ pc[w] = "lookup"
    /\ HasRow(w) /\ row[Video(w)] = "uncached"
    /\ Goto(w, "object")
    /\ UNCHANGED <<queueVars, storeVars, jobVars, history>>

\* Mutant of UploadMissing: the return after the publish is missing.
UploadMissingGoesOn(w) ==
    /\ pc[w] = "object"
    /\ blob[Video(w)] = "absent"
    /\ toFetch' = [toFetch EXCEPT ![Video(w)] = @ + 1]
    /\ Serve(Video(w), "partial")
    /\ seen' = [seen EXCEPT ![w] = "partial"]
    /\ pc' = [pc EXCEPT ![w] = "save"]
    /\ UNCHANGED <<toUpload, storeVars, cur, jobVars>>

\* GetObject finds nothing.
UploadMissing(w) ==
    /\ pc[w] = "object"
    /\ blob[Video(w)] = "absent"
    /\ Requeue(w)

\* GetObject reads what is there, and UploadFileWithContext sends it.  The
\* answer holds the file id of what was sent.
UploadSend(w) ==
    /\ pc[w] = "object"
    /\ blob[Video(w)] # "absent"
    /\ Serve(Video(w), blob[Video(w)])
    /\ pc' = [pc EXCEPT ![w] = "save"]
    /\ seen' = [seen EXCEPT ![w] = blob[Video(w)]]
    /\ UNCHANGED <<queueVars, storeVars, cur, jobVars>>

\* Mutant of UploadSave: the row is saved as it was read.
UploadSaveUnchanged(w) ==
    /\ w \in UploadWorkers /\ pc[w] = "save"
    /\ row' = [row EXCEPT ![Video(w)] = "uncached"]
    /\ Goto(w, "delete")
    /\ UNCHANGED <<queueVars, blob, opener, jobVars, history>>

\* Save keeps the file id of what has been sent.
UploadSave(w) ==
    /\ w \in UploadWorkers /\ pc[w] = "save"
    /\ row' = [row EXCEPT ![Video(w)] = seen[w]]
    /\ Goto(w, "delete")
    /\ UNCHANGED <<queueVars, blob, opener, jobVars, history>>

\* Mutant of UploadDelete: the file is emptied instead of removed.
UploadTruncate(w) ==
    /\ pc[w] = "delete"
    /\ blob' = [blob EXCEPT ![Video(w)] = "partial"]
    /\ opener' = [opener EXCEPT ![Video(w)] = w]
    /\ Return(w)
    /\ UNCHANGED <<queueVars, row, jobVars, history>>

\* DeleteObject, whoever created or is writing the object by now.
UploadDelete(w) ==
    /\ pc[w] = "delete"
    /\ blob' = [blob EXCEPT ![Video(w)] = "absent"]
    /\ opener' = [opener EXCEPT ![Video(w)] = None]
    /\ Return(w)
    /\ UNCHANGED <<queueVars, row, jobVars, history>>

-----------------------------------------------------------------------------
(* Errors, shutdown and crashes.                                           *)

\* Messages of video v in the queues.
Waiting(v) == toFetch[v] + toUpload[[video |-> v, format |-> TRUE]]
                         + toUpload[[video |-> v, format |-> FALSE]]

\* The process has a worker on v, or a job that ended in an error.
InHand(v) ==
    \/ unfetched[v] + unuploaded[v] > 0
    \/ \E w \in Workers : pc[w] # "idle" /\ Video(w) = v

BeingWritten(v) == \E w \in FetchWorkers : pc[w] = "writing" /\ Video(w) = v

\* Calls a cancelled context does not end: those of FS take none.
IgnoresContext(w) ==
    /\ Storage = "fs"
    /\ \/ pc[w] \in {"writing", "delete"}
       \/ pc[w] = "create" /\ seen[w] = "absent"

\* An error does not say that nothing was done: the commit of a row, a call of
\* S3 or of Telegram may have gone through.
TookEffect(w) ==
    \/ /\ pc[w] = "create" /\ Storage = "s3"
       /\ blob' = [blob EXCEPT ![Video(w)] = "whole"]
       /\ UNCHANGED <<row, opener, cut>>
    \/ /\ pc[w] = "save"
       /\ row' = [row EXCEPT ![Video(w)] =
                      IF w \in FetchWorkers THEN "uncached" ELSE seen[w]]
       /\ UNCHANGED <<blob, opener, cut>>
    \/ /\ w \in UploadWorkers /\ pc[w] = "lookup"
       /\ HasRow(w) /\ row[Video(w)] # "uncached"
       /\ Show(Video(w), row[Video(w)])
       /\ UNCHANGED storeVars
    \/ /\ pc[w] = "object" /\ blob[Video(w)] # "absent"
       /\ Show(Video(w), blob[Video(w)])
       /\ UNCHANGED storeVars
    \/ /\ pc[w] = "delete" /\ Storage = "s3"
       /\ blob' = [blob EXCEPT ![Video(w)] = "absent"]
       /\ UNCHANGED <<row, opener, cut>>

\* The job stays in Jobs, to be done again: an upload that Telegram has taken
\* will be served once more.
LeaveJob(w) ==
    /\ IF w \in FetchWorkers
       THEN /\ unfetched' = [unfetched EXCEPT ![Video(w)] = @ + 1]
            /\ UNCHANGED <<unuploaded, owed>>
       ELSE /\ unuploaded' = [unuploaded EXCEPT ![Video(w)] = @ + 1]
            /\ owed' = [owed EXCEPT ![Video(w)] =
                            IF pc[w] \in {"save", "delete"} THEN @ + 1 ELSE @]
            /\ UNCHANGED unfetched
    /\ Return(w)

\* The next call returns an error.  A file being written stays as it is.
GiveUp(w) ==
    /\ pc[w] # "idle"
    /\ "error" \in Faults \/ (ctxDone /\ ~IgnoresContext(w))
    /\ TookEffect(w) \/ UNCHANGED <<storeVars, cut>>
    /\ LeaveJob(w)
    /\ suspect' = IF pc[w] = "writing" THEN suspect \cup {Video(w)} ELSE suspect
    /\ UNCHANGED <<queueVars, ctxDone, links, stranded>>

Interrupt ==
    /\ "interrupt" \in Faults /\ ~ctxDone
    /\ ctxDone' = TRUE
    /\ UNCHANGED <<queueVars, storeVars, workerVars, unfetched, unuploaded,
                   history>>

\* Every worker has returned: the jobs left are published again, without a
\* format, and the bot is started anew.
Restart ==
    /\ ctxDone /\ \A w \in Workers : pc[w] = "idle"
    /\ ctxDone' = FALSE
    /\ toFetch' = [v \in Videos |-> toFetch[v] + unfetched[v]]
    /\ toUpload' = [m \in Upload |->
                        toUpload[m] + IF m.format THEN 0
                                                  ELSE unuploaded[m.video]]
    /\ unfetched' = [v \in Videos |-> 0]
    /\ unuploaded' = [v \in Videos |-> 0]
    /\ UNCHANGED <<storeVars, workerVars, history>>

\* The process dies and is started anew: files stay as they are, jobs do not.
\* Nobody owes what it was working on any more.
Crash ==
    /\ "crash" \in Faults
    /\ owed' = [v \in Videos |-> Waiting(v)]
    /\ stranded' = stranded \cup {v \in Videos : InHand(v)}
    /\ suspect' = suspect \cup {v \in Videos : BeingWritten(v)}
    /\ pc' = [w \in Workers |-> "idle"]
    /\ cur' = [w \in Workers |-> None]
    /\ opener' = [v \in Videos |-> None]
    /\ ctxDone' = FALSE
    /\ unfetched' = [v \in Videos |-> 0]
    /\ unuploaded' = [v \in Videos |-> 0]
    /\ UNCHANGED <<queueVars, row, blob, seen, links, cut>>

Fetching(w) ==
    \/ \E v \in Videos : TakeFetch(w, v)
    \/ FetchLookup(w) \/ FetchProbe(w) \/ FetchCheck(w)
    \/ PutObject(w) \/ OpenFile(w) \/ WriteFile(w)
    \/ FetchSave(w) \/ FetchPublish(w) \/ GiveUp(w)

Uploading(w) ==
    \/ \E m \in Upload : TakeUpload(w, m)
    \/ UploadUnknown(w) \/ UploadShare(w) \/ UploadLookup(w)
    \/ UploadMissing(w) \/ UploadSend(w) \/ UploadSave(w)
    \/ UploadDelete(w) \/ GiveUp(w)

Next ==
    \/ \E v \in Videos : SendLink(v)
    \/ \E w \in FetchWorkers : Fetching(w)
    \/ \E w \in UploadWorkers : Uploading(w)
    \/ Interrupt \/ Restart \/ Crash

Spec == Init /\ [][Next]_vars

\* Goroutines run; the broker hands every message to some consumer in the end.
FairSpec ==
    /\ Spec
    /\ \A w \in FetchWorkers : WF_vars(Fetching(w))
    /\ \A w \in UploadWorkers : WF_vars(Uploading(w))

-----------------------------------------------------------------------------
(* Properties.                                                             *)

\* Workers that still owe video v a message, a requeue or a delivery.
Owing(v) ==
    {w \in Workers : /\ pc[w] # "idle" /\ Video(w) = v
                     /\ w \in UploadWorkers => pc[w] \notin {"save", "delete"}}

\* Whatever the workers overlap on and whichever of their calls fail, nothing
\* is dropped and nothing is served twice: a link, or an upload to be done again
\* because it failed after Telegram took the video, is in a queue, with a worker
\* or among the jobs left for finalization, until it is served.
ServedOnce ==
    \A v \in Videos :
        owed[v] = Waiting(v) + Cardinality(Owing(v))
                      + unfetched[v] + unuploaded[v]

\* A row without file id is always on its way to getting one: although fetch
\* may overwrite the file id that an upload has just saved, and upload delete
\* the object another upload is about to read, there is a message, a worker or
\* a job left that repairs it, unless a crash took that.
UncachedIsInFlight ==
    \A v \in Videos :
        row[v] = "uncached" => Waiting(v) > 0 \/ InHand(v) \/ v \in stranded

\* Every link that no crash takes is served in the end: fetch and upload do not
\* send a video back and forth for ever.
EveryoneServed == \A v \in Videos : owed[v] > 0 ~> owed[v] = 0

\* A message that carries a format never meets a missing row, in spite of
\* errors, shutdowns and crashes at any call: fetch saves before it publishes
\* and rows are never removed.  So upload sends such a video back to fetching
\* only because its object is gone.
RowBeforeUpload ==
    \A v \in Videos :
        \/ row[v] # "absent"
        \/ /\ toUpload[[video |-> v, format |-> TRUE]] = 0
           /\ \A w \in UploadWorkers : cur[w] # None =>
                  cur[w] # [video |-> v, format |-> TRUE]

\* Telegram is only given whole videos, and only their file ids are cached.
DeliveredWhole == cut = {} /\ \A v \in Videos : row[v] # "partial"

\* A truncated video is sent, or its file id cached, only if a write of its file
\* was cut short, or two fetches of it overlapped, or a fetch created the file
\* again although its row was there: nothing else, however many workers there
\* are and whatever fails, lets an upload read between the truncation and the
\* end of os.WriteFile.
TruncationHasCause ==
    \A v \in Videos : v \in cut \/ row[v] = "partial" => v \in suspect

\* Fetches that found no row and have yet to save one, with an empty file id.
Inserts(v) ==
    {w \in FetchWorkers : /\ pc[w] \in {"probe", "create", "writing", "save"}
                          /\ Video(w) = v /\ seen[w] = "absent"}

Cached(v) == row[v] \notin {"absent", "uncached"}

\* A file id that is cached when no fetch is about to insert the row stays
\* cached, whatever overlaps, fails or crashes after that: only a fetch that
\* looked before there was a row can make the bot upload a video again.
CacheSettles ==
    [][\A v \in Videos : Cached(v) /\ Inserts(v) = {} =>
                             Cached(v)' /\ Inserts(v)' = {}]_vars

=============================================================================
