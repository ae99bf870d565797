------------------------------ MODULE JobList ------------------------------
(***************************************************************************)
(* The data the dispatcher's workers share: the payload of an AMQP         *)
(* message, the Job record of Dispatcher.Jobs and the operations the code  *)
(* performs on that slice under Dispatcher.mtx (internal/bot/server.go).   *)
(***************************************************************************)
EXTENDS Integers, Sequences, FiniteSets, SequencesExt

CONSTANTS
    Videos,   \* YouTube video ids
    Chats     \* Telegram chat ids

\* The two durable queues; a job's kind is the queue its message came from.
Kinds == {"fetching", "uploading"}

\* One AMQP message.  "format" stands for the Mime and Quality fields: TRUE
\* when fetch filled them in, FALSE when they are empty strings.
Payload == [video : Videos, chat : Chats, format : BOOLEAN]

Job == [kind : Kinds, video : Videos, chat : Chats]

\* The request a payload or a job answers: a chat that wants a video.
Request == Chats \X Videos
RequestOf(x) == <<x.chat, x.video>>
Requests(s) == {RequestOf(s[i]) : i \in DOMAIN s}

-----------------------------------------------------------------------------
\* Mutant of JobOf: the payload is kept whole.
JobOfWhole(kind, p) ==
    [kind |-> kind, video |-> p.video, chat |-> p.chat, format |-> p.format]

\* A worker records a message as a job before it processes it: only the video
\* and the chat are kept.
JobOf(kind, p) == [kind |-> kind, video |-> p.video, chat |-> p.chat]

\* What finalization publishes for a job: Mime and Quality are not known.
PayloadOf(j) == [video |-> j.video, chat |-> j.chat, format |-> FALSE]

\* The positions of the slice that hold a job of that video and kind.
Entries(jobs, video, kind) ==
    {i \in DOMAIN jobs : jobs[i].video = video /\ jobs[i].kind = kind}

\* Mutant of DeleteJob: the kind is not compared.
DeleteJobOfVideo(jobs, video, kind) ==
    LET matching == {i \in DOMAIN jobs : jobs[i].video = video} IN
    IF matching = {} THEN jobs
    ELSE RemoveAt(jobs, CHOOSE i \in matching : \A j \in matching : i <= j)

\* deleteJob drops the first job of that video and kind, whichever chat it is
\* for, and leaves the slice alone when there is none.
DeleteJob(jobs, video, kind) ==
    LET matching == Entries(jobs, video, kind) IN
    IF matching = {} THEN jobs
    ELSE RemoveAt(jobs, CHOOSE i \in matching : \A j \in matching : i <= j)

=============================================================================
