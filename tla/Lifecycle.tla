------------------------------ MODULE Lifecycle ------------------------------
(***************************************************************************)
(* The bot as a process (cmd/cribe-bot/main.go): Setup of what it depends  *)
(* on (internal/srvenv), the signal watcher (internal/shutdown), polling   *)
(* or webhook mode, the goroutines of Run as far as they start and end the *)
(* process, and the supervisor that starts it again.  What the goroutines  *)
(* do between their start and their end is Dispatcher's.                   *)
(***************************************************************************)
EXTENDS Integers

CONSTANT UpdateWorkers    \* number of goroutines running dispatchingMessages

ASSUME UpdateWorkersOK == UpdateWorkers \in Nat \ {0}

Deps == {"redis", "telegram", "amqp", "db"}

\* What the environment variables choose.  "fs" stands for S3 as well: neither
\* is talked to before the first video.
Configs == [mode    : {"polling", "webhook"},
            session : {"redis", "in_memory", "unknown"},
            storage : {"fs", "unknown"}]

VARIABLES
    cfg,        \* the configuration, the same for every run
    up,         \* dependencies that answer
    calm,       \* from now on everything answers and nobody interferes
    stage,      \* how far main is
    ctxDone,    \* the context of Run is cancelled
    signalled,  \* a signal waits in the channel of the watcher, or has done so
    health,     \* the server of /health: "off", "serving" or "failed"
    hook,       \* the goroutine that listens for the webhook has been started
    connected,  \* the AMQP connection
    consumers,  \* fetching and uploading: "off", "setup", "taking" or "gone"
    updates,    \* the updates channel: "none", "open" or "closed"
    updaters,   \* update workers still ranging over it
    \* history
    took,       \* a consumer of this process has taken a message
    finalized,  \* finalization: "no", "failed" or "done"
    ended       \* how the process ended: "not", "returned", "fatal", "panic"
                \* or "killed"

envVars  == <<cfg, up, calm>>
mainVars == <<stage, ctxDone, signalled, health, hook>>
runVars  == <<connected, consumers, updates, updaters>>
history  == <<took, finalized, ended>>
vars == <<envVars, mainVars, runVars, history>>

SetupStages == {"session", "telegram", "amqp", "db", "mode"}

LifecycleTypeOK ==
    /\ cfg \in Configs
    /\ up \subseteq Deps /\ calm \in BOOLEAN
    /\ stage \in SetupStages \cup {"running", "down"}
    /\ ctxDone \in BOOLEAN /\ signalled \in BOOLEAN
    /\ health \in {"off", "serving", "failed"} /\ hook \in BOOLEAN
    /\ connected \in BOOLEAN
    /\ consumers \in {"off", "setup", "taking", "gone"}
    /\ updates \in {"none", "open", "closed"}
    /\ updaters \in 0 .. UpdateWorkers
    /\ took \in BOOLEAN
    /\ finalized \in {"no", "failed", "done"}
    /\ ended \in {"not", "returned", "fatal", "panic", "killed"}

Init ==
    /\ cfg \in Configs /\ up \in SUBSET Deps /\ calm = FALSE
    /\ stage = "session" /\ ctxDone = FALSE /\ signalled = FALSE
    /\ health = "off" /\ hook = FALSE
    /\ connected = FALSE /\ consumers = "off" /\ updates = "none" /\ updaters = 0
    /\ took = FALSE /\ finalized = "no" /\ ended = "not"

Alive == stage # "down"

Die(how) ==
    /\ stage' = "down" /\ ended' = how
    /\ UNCHANGED <<envVars, ctxDone, signalled, health, hook, runVars, took>>

-----------------------------------------------------------------------------
(* The environment.                                                        *)

\* Dependencies come and go; a connection that ends is not opened again.
Outage ==
    /\ ~calm
    /\ up' \in SUBSET Deps
    /\ connected' = (connected /\ "amqp" \in up')
    /\ UNCHANGED <<cfg, calm, mainVars, consumers, updates, updaters, history>>

Settle ==
    /\ ~calm
    /\ calm' = TRUE /\ up' = Deps
    /\ UNCHANGED <<cfg, mainVars, runVars, history>>

\* SIGINT or SIGTERM.  The channel holds one signal and one is read: the
\* others are swallowed.
Signal ==
    /\ ~calm /\ Alive /\ ~signalled
    /\ signalled' = TRUE
    /\ UNCHANGED <<envVars, stage, ctxDone, health, hook, runVars, history>>

\* SIGKILL.
Kill ==
    /\ ~calm /\ Alive
    /\ Die("killed")
    /\ UNCHANGED finalized

\* Mutant of Start: the supervisor restarts the bot when it has failed.
StartAfterFailure ==
    /\ ~Alive /\ ended # "returned"
    /\ stage' = "session" /\ ctxDone' = FALSE /\ signalled' = FALSE
    /\ health' = "off" /\ hook' = FALSE
    /\ connected' = FALSE /\ consumers' = "off"
    /\ updates' = "none" /\ updaters' = 0
    /\ took' = FALSE /\ finalized' = "no" /\ ended' = "not"
    /\ UNCHANGED envVars

\* restart: always.
Start ==
    /\ ~Alive
    /\ stage' = "session" /\ ctxDone' = FALSE /\ signalled' = FALSE
    /\ health' = "off" /\ hook' = FALSE
    /\ connected' = FALSE /\ consumers' = "off"
    /\ updates' = "none" /\ updaters' = 0
    /\ took' = FALSE /\ finalized' = "no" /\ ended' = "not"
    /\ UNCHANGED envVars

-----------------------------------------------------------------------------
(* Setup and setupTelegramMode.  Neither looks at the context.             *)

\* What a stage talks to.  A session backend other than Redis is taken as it
\* is, and so is a missing one.
Needs(s) ==
    CASE s = "session" -> IF cfg.session = "redis" THEN {"redis"} ELSE {}
      [] s = "mode"    -> {"telegram"}
      [] OTHER         -> {s}

\* main goes through Setup and starts the server of /health.
SetUp(s, next) ==
    /\ stage = s /\ Needs(s) \subseteq up
    /\ stage' = next
    /\ connected' = (connected \/ s = "amqp")
    /\ health' = IF s = "db" THEN "serving" ELSE health
    /\ UNCHANGED <<envVars, ctxDone, signalled, hook, consumers, updates,
                   updaters, history>>

\* An error of Setup, or of setupTelegramMode inside Run, is fatal.
SetUpFails ==
    /\ stage \in SetupStages /\ ~(Needs(stage) \subseteq up)
    /\ Die("fatal")
    /\ UNCHANGED finalized

\* Run has its updates channel and starts its goroutines; in webhook mode one
\* of them is to listen.
StartWorkers ==
    /\ stage = "mode" /\ Needs("mode") \subseteq up
    /\ stage' = "running"
    /\ hook' = (cfg.mode = "webhook")
    /\ consumers' = "setup"
    /\ updates' = "open" /\ updaters' = UpdateWorkers
    /\ UNCHANGED <<envVars, ctxDone, signalled, health, connected, history>>

\* NewRedis pings, other backends do not even connect.
SetUpSession == SetUp("session", "telegram")

SetUpTelegram == SetUp("telegram", "amqp")

\* The one connection to the broker, and the storage, which may turn out nil.
SetUpAMQP == SetUp("amqp", "db")

\* The pool of the database connects at once.
SetUpDB == SetUp("db", "mode")

SettingUp ==
    SetUpSession \/ SetUpTelegram \/ SetUpAMQP \/ SetUpDB \/ SetUpFails
        \/ StartWorkers

-----------------------------------------------------------------------------
(* Goroutines of main.                                                     *)

\* Mutant of WatchSignal: the watcher is only there while the bot starts.
WatchWhileStarting ==
    /\ stage \in SetupStages /\ signalled /\ ~ctxDone
    /\ ctxDone' = TRUE
    /\ UNCHANGED <<envVars, stage, signalled, health, hook, runVars, history>>

\* The watcher of InterruptContext.
WatchSignal ==
    /\ Alive /\ signalled /\ ~ctxDone
    /\ ctxDone' = TRUE
    /\ UNCHANGED <<envVars, stage, signalled, health, hook, runVars, history>>

\* Mutant of HealthFails: the error is fatal.
HealthFatal ==
    /\ ~calm /\ Alive /\ health = "serving"
    /\ Die("fatal")
    /\ UNCHANGED finalized

\* The server of /health cannot listen: the context is cancelled.
HealthFails ==
    /\ ~calm /\ Alive /\ health = "serving"
    /\ health' = "failed" /\ ctxDone' = TRUE
    /\ UNCHANGED <<envVars, stage, signalled, hook, runVars, history>>

\* http.ListenAndServe is given the URL that Telegram is to call, which is no
\* address to listen on: it fails and ends the process.
HookFails ==
    /\ Alive /\ hook
    /\ Die("fatal")
    /\ UNCHANGED finalized

-----------------------------------------------------------------------------
(* Goroutines of Run.                                                      *)

Running == stage = "running"

ConsumersStart ==
    /\ Running /\ consumers = "setup" /\ connected
    /\ consumers' = "taking"
    /\ UNCHANGED <<envVars, mainVars, connected, updates, updaters, history>>

\* A consumer that cannot be set up cancels the context of all.
ConsumersFail ==
    /\ Running /\ consumers = "setup" /\ ~connected
    /\ consumers' = "gone" /\ ctxDone' = TRUE
    /\ UNCHANGED <<envVars, stage, signalled, health, hook, connected, updates,
                   updaters, history>>

\* A consumer takes a message, for which the broker has its acknowledgement.
TakeMessage ==
    /\ Running /\ consumers = "taking" /\ ~took
    /\ took' = TRUE
    /\ UNCHANGED <<envVars, mainVars, runVars, finalized, ended>>

\* ProvideStorageFor knows no such type: the first use of the nil Blob panics.
BlobPanics ==
    /\ Running /\ consumers = "taking" /\ took /\ cfg.storage = "unknown"
    /\ Die("panic")
    /\ UNCHANGED finalized

\* Telegram has taken a video and answers with a message that has no Video, as it
\* does when it classifies the file otherwise: upload panics.
VideoPanics ==
    /\ ~calm /\ Running /\ consumers = "taking" /\ took
    /\ cfg.storage # "unknown"
    /\ Die("panic")
    /\ UNCHANGED finalized

\* The channels of the consumers are closed, by the context or by the end of
\* the connection, which cancels nothing.
ConsumersReturn ==
    /\ Running /\ consumers = "taking" /\ (ctxDone \/ ~connected)
    /\ consumers' = "gone"
    /\ UNCHANGED <<envVars, mainVars, connected, updates, updaters, history>>

\* The client polls only in polling mode; a webhook that nobody listens for
\* gets nothing.
UpdateComes == Running /\ cfg.mode = "polling" /\ updates = "open" /\ updaters > 0

\* Mutant of TakeCommand: a command stops a worker that may not be there.
TakeCommandAnyway ==
    /\ ~calm /\ Running /\ cfg.mode = "polling" /\ updates = "open"
    /\ updaters' = updaters - 1
    /\ UNCHANGED <<envVars, mainVars, connected, consumers, updates, history>>

\* A command makes the worker that reads it return.
TakeCommand ==
    /\ ~calm /\ UpdateComes
    /\ updaters' = updaters - 1
    /\ UNCHANGED <<envVars, mainVars, connected, consumers, updates, history>>

\* InMemoryBackend is not implemented, and an unknown type leaves the backend
\* nil: the first message panics.
SessionPanics ==
    /\ UpdateComes /\ cfg.session # "redis"
    /\ Die("panic")
    /\ UNCHANGED finalized

\* StopReceivingUpdates ends the polling, which closes the channel.  In webhook
\* mode nothing is polled, and nothing closes it.
StopPolling ==
    /\ Running /\ ctxDone /\ cfg.mode = "polling" /\ updates = "open"
    /\ updates' = "closed"
    /\ UNCHANGED <<envVars, mainVars, connected, consumers, updaters, history>>

UpdatersReturn ==
    /\ Running /\ updates = "closed" /\ updaters > 0
    /\ updaters' = 0
    /\ UNCHANGED <<envVars, mainVars, connected, consumers, updates, history>>

\* wg.Wait returns, finalization follows, and main returns if it succeeds.
Finalize ==
    /\ Running /\ consumers = "gone" /\ updaters = 0
    /\ finalized' = IF connected THEN "done" ELSE "failed"
    /\ Die(IF connected THEN "returned" ELSE "fatal")

Next ==
    \/ Outage \/ Settle \/ Signal \/ Kill \/ Start
    \/ SettingUp
    \/ WatchSignal \/ HealthFails \/ HookFails
    \/ ConsumersStart \/ ConsumersFail \/ TakeMessage \/ BlobPanics
    \/ VideoPanics \/ ConsumersReturn
    \/ TakeCommand \/ SessionPanics \/ StopPolling \/ UpdatersReturn
    \/ Finalize

Spec == Init /\ [][Next]_vars

\* Goroutines run, calls of a dependency end, with or without an error, and the
\* supervisor starts what has ended.
FairSpec ==
    /\ Spec
    /\ WF_vars(Start) /\ WF_vars(SettingUp)
    /\ WF_vars(WatchSignal) /\ WF_vars(HookFails)
    /\ WF_vars(ConsumersStart) /\ WF_vars(ConsumersFail)
    /\ WF_vars(ConsumersReturn)
    /\ WF_vars(StopPolling) /\ WF_vars(UpdatersReturn) /\ WF_vars(Finalize)

-----------------------------------------------------------------------------
(* Properties.                                                             *)

\* Configurations the code can run in.  Any other ends every process by a panic
\* or, in webhook mode, by the listener's fatal error.
Supported ==
    cfg.mode = "polling" /\ cfg.session = "redis" /\ cfg.storage # "unknown"

\* A process that has taken messages off the broker, and so holds what nobody
\* else does, skips finalization only if it is ended by SIGKILL, by a panic (an
\* answer without Video, a backend that is missing or not implemented), or by the
\* Fatalf of the webhook listener.  Every signal, outage, command and other error,
\* a /health that cannot listen included, goes through wg.Wait to finalization,
\* which publishes the jobs or has tried to.
NoErrorSkipsFinalization ==
    stage = "down" /\ took =>
        \/ finalized # "no"
        \/ ended \in {"killed", "panic"}
        \/ ended = "fatal" /\ cfg.mode = "webhook"

\* A signal ends the process, whatever it was doing: in the middle of Setup,
\* with its dependencies gone, after another signal, in webhook mode.
SignalEndsProcess == signalled ~> stage = "down"

Serves == Running /\ ~ctxDone /\ consumers = "taking" /\ updaters > 0

\* Run goes on although commands have ended its update workers, or the end of
\* the connection its consumers.
Outlived == Running /\ ~ctxDone /\ (consumers = "gone" \/ updaters = 0)

\* However often Setup failed and the process was stopped or killed: once
\* everything answers, restarts lead to a bot that serves for good.  Only a
\* process that has outlived its workers stands in the way: nothing ends that.
ServesInTheEnd == calm /\ Supported ~> []Serves \/ []Outlived

=============================================================================
