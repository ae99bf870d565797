------------------------------ MODULE Session ------------------------------
(***************************************************************************)
(* Dispatcher.handleMessage with the session of a user: the state machine  *)
(* of pkg/botstate, loaded from a backend all update workers share and     *)
(* flushed to it afterwards.  Several workers may hold messages of the     *)
(* same user, each with a machine of its own.                              *)
(***************************************************************************)
EXTENDS Integers

CONSTANTS
    Users,           \* Telegram users
    UpdateWorkers,   \* goroutines that call handleMessage
    MaxMessages,     \* bound: messages received
    None             \* no user; no session in the backend

ASSUME SessionConstantsOK == MaxMessages \in Nat /\ None \notin Users

Default == "init"
ParsingVideoState == "parsing_video"
States == {Default, ParsingVideoState}
Events == {"noop", "parse_video", "go_to_default"}

\* provideFSM: the events each state accepts, and where they lead.
Transition ==
    [s \in States |->
        IF s = Default
        THEN [e \in {"parse_video"} |-> ParsingVideoState]
        ELSE [e \in {"go_to_default"} |-> Default]]

\* Mutant of ActionEvent: parsing leaves the machine where it is.
ActionEventStays(s) == "noop"

\* What the action of a state returns: DefaultAction does nothing, and
\* ParsingAction goes back however parsing and publishing end.
ActionEvent(s) == IF s = ParsingVideoState THEN "go_to_default" ELSE "noop"

\* StateEncoded; the zero value of a StateType is the empty string.
Stored == [current : States, previous : States \cup {""}]

VARIABLES
    backend,  \* per user, the stored session or None
    pc,       \* per worker: where handleMessage is
    user,     \* per worker: whose message it handles
    curr, prev, event,   \* per worker: its state machine and pending event
    parses,   \* per worker: calls of ParsingAction for this message
    received  \* messages received

machine == <<curr, prev, event, parses>>
vars == <<backend, pc, user, machine, received>>

SessionTypeOK ==
    /\ backend \in [Users -> Stored \cup {None}]
    /\ pc \in [UpdateWorkers ->
                  {"idle", "load", "loaded", "event", "action", "flush"}]
    /\ user \in [UpdateWorkers -> Users \cup {None}]
    /\ curr \in [UpdateWorkers -> States \cup {""}]
    /\ \A d \in UpdateWorkers : pc[d] \notin {"idle", "load"} => curr[d] # ""
    /\ prev \in [UpdateWorkers -> States \cup {""}]
    /\ event \in [UpdateWorkers -> Events]
    /\ parses \in [UpdateWorkers -> Nat]
    /\ received \in Nat

Init ==
    /\ backend = [u \in Users |-> None]
    /\ pc = [d \in UpdateWorkers |-> "idle"]
    /\ user = [d \in UpdateWorkers |-> None]
    /\ curr = [d \in UpdateWorkers |-> ""]
    /\ prev = [d \in UpdateWorkers |-> ""]
    /\ event = [d \in UpdateWorkers |-> "noop"]
    /\ parses = [d \in UpdateWorkers |-> 0]
    /\ received = 0

Goto(d, label) == pc' = [pc EXCEPT ![d] = label]

-----------------------------------------------------------------------------
\* A message arrives; a new machine is made for it.
Receive(d, u) ==
    /\ pc[d] = "idle" /\ received < MaxMessages
    /\ Goto(d, "load")
    /\ user' = [user EXCEPT ![d] = u]
    /\ curr' = [curr EXCEPT ![d] = ""]
    /\ prev' = [prev EXCEPT ![d] = ""]
    /\ event' = [event EXCEPT ![d] = "noop"]
    /\ parses' = [parses EXCEPT ![d] = 0]
    /\ received' = received + 1
    /\ UNCHANGED backend

\* Mutant of LoadNew: the machine is left as it was made.
LoadNewUnset(d) ==
    /\ pc[d] = "load" /\ backend[user[d]] = None
    /\ Goto(d, "loaded")
    /\ UNCHANGED <<backend, user, machine, received>>

\* Load, when the backend has no session: ErrSessionNotFound.
LoadNew(d) ==
    /\ pc[d] = "load" /\ backend[user[d]] = None
    /\ curr' = [curr EXCEPT ![d] = Default]
    /\ Goto(d, "loaded")
    /\ UNCHANGED <<backend, user, prev, event, parses, received>>

\* Mutant of LoadStored: the two states are swapped.
LoadStoredSwapped(d) ==
    /\ pc[d] = "load" /\ backend[user[d]] # None
    /\ curr' = [curr EXCEPT ![d] = backend[user[d]].previous]
    /\ prev' = [prev EXCEPT ![d] = backend[user[d]].current]
    /\ Goto(d, "loaded")
    /\ UNCHANGED <<backend, user, event, parses, received>>

\* Load, when it has one.
LoadStored(d) ==
    /\ pc[d] = "load" /\ backend[user[d]] # None
    /\ curr' = [curr EXCEPT ![d] = backend[user[d]].current]
    /\ prev' = [prev EXCEPT ![d] = backend[user[d]].previous]
    /\ Goto(d, "loaded")
    /\ UNCHANGED <<backend, user, event, parses, received>>

\* Load fails, or Flush does: the error is only logged.
BackendFails(d) ==
    /\ pc[d] \in {"load", "flush"}
    /\ Goto(d, "idle")
    /\ UNCHANGED <<backend, user, machine, received>>

\* Only a machine in the Default state is sent the event; a message that finds
\* it elsewhere is ignored.
Dispatch(d) ==
    /\ pc[d] = "loaded"
    /\ IF curr[d] = Default
       THEN event' = [event EXCEPT ![d] = "parse_video"] /\ Goto(d, "event")
       ELSE UNCHANGED event /\ Goto(d, "flush")
    /\ UNCHANGED <<backend, user, curr, prev, parses, received>>

\* SendEvent, the first half of a turn of its loop: the transition, or
\* ErrEventRejected, upon which handleMessage returns before Flush.
Move(d) ==
    /\ pc[d] = "event"
    /\ IF event[d] \in DOMAIN Transition[curr[d]]
       THEN /\ prev' = [prev EXCEPT ![d] = curr[d]]
            /\ curr' = [curr EXCEPT ![d] = Transition[curr[d]][event[d]]]
            /\ Goto(d, "action")
       ELSE UNCHANGED <<prev, curr>> /\ Goto(d, "idle")
    /\ UNCHANGED <<backend, user, event, parses, received>>

\* The second half: the action of the new state runs and names the next event.
Execute(d) ==
    /\ pc[d] = "action"
    /\ event' = [event EXCEPT ![d] = ActionEvent(curr[d])]
    /\ parses' = [parses EXCEPT ![d] =
                      @ + IF curr[d] = ParsingVideoState THEN 1 ELSE 0]
    /\ Goto(d, IF ActionEvent(curr[d]) = "noop" THEN "flush" ELSE "event")
    /\ UNCHANGED <<backend, user, curr, prev, received>>

Flush(d) ==
    /\ pc[d] = "flush"
    /\ backend' = [backend EXCEPT ![user[d]] =
                       [current |-> curr[d], previous |-> prev[d]]]
    /\ Goto(d, "idle")
    /\ UNCHANGED <<user, machine, received>>

\* Redis forgets a session after REDIS_EXPIRATION.
Expire(u) ==
    /\ backend[u] # None
    /\ backend' = [backend EXCEPT ![u] = None]
    /\ UNCHANGED <<pc, user, machine, received>>

Handle(d) ==
    \/ \E u \in Users : Receive(d, u)
    \/ LoadNew(d) \/ LoadStored(d) \/ BackendFails(d) \/ Dispatch(d)
    \/ Move(d) \/ Execute(d) \/ Flush(d)

Next == (\E d \in UpdateWorkers : Handle(d)) \/ (\E u \in Users : Expire(u))

Spec == Init /\ [][Next]_vars

-----------------------------------------------------------------------------
\* No session is ever stored in, or loaded with, a state in which handleMessage
\* ignores the user: that would last until the session expires, and each
\* message that is ignored puts it off, since Flush stores it anew.
NobodyMuted ==
    /\ \A u \in Users : backend[u] # None => backend[u].current = Default
    /\ \A d \in UpdateWorkers : pc[d] = "loaded" => curr[d] = Default

\* SendEvent runs ParsingAction exactly once for every message whose session
\* could be loaded, whatever the workers that handle other messages of that
\* user do meanwhile, and none of its events is rejected.
ParsedOnce ==
    \A d \in UpdateWorkers :
        /\ pc[d] = "flush" => parses[d] = 1
        /\ pc[d] = "event" => event[d] \in DOMAIN Transition[curr[d]]

=============================================================================
