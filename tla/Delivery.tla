------------------------------ MODULE Delivery ------------------------------
(***************************************************************************)
(* What the bot promises about a request, with no queue, worker, job or    *)
(* process in sight: a request it accepts stays pending until it has been  *)
(* answered or was dropped.  Dispatcher implements this specification when *)
(* no two chats ask for the same video.                                    *)
(***************************************************************************)
CONSTANT Promised    \* what users may ask for

VARIABLES
    pending,     \* accepted, and somebody still has to do something about it
    delivered,   \* the video was sent
    apologised,  \* an error message was sent
    dropped      \* given up without being finished

deliveryVars == <<pending, delivered, apologised, dropped>>

Settled == delivered \cup apologised \cup dropped

DeliveryInit ==
    pending = {} /\ delivered = {} /\ apologised = {} /\ dropped = {}

\* The bot takes a request on; it may drop it in the same breath.
Accept(r) ==
    /\ \/ pending' = pending \cup {r} /\ UNCHANGED dropped
       \/ dropped' = dropped \cup {r} /\ UNCHANGED pending
    /\ UNCHANGED <<delivered, apologised>>

\* The bot tells the user that it will not take the request on.
Refuse(r) ==
    /\ apologised' = apologised \cup {r}
    /\ UNCHANGED <<pending, delivered, dropped>>

\* A pending request is answered, by the video, by an error message or, when
\* something fails after the video was sent, by both.
Answer(r) ==
    /\ r \in pending
    /\ delivered' \in {delivered, delivered \cup {r}}
    /\ apologised' \in {apologised, apologised \cup {r}}
    /\ UNCHANGED <<pending, dropped>>

\* A request the bot is through with is forgotten.
Forget(r) ==
    /\ r \in pending \cap Settled
    /\ pending' = pending \ {r}
    /\ UNCHANGED <<delivered, apologised, dropped>>

\* Messages or memory are lost, and some of the requests in them for good.
Drop(rs) ==
    /\ rs \subseteq pending
    /\ dropped' = dropped \cup rs
    /\ pending' \subseteq pending /\ pending \ rs \subseteq pending'
    /\ UNCHANGED <<delivered, apologised>>

DeliveryNext ==
    \/ \E r \in Promised : Accept(r) \/ Refuse(r) \/ Answer(r) \/ Forget(r)
    \/ \E rs \in SUBSET Promised : Drop(rs)

DeliverySpec == DeliveryInit /\ [][DeliveryNext]_deliveryVars

=============================================================================
