---------------------------- MODULE MCDispatcher ----------------------------
(* Finite instances of Dispatcher for TLC. *)
EXTENDS Dispatcher, TLC

CONSTANTS v1, v2, c1, c2, f1, f2, u1, d1, d2, start

\* One video per chat: two requests that share nothing.
ApartLinks == {<<c1, v1>>, <<c2, v2>>}

\* Two chats that ask for the same video.
SharedLinks == {<<c1, v1>>, <<c2, v1>>}

OneLink == {<<c1, v1>>}

\* Consumers of one kind are interchangeable, and so are update workers.
WorkerSymmetry ==
    Permutations(FetchWorkers) \cup Permutations(UpdateWorkers)

=============================================================================
