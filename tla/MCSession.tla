------------------------------ MODULE MCSession ------------------------------
(* A finite instance of Session for TLC. *)
EXTENDS Session, TLC

CONSTANTS alice, bob, d1, d2

SessionSymmetry == Permutations(Users) \cup Permutations(UpdateWorkers)

=============================================================================
