------------------------------- MODULE MCMedia -------------------------------
(* Finite instances of Media for TLC. *)
EXTENDS Media, TLC

CONSTANTS v1, v2, f1, f2, u1, u2

WorkerSymmetry == Permutations(FetchWorkers) \cup Permutations(UploadWorkers)

=============================================================================
