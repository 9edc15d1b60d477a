----------------------------- MODULE MatchingMC -----------------------------
(* Small instances of Matching.  Requests are interchangeable, and so are     *)
(* users (ids are never compared but through the unordered pair): symmetry    *)
(* for the runs that check an invariant only.                              *)
EXTENDS Matching, TLC

Symmetry == Permutations(Procs) \cup Permutations(Users)
=============================================================================
