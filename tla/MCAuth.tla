------------------------------- MODULE MCAuth -------------------------------
(* Instances of Auth for TLC. *)
EXTENDS Auth, TLC

Interchangeable == Permutations(Callers) \cup Permutations(Phones)
=============================================================================
