----------------------------- MODULE MCListing ------------------------------
(* Instances of Listing for TLC. *)
EXTENDS Listing, TLC

Interchangeable == Permutations(Posts) \cup Permutations(Contents) \cup Permutations(Callers)
=============================================================================
