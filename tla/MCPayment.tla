----------------------------- MODULE MCPayment -----------------------------
(* Instances of Payment for TLC: symmetry of ids that no fairness names. *)
EXTENDS Payment, TLC

Ids == Permutations(Payments) \cup Permutations(Users)
=============================================================================
