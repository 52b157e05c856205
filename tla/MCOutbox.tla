------------------------------ MODULE MCOutbox ------------------------------
(* Instances of Outbox for TLC. *)
EXTENDS Outbox, TLC

CONSTANTS n1, n2

Interchangeable == Permutations(Senders)
BothInOrder == {<<n1, n2>>}
AnyOrder == {<<n1, n2>>, <<n2, n1>>, <<n2>>}
=============================================================================
