------------------------------- MODULE MCChat -------------------------------
\* An instance of Chat for TLC.
EXTENDS Chat, TLC

CONSTANT Shop   \* the one account that owns the listings

MCOwner == [p \in Posts |-> Shop]
Symmetry == Permutations(Callers)
=============================================================================
