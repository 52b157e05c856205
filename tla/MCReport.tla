------------------------------ MODULE MCReport ------------------------------
\* An instance of Report for TLC.
EXTENDS Report, TLC

CONSTANT Shop   \* the one account that owns the listings and is reviewed

MCSeller == [p \in Listings |-> Shop]
MCDeals == (Accounts \ {Shop}) \X {Shop}
Symmetry == Permutations(Requests) \cup Permutations(Accounts \ {Shop})
=============================================================================
