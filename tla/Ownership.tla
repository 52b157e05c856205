----------------------------- MODULE Ownership ------------------------------
(***************************************************************************)
(* Whose a listing is, as every component that reads posts.user_id sees    *)
(* it: a listing gets an owner when it is made, that owner has an account, *)
(* and when the account goes its listings lose their owner in the same     *)
(* step, for good.                                                         *)
(***************************************************************************)
CONSTANTS Users, Posts, Nobody

VARIABLES
  accounts,
  made,    \* listings that were ever made
  holder   \* whose each listing is, or Nobody

ownershipVars == <<accounts, made, holder>>

OwnershipInit ==
  /\ accounts = Users /\ made \subseteq Posts
  /\ holder \in [Posts -> Users \cup {Nobody}]
  /\ \A p \in Posts \ made : holder[p] = Nobody

Give(p, u) ==
  /\ p \in Posts \ made /\ u \in accounts
  /\ made' = made \cup {p} /\ holder' = [holder EXCEPT ![p] = u]
  /\ UNCHANGED accounts

Leave(u) ==
  /\ u \in accounts /\ accounts' = accounts \ {u}
  /\ holder' = [p \in Posts |-> IF holder[p] = u THEN Nobody ELSE holder[p]]
  /\ UNCHANGED made

OwnershipNext == \E u \in Users : Leave(u) \/ \E p \in Posts : Give(p, u)

OwnershipSpec == OwnershipInit /\ [][OwnershipNext]_ownershipVars
=============================================================================
