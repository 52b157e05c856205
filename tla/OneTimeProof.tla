---------------------------- MODULE OneTimeProof ----------------------------
(***************************************************************************)
(* What phone verification promises, and nothing else: a text proves a     *)
(* phone number, a proof is worth one ticket, and a proof that was given   *)
(* up is worth none.                                                       *)
(***************************************************************************)
CONSTANTS Proofs, Tickets

VARIABLES
  proved,   \* proofs whose text arrived
  void,     \* proofs that were given up
  paidOut   \* <<proof, ticket>>: what proofs were redeemed for

proofVars == <<proved, void, paidOut>>

ProofTypeOK == proved \subseteq Proofs /\ void \subseteq Proofs /\ paidOut \subseteq Proofs \X Tickets

Redeemed(p) == \E x \in paidOut : x[1] = p

ProofInit == proved = {} /\ void = {} /\ paidOut = {}

Prove(p) == proved' = proved \cup {p} /\ UNCHANGED <<void, paidOut>>

GiveUp(p) == ~Redeemed(p) /\ void' = void \cup {p} /\ UNCHANGED <<proved, paidOut>>

Redeem(p, t) ==
  /\ p \in proved \ void /\ ~Redeemed(p) /\ \A x \in paidOut : x[2] # t
  /\ paidOut' = paidOut \cup {<<p, t>>}
  /\ UNCHANGED <<proved, void>>

ProofNext == \E p \in Proofs : Prove(p) \/ GiveUp(p) \/ \E t \in Tickets : Redeem(p, t)

ProofSpec == ProofInit /\ [][ProofNext]_proofVars
=============================================================================
