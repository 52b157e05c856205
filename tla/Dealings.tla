------------------------------ MODULE Dealings ------------------------------
(***************************************************************************)
(* Who has dealt with whom, which is what entitles a customer to review a  *)
(* provider: a finished booking or an answered chat, of two people who     *)
(* both have accounts.  Once earned it is kept, until one of the two goes. *)
(* Bookings and chats make it so, reviews rely on it.                      *)
(***************************************************************************)
CONSTANT People

VARIABLES
  people,
  dealt    \* <<customer, provider>>

dealingsVars == <<people, dealt>>

Pairs == {d \in people \X people : d[1] # d[2]}

DealingsInit == people = People /\ dealt = {}

Earn ==
  /\ dealt \subseteq dealt' /\ dealt' \subseteq dealt \cup Pairs
  /\ UNCHANGED people

Part(u) ==
  /\ u \in people
  /\ people' = people \ {u} /\ dealt' = {d \in dealt : u \notin {d[1], d[2]}}

DealingsNext == Earn \/ \E u \in People : Part(u)

DealingsSpec == DealingsInit /\ [][DealingsNext]_dealingsVars
=============================================================================
