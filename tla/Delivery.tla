------------------------------ MODULE Delivery ------------------------------
(***************************************************************************)
(* What the notification outbox promises, and nothing else: nobody is told *)
(* of an event before it is on disk; from then on it is not lost, and it   *)
(* is done only when everybody was told who is to hear of it; nobody is    *)
(* told of it more often than it is tried, nor rung for what he was not    *)
(* told.                                                                   *)
(***************************************************************************)
EXTENDS Naturals

CONSTANTS Events, Notes, Limit

VARIABLES
  fate,   \* where each event is
  due,    \* who is to hear of it; nobody once the list was changed
  heard,  \* how often each was told
  rung    \* how often each was rung

deliveryVars == <<fate, due, heard, rung>>

DeliveryInit ==
  /\ fate = [e \in Events |-> "NEW"]
  /\ due \in [Events -> SUBSET Notes]
  /\ heard = [e \in Events |-> [n \in Notes |-> 0]]
  /\ rung = [e \in Events |-> [n \in Notes |-> 0]]

Kept(e) == fate[e] \in {"STORED", "DONE", "PRUNED"}

Becomes(e, from, to) ==
  /\ fate[e] = from /\ fate' = [fate EXCEPT ![e] = to]
  /\ UNCHANGED <<due, heard, rung>>

\* An event may be lost while it is in a worker's memory, and given up when it is old.
Befall(e) ==
  \/ Becomes(e, "NEW", "EMITTED") \/ Becomes(e, "EMITTED", "STORED") \/ Becomes(e, "EMITTED", "LOST")
  \/ Becomes(e, "STORED", "PRUNED")

Finish(e) == (\A n \in due[e] : heard[e][n] > 0) /\ Becomes(e, "STORED", "DONE")

Excuse(e) == due' = [due EXCEPT ![e] = {}] /\ UNCHANGED <<fate, heard, rung>>

Tell(e, n) ==
  /\ Kept(e) /\ heard[e][n] < Limit
  /\ heard' = [heard EXCEPT ![e][n] = @ + 1]
  /\ UNCHANGED <<fate, due, rung>>

Ring(e, n) ==
  /\ rung[e][n] < heard[e][n]
  /\ rung' = [rung EXCEPT ![e][n] = @ + 1]
  /\ UNCHANGED <<fate, due, heard>>

DeliveryNext ==
  \E e \in Events : \/ Befall(e) \/ Finish(e) \/ Excuse(e)
                    \/ \E n \in Notes : Tell(e, n) \/ Ring(e, n)

DeliverySpec == DeliveryInit /\ [][DeliveryNext]_deliveryVars
=============================================================================
