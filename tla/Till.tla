-------------------------------- MODULE Till --------------------------------
(***************************************************************************)
(* What the payment component promises about money and plans, and nothing  *)
(* else: a payment is sold once, an invoice only when its price is in, and *)
(* every sale of a plan moves its end by the months sold, counted from the *)
(* end already paid for or from now.                                       *)
(***************************************************************************)
EXTENDS Integers

CONSTANTS Users, Payments, Lines, Unpriced, Month

VARIABLES
  clock,
  offer,    \* what a payment is for, and to whom
  money,    \* what came in for it
  sold,     \* <<payment, end>>: the sales and how far each one runs
  planEnd   \* how far each account's plan runs; 0 for none

tillVars == <<clock, offer, money, sold, planEnd>>

Sold(i) == \E s \in sold : s[1] = i

TillInit ==
  /\ clock = 0 /\ sold = {}
  /\ offer = [i \in Payments |-> Unpriced] /\ money = [i \in Payments |-> 0]
  /\ planEnd = [u \in Users |-> 0]

\* Until it is sold, what a payment is for may be written or dropped.
Price(i) ==
  /\ ~Sold(i)
  /\ offer' \in [Payments -> Lines \cup {Unpriced}] /\ \A j \in Payments \ {i} : offer'[j] = offer[j]
  /\ UNCHANGED <<clock, money, sold, planEnd>>

TakeMoney(i) ==
  /\ money' = [money EXCEPT ![i] = @ + 1]
  /\ UNCHANGED <<clock, offer, sold, planEnd>>

\* The sale s of a payment: a plan is lengthened, and what a placement gets is settled for good.
Sell(i, s) ==
  /\ s[1] = i /\ ~Sold(i) /\ offer[i] # Unpriced
  /\ offer[i].provider = "QPAY" => money[i] >= offer[i].units
  /\ sold' = sold \cup {s}
  /\ IF offer[i].kind = "PLAN"
     THEN LET from == planEnd[offer[i].user] IN
          /\ s[2] = (IF from < clock THEN clock ELSE from) + Month * offer[i].units
          /\ planEnd' = [planEnd EXCEPT ![offer[i].user] = s[2]]
     ELSE UNCHANGED planEnd
  /\ UNCHANGED <<clock, offer, money>>

Revoke(u) == planEnd' = [planEnd EXCEPT ![u] = 0] /\ UNCHANGED <<clock, offer, money, sold>>

Wait == clock' = clock + 1 /\ UNCHANGED <<offer, money, sold, planEnd>>

TillNext ==
  \/ \E i \in Payments : TakeMoney(i) \/ Price(i) \/ \E s \in sold' : Sell(i, s)
  \/ \E u \in Users : Revoke(u)
  \/ Wait

TillSpec == TillInit /\ [][TillNext]_tillVars
=============================================================================
