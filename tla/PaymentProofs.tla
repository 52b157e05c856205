--------------------------- MODULE PaymentProofs ---------------------------
(***************************************************************************)
(* Proofs about Payment, for any accounts, listings, payments, concurrent  *)
(* checks and edits. The inductive invariant adds to typing what ties a    *)
(* row to the request that makes it, to QPay and to the checks in flight:  *)
(* a check only ever concerns an invoice the engine knows, and the sum it  *)
(* carries is never more than QPay holds.                                  *)
(***************************************************************************)
EXTENDS Payment, FiniteSetTheorems, TLAPS

\* A row has its columns; a request that is still making one has not been overtaken.
RowsWritten ==
  \A i \in Payments :
    /\ status[i] # "NONE" \/ making[i] = "insert" => line[i] \in Line
    /\ making[i] = "insert" => OfQPay(i) /\ status[i] = "NONE"
    /\ making[i] = "call" => OfQPay(i) /\ status[i] \notin {"NONE", "PAID"} /\ i \notin known
    /\ making[i] = "hand" => ~OfQPay(i) /\ status[i] # "NONE"
    /\ making[i] = "lost" => OfQPay(i) /\ status[i] # "NONE"
    /\ status[i] = "NONE" => i \notin granted
    /\ i \in known => OfQPay(i) /\ status[i] # "NONE"
    /\ i \in granted /\ OfQPay(i) => i \in known

\* A check in flight is about an invoice the engine knows and brings no more than QPay holds.
ChecksBacked ==
  \A k \in Checkers : checks[k] # Idle =>
    checks[k].id \in known /\ checks[k].sum <= paid[checks[k].id]

Inv == TypeOK /\ RowsWritten /\ ChecksBacked /\ PaidMeansGranted /\ GrantedWasPaid /\ NoticeOnce

-----------------------------------------------------------------------------
(* What the helpers return. *)

\* A line that may be sold is a line.
LEMMA LineTyped ==
  ASSUME TypeOK, NEW u \in Users, NEW kind \in Kinds, NEW p \in Posts, NEW n \in Units,
         NEW by \in Providers, Sellable(u, kind, p, n)
  PROVE  LineOf(u, kind, p, n, by) \in Line
<1>1. DaysLeft(p, n) \in Int
  BY NumbersAssumption DEF TypeOK, Times, DaysLeft, Smaller
<1>2. kind = "FEATURED" => DaysLeft(p, n) \in Nat \ {0}
  BY <1>1 DEF Sellable
<1>3. kind \in {"PLAN", "FEATURED"} /\ n \in Nat \ {0}
  BY NumbersAssumption
<1> QED BY <1>2, <1>3 DEF LineOf, Line

\* The ends a grant computes are numbers.
LEMMA GrantTyped ==
  ASSUME TypeOK, NEW i \in Payments, line[i] \in Line
  PROVE  /\ line[i].kind = "PLAN" => line[i].user \in Users /\ PlanGrant(line[i].user, line[i].units) \in Nat
         /\ line[i].kind # "PLAN" => line[i].post \in Posts
                                     /\ PlacementGrant(line[i].post, line[i].units) \in Nat
         /\ line[i].units \in Nat
<1>1. line[i].units \in Nat /\ line[i].user \in Users
  BY DEF Line
<1>2. line[i].kind # "PLAN" => line[i].post \in Posts
  BY DEF Line
<1>3. now \in Nat /\ Month \in Nat
  BY NumbersAssumption DEF TypeOK, Times
<1>m. Month * line[i].units \in Nat
  BY <1>1, <1>3
<1>4. PlanGrant(line[i].user, line[i].units) \in Nat
  BY <1>1, <1>3, <1>m DEF TypeOK, PlanGrant, Larger
<1>5. ASSUME line[i].kind # "PLAN" PROVE PlacementGrant(line[i].post, line[i].units) \in Nat
  BY <1>1, <1>2, <1>3, <1>5 DEF TypeOK, PlacementGrant, Larger, Smaller
<1> QED BY <1>1, <1>2, <1>4, <1>5

\* settle keeps the types of what it writes.
LEMMA SettleTyped ==
  ASSUME TypeOK, NEW i \in Payments, line[i] \in Line, Settle(i)
  PROVE  /\ status' \in [Payments -> Status] /\ granted' \subseteq Payments
         /\ grantEnd' \in [Payments -> Nat] /\ planEnd' \in [Users -> Nat]
         /\ featured' \subseteq Posts /\ until' \in [Posts -> Nat]
         /\ notices' \in [Payments -> Nat]
<1>1. notices' \in [Payments -> Nat]
  BY DEF Settle, TypeOK
<1>2. CASE ~Claimable(i)
  BY <1>1, <1>2 DEF Settle, TypeOK
<1>3. CASE Claimable(i)
  <2> DEFINE to == IF line[i].kind = "PLAN" THEN PlanGrant(line[i].user, line[i].units)
                   ELSE PlacementGrant(line[i].post, line[i].units)
  <2>1. to \in Nat
    BY GrantTyped
  <2>2. Granted(i, to) /\ status' = [status EXCEPT ![i] = "PAID"] /\ granted' = granted \cup {i}
    BY <1>3 DEF Settle
  <2>3. grantEnd' \in [Payments -> Nat]
    BY <2>1, <2>2 DEF Granted, TypeOK
  <2>4. planEnd' \in [Users -> Nat] /\ featured' \subseteq Posts /\ until' \in [Posts -> Nat]
    <3> HIDE DEF to
    <3>1. CASE line[i].kind = "PLAN"
      BY <2>1, <2>2, <3>1, GrantTyped DEF Granted, TypeOK
    <3>2. CASE line[i].kind # "PLAN"
      BY <2>1, <2>2, <3>2, GrantTyped DEF Granted, TypeOK
    <3> QED BY <3>1, <3>2
  <2> QED BY <1>1, <2>2, <2>3, <2>4 DEF TypeOK, Status
<1> QED BY <1>2, <1>3

\* settle changes the row it claims and no other.
LEMMA SettleClaims ==
  ASSUME TypeOK, NEW i \in Payments, Settle(i)
  PROVE  \/ /\ status[i] \in Payable /\ i \notin granted
            /\ status' = [status EXCEPT ![i] = "PAID"] /\ granted' = granted \cup {i}
            /\ \A j \in Payments \ {i} : notices'[j] = notices[j] /\ grantEnd'[j] = grantEnd[j]
            /\ notices'[i] \in {notices[i], notices[i] + 1}
         \/ UNCHANGED <<status, granted, grantEnd, notices>>
<1>1. CASE Claimable(i)
  BY <1>1 DEF Settle, Claimable, Granted, TypeOK
<1>2. CASE ~Claimable(i)
  BY <1>2 DEF Settle, Announces
<1> QED BY <1>1, <1>2

-----------------------------------------------------------------------------
(* The inductive invariant. *)

LEMMA InitInv == Init => Inv
<1> SUFFICES ASSUME Init PROVE Inv
  OBVIOUS
<1>1. TypeOK
  <2>1. now \in Times
    BY NumbersAssumption DEF Init, Times
  <2>2. end \in [Posts -> Nat] /\ owner \in [Posts -> Users]
    BY NumbersAssumption DEF Init
  <2>3. created \in [Payments -> Times]
    BY NumbersAssumption DEF Init, Times
  <2> QED BY <2>1, <2>2, <2>3 DEF Init, TypeOK, Status
<1>2. RowsWritten
  BY DEF Init, RowsWritten
<1>3. ChecksBacked /\ PaidMeansGranted /\ GrantedWasPaid /\ NoticeOnce
  BY DEF Init, ChecksBacked, PaidMeansGranted, GrantedWasPaid, NoticeOnce
<1> QED BY <1>1, <1>2, <1>3 DEF Inv

LEMMA StepTyped ==
  ASSUME Inv, [Next]_vars
  PROVE  TypeOK'
<1> USE NumbersAssumption DEF Inv
<1>1. ASSUME NEW i \in Payments, NEW u \in Users, NEW kind \in Kinds, NEW p \in Posts, NEW n \in Units,
             OpenInvoice(i, u, kind, p, n) \/ GrantByHand(i, u, kind, p, n)
      PROVE  TypeOK'
  <2>1. \A by \in Providers : LineOf(u, kind, p, n, by) \in Line
    BY <1>1, LineTyped DEF OpenInvoice, GrantByHand
  <2>2. line' \in [Payments -> Line \cup {NoLine}]
    BY <1>1, <2>1 DEF OpenInvoice, GrantByHand, TypeOK, Providers
  <2>3. status' \in [Payments -> Status]
    BY <1>1 DEF OpenInvoice, GrantByHand, TypeOK, Status, Payable
  <2> QED BY <1>1, <2>2, <2>3 DEF OpenInvoice, GrantByHand, TypeOK, postVars, qpayVars, jobVars
<1>2. ASSUME NEW i \in Payments, InsertInvoice(i) \/ SaveInvoice(i) \/ GiveUpInvoice(i) \/ MakerDies(i)
      PROVE  TypeOK'
  BY <1>2 DEF InsertInvoice, SaveInvoice, GiveUpInvoice, MakerDies, TypeOK, Status, Payable,
              postVars, qpayVars, jobVars
<1>21. ASSUME NEW u \in Users, NEW kind \in Kinds, NEW p \in Posts, NEW n \in Units,
              OpenInvoiceStops(u, kind, p, n)
       PROVE  TypeOK'
  <2>1. status' \in [Payments -> Status]
    BY <1>21 DEF OpenInvoiceStops, TypeOK, Status, Payable
  <2> QED BY <1>21, <2>1 DEF OpenInvoiceStops, TypeOK, postVars, qpayVars, jobVars
<1>3. ASSUME NEW i \in Payments, SettleByHand(i) PROVE TypeOK'
  <2>1. line[i] \in Line
    BY <1>3 DEF SettleByHand, RowsWritten
  <2> QED BY <1>3, <2>1, SettleTyped DEF SettleByHand, TypeOK, qpayVars, jobVars
<1>4. ASSUME NEW i \in Payments, Issue(i) \/ Pay(i) PROVE TypeOK'
  BY <1>4 DEF Issue, Pay, TypeOK, postVars, rowVars, jobVars
<1>5. ASSUME NEW k \in Checkers, NEW i \in Payments, NEW force \in BOOLEAN, Ask(k, i, force) PROVE TypeOK'
  <2>1. Asking(i) \in Check
    BY DEF Asking, Check
  <2> QED BY <1>5, <2>1 DEF Ask, TypeOK, postVars, rowVars, qpayVars
<1>6. ASSUME NEW k \in Checkers, QPayAnswers(k) PROVE TypeOK'
  <2>1. checks[k] \in Check
    BY <1>6 DEF QPayAnswers, TypeOK
  <2>2. paid[checks[k].id] \in Nat
    BY <2>1 DEF TypeOK, Check
  <2>3. [checks[k] EXCEPT !.told = TRUE, !.sum = paid[checks[k].id]] \in Check
    BY <2>1, <2>2 DEF Check
  <2> QED BY <1>6, <2>3 DEF QPayAnswers, TypeOK, postVars, rowVars, qpayVars
<1>7. ASSUME NEW k \in Checkers, Conclude(k) PROVE TypeOK'
  <2> DEFINE i == checks[k].id
  <2>1. checks[k] \in Check
    BY <1>7 DEF Conclude, TypeOK
  <2>2. i \in Payments /\ line[i] \in Line
    BY <1>7, <2>1 DEF Conclude, Check, ChecksBacked, RowsWritten
  <2>3. checks' \in [Checkers -> Check \cup {Idle}]
    BY <1>7 DEF Conclude, TypeOK
  <2>4. /\ status' \in [Payments -> Status] /\ granted' \subseteq Payments
        /\ grantEnd' \in [Payments -> Nat] /\ planEnd' \in [Users -> Nat]
        /\ featured' \subseteq Posts /\ until' \in [Posts -> Nat]
        /\ notices' \in [Payments -> Nat]
    <3>1. CASE Settle(i)
      BY <2>2, <3>1, SettleTyped
    <3>2. CASE /\ status' \in {status, [status EXCEPT ![i] = "EXPIRED"]}
               /\ UNCHANGED <<granted, grantEnd, planEnd, featured, until, notices>>
      BY <2>2, <3>2 DEF TypeOK, Status, Payable
    <3> QED BY <1>7, <3>1, <3>2 DEF Conclude
  <2> QED BY <1>7, <2>3, <2>4 DEF Conclude, TypeOK, qpayVars
<1>8. ASSUME NEW k \in Checkers, CheckFails(k) PROVE TypeOK'
  BY <1>8 DEF CheckFails, TypeOK, postVars, rowVars, qpayVars
<1>9. ASSUME NEW Q \in SUBSET Payments, SweepPicks(Q) PROVE TypeOK'
  BY <1>9 DEF SweepPicks, TypeOK, postVars, rowVars, qpayVars
<1>10. ASSUME NEW i \in Payments, SweepAsks(i) PROVE TypeOK'
  <2>1. Asking(i) \in Check
    BY DEF Asking, Check
  <2>2. checks' \in [Checkers -> Check \cup {Idle}]
    BY <1>10, <2>1 DEF SweepAsks, TypeOK
  <2> QED BY <1>10, <2>2 DEF SweepAsks, TypeOK, postVars, rowVars, qpayVars
<1>11. ASSUME SweepRetires \/ ExpireFeatured \/ SweepDies PROVE TypeOK'
  BY <1>11 DEF SweepRetires, ExpireFeatured, SweepDies, TypeOK, Status, Payable, postVars, rowVars, qpayVars
<1>12. ASSUME NEW u \in Users, RevokePlan(u) PROVE TypeOK'
  BY <1>12 DEF RevokePlan, TypeOK, postVars, rowVars, qpayVars, jobVars
<1>13. ASSUME NEW u \in Users, DeleteAccount(u) PROVE TypeOK'
  <2>1. end' \in [Posts -> Nat]
    BY <1>13 DEF DeleteAccount, TypeOK, Smaller, Times
  <2>2. status' \in [Payments -> Status]
    BY <1>13 DEF DeleteAccount, TypeOK, Status
  <2> QED BY <1>13, <2>1, <2>2 DEF DeleteAccount, TypeOK, qpayVars, jobVars
<1>14. ASSUME NEW e \in Editors, NEW p \in Posts, LoadListing(e, p) PROVE TypeOK'
  <2>1. [post |-> p, live |-> p \in live, featured |-> p \in featured, until |-> until[p], end |-> end[p]]
          \in Edit
    BY DEF Edit, TypeOK
  <2> QED BY <1>14, <2>1 DEF LoadListing, TypeOK, postVars, rowVars, qpayVars, jobVars
<1>15. ASSUME NEW e \in Editors, NEW w \in Windows \cup {0}, SaveListing(e, w) PROVE TypeOK'
  <2>1. edits[e] \in Edit
    BY <1>15 DEF SaveListing, TypeOK
  <2>w. w \in Nat /\ now \in Nat
    BY DEF TypeOK, Times
  <2>2. edits[e].post \in Posts /\ edits[e].until \in Nat /\ edits[e].end \in Nat /\ now + w \in Nat
    BY <2>1, <2>w DEF Edit
  <2>3. end' \in [Posts -> Nat] /\ until' \in [Posts -> Nat]
    BY <1>15, <2>2 DEF SaveListing, TypeOK
  <2>4. live' \subseteq Posts /\ featured' \subseteq Posts
    BY <1>15, <2>2 DEF SaveListing, TypeOK
  <2>5. edits' \in [Editors -> Edit \cup {NoEdit}]
    BY <1>15 DEF SaveListing, TypeOK
  <2> QED BY <1>15, <2>3, <2>4, <2>5 DEF SaveListing, TypeOK, rowVars, qpayVars, jobVars
<1>16. ASSUME NEW e \in Editors, EditFails(e) PROVE TypeOK'
  BY <1>16 DEF EditFails, TypeOK, postVars, rowVars, qpayVars, jobVars
<1>17. ASSUME NEW p \in Posts, TakeDown(p) PROVE TypeOK'
  BY <1>17 DEF TakeDown, TypeOK, rowVars, qpayVars, jobVars
<1>18. ASSUME NEW p \in Posts, Approve(p) PROVE TypeOK'
  <2>1. end' \in [Posts -> Nat]
    BY <1>18 DEF Approve, TypeOK, Times
  <2> QED BY <1>18, <2>1 DEF Approve, TypeOK, rowVars, qpayVars, jobVars
<1>19. ASSUME Tick PROVE TypeOK'
  BY <1>19 DEF Tick, TypeOK, Times, postVars, rowVars, qpayVars, jobVars
<1>20. CASE UNCHANGED vars
  BY <1>20 DEF vars, TypeOK, postVars, rowVars, qpayVars, jobVars
<1> QED
  BY <1>1, <1>2, <1>3, <1>4, <1>5, <1>6, <1>7, <1>8, <1>9, <1>10, <1>11, <1>12, <1>13, <1>14, <1>15,
     <1>16, <1>17, <1>18, <1>19, <1>20, <1>21 DEF Next, OpenNext, CheckNext, OtherNext

\* Everything the steps that write no payment leave alone.
Untouched == UNCHANGED <<rowVars, making, paid, notices>>

LEMMA StepRows ==
  ASSUME Inv, [Next]_vars
  PROVE  (RowsWritten /\ PaidMeansGranted /\ GrantedWasPaid /\ NoticeOnce)'
<1> DEFINE Goal == RowsWritten /\ PaidMeansGranted /\ GrantedWasPaid /\ NoticeOnce
<1> USE DEF Inv
<1>1. ASSUME NEW i \in Payments, NEW u \in Users, NEW kind \in Kinds, NEW p \in Posts, NEW n \in Units,
             OpenInvoice(i, u, kind, p, n)
      PROVE  Goal'
  <2>1. LineOf(u, kind, p, n, "QPAY") \in Line /\ LineOf(u, kind, p, n, "QPAY").provider = "QPAY"
    BY <1>1, LineTyped DEF OpenInvoice, Providers, LineOf
  <2>2. \A j \in Payments : \/ status'[j] = status[j]
                            \/ status[j] = "PENDING" /\ status'[j] = "CANCELLED" /\ j # i
    BY <1>1 DEF OpenInvoice, Retired, TypeOK
  <2>3. \A j \in Payments : j # i => line'[j] = line[j] /\ making'[j] = making[j]
    BY <1>1 DEF OpenInvoice, TypeOK
  <2>4. line'[i] \in Line /\ line'[i].provider = "QPAY" /\ making'[i] = "insert" /\ status[i] = "NONE" /\ i \notin known /\ i \notin granted
    BY <1>1, <2>1 DEF OpenInvoice, TypeOK, RowsWritten, PaidMeansGranted
  <2>5. UNCHANGED <<known, granted, paid, notices>>
    BY <1>1 DEF OpenInvoice, qpayVars
  <2>6. RowsWritten'
    BY <2>2, <2>3, <2>4, <2>5 DEF RowsWritten, OfQPay
  <2>7. PaidMeansGranted'
    BY <2>2, <2>3, <2>4, <2>5 DEF PaidMeansGranted, TypeOK
  <2>8. GrantedWasPaid'
    BY <2>3, <2>4, <2>5 DEF GrantedWasPaid, OfQPay, TypeOK
  <2> QED BY <2>5, <2>6, <2>7, <2>8 DEF NoticeOnce
<1>2. ASSUME NEW i \in Payments, NEW u \in Users, NEW kind \in Kinds, NEW p \in Posts, NEW n \in Units,
             GrantByHand(i, u, kind, p, n)
      PROVE  Goal'
  <2>1. LineOf(u, kind, p, n, "MANUAL") \in Line /\ LineOf(u, kind, p, n, "MANUAL").provider = "MANUAL"
    BY <1>2, LineTyped DEF GrantByHand, Providers, LineOf
  <2>3. \A j \in Payments : j # i => line'[j] = line[j] /\ making'[j] = making[j] /\ status'[j] = status[j]
    BY <1>2 DEF GrantByHand, TypeOK
  <2>4. /\ line'[i] \in Line /\ line'[i].provider = "MANUAL" /\ making'[i] = "hand"
        /\ status'[i] = "PENDING" /\ i \notin known /\ i \notin granted
    BY <1>2, <2>1 DEF GrantByHand, TypeOK, RowsWritten, PaidMeansGranted
  <2>5. UNCHANGED <<known, granted, paid, notices>>
    BY <1>2 DEF GrantByHand, qpayVars
  <2>6. RowsWritten'
    BY <2>3, <2>4, <2>5 DEF RowsWritten, OfQPay
  <2>7. PaidMeansGranted'
    BY <2>3, <2>4, <2>5 DEF PaidMeansGranted, TypeOK
  <2>8. GrantedWasPaid'
    BY <2>3, <2>4, <2>5 DEF GrantedWasPaid, OfQPay, TypeOK
  <2> QED BY <2>5, <2>6, <2>7, <2>8 DEF NoticeOnce
<1>27. ASSUME NEW u \in Users, NEW kind \in Kinds, NEW p \in Posts, NEW n \in Units,
              OpenInvoiceStops(u, kind, p, n)
       PROVE  Goal'
  <2>1. \A j \in Payments : \/ status'[j] = status[j]
                            \/ status[j] = "PENDING" /\ status'[j] = "CANCELLED"
    BY <1>27 DEF OpenInvoiceStops, Retired, TypeOK
  <2>2. UNCHANGED <<line, making, known, granted, paid, notices>>
    BY <1>27 DEF OpenInvoiceStops, qpayVars
  <2>3. RowsWritten' /\ PaidMeansGranted'
    BY <2>1, <2>2 DEF RowsWritten, PaidMeansGranted, OfQPay, TypeOK
  <2> QED BY <2>2, <2>3 DEF GrantedWasPaid, NoticeOnce, OfQPay
<1>3. ASSUME NEW i \in Payments, InsertInvoice(i) PROVE Goal'
  <2>1. /\ making[i] = "insert" /\ status[i] = "NONE" /\ line[i] \in Line /\ OfQPay(i)
        /\ i \notin known /\ i \notin granted
    BY <1>3 DEF InsertInvoice, RowsWritten, PaidMeansGranted
  <2> QED
    BY <1>3, <2>1 DEF InsertInvoice, RowsWritten, PaidMeansGranted, GrantedWasPaid, NoticeOnce, OfQPay, TypeOK, qpayVars
<1>4. ASSUME NEW i \in Payments, SaveInvoice(i) PROVE Goal'
  BY <1>4 DEF SaveInvoice, IsRow, RowsWritten, PaidMeansGranted, GrantedWasPaid, NoticeOnce, OfQPay, TypeOK, qpayVars
<1>5. ASSUME NEW i \in Payments, GiveUpInvoice(i) PROVE Goal'
  <2>1. OfQPay(i) /\ status[i] # "NONE" /\ (i \in granted => status[i] \in {"PAID", "GONE"})
    BY <1>5 DEF GiveUpInvoice, RowsWritten, PaidMeansGranted
  <2>2. UNCHANGED <<line, known, granted, paid, notices>>
    BY <1>5 DEF GiveUpInvoice, qpayVars
  <2>3. /\ status'[i] = (IF status[i] = "GONE" THEN "GONE" ELSE "CANCELLED")
        /\ making'[i] = (IF status[i] = "PAID" THEN "undone" ELSE "none")
    BY <1>5, <2>1 DEF GiveUpInvoice, IsRow, TypeOK
  <2>4. \A j \in Payments \ {i} : status'[j] = status[j] /\ making'[j] = making[j]
    BY <1>5 DEF GiveUpInvoice, TypeOK
  <2>5. RowsWritten'
    BY <2>1, <2>2, <2>3, <2>4 DEF RowsWritten, OfQPay
  <2>6. PaidMeansGranted'
    BY <2>1, <2>2, <2>3, <2>4 DEF PaidMeansGranted, TypeOK
  <2> QED BY <2>2, <2>5, <2>6 DEF GrantedWasPaid, NoticeOnce, OfQPay
<1>6. ASSUME NEW i \in Payments, MakerDies(i) PROVE Goal'
  <2>1. status[i] = "NONE" => i \notin known /\ i \notin granted
    BY <1>6 DEF MakerDies, RowsWritten, PaidMeansGranted
  <2> QED
    BY <1>6, <2>1 DEF MakerDies, RowsWritten, PaidMeansGranted, GrantedWasPaid, NoticeOnce, OfQPay, TypeOK, qpayVars
<1>7. ASSUME NEW i \in Payments, Settle(i), line[i] \in Line, status[i] # "NONE",
             OfQPay(i) => i \in known /\ paid[i] >= line[i].units,
             making' = making \/ (making[i] = "hand" /\ making' = [making EXCEPT ![i] = "none"]),
             UNCHANGED <<line, known, paid>>
      PROVE  Goal'
  <2>1. CASE UNCHANGED <<status, granted, grantEnd, notices>>
    BY <1>7, <2>1 DEF RowsWritten, PaidMeansGranted, GrantedWasPaid, NoticeOnce, OfQPay, TypeOK
  <2>2. CASE /\ status[i] \in Payable /\ i \notin granted
             /\ status' = [status EXCEPT ![i] = "PAID"] /\ granted' = granted \cup {i}
             /\ \A j \in Payments \ {i} : notices'[j] = notices[j] /\ grantEnd'[j] = grantEnd[j]
             /\ notices'[i] \in {notices[i], notices[i] + 1}
    <3>1. notices[i] = 0
      BY <2>2 DEF NoticeOnce, TypeOK
    <3>2. NoticeOnce'
      BY <2>2, <3>1 DEF NoticeOnce, TypeOK
    <3>3. making[i] = "call" => ~(OfQPay(i) => i \in known)
      BY DEF RowsWritten
    <3>4. RowsWritten'
      BY <1>7, <2>2, <3>3 DEF RowsWritten, OfQPay, TypeOK, Payable
    <3>5. PaidMeansGranted' /\ GrantedWasPaid'
      BY <1>7, <2>2 DEF PaidMeansGranted, GrantedWasPaid, OfQPay, TypeOK
    <3> QED BY <3>2, <3>4, <3>5
  <2> QED BY <1>7, <2>1, <2>2, SettleClaims
<1>8. ASSUME NEW i \in Payments, SettleByHand(i) PROVE Goal'
  <2>1. line[i] \in Line /\ status[i] # "NONE" /\ ~OfQPay(i)
    BY <1>8 DEF SettleByHand, RowsWritten
  <2> QED BY <1>7, <1>8, <2>1 DEF SettleByHand, qpayVars
<1>9. ASSUME NEW k \in Checkers, Conclude(k) PROVE Goal'
  <2> DEFINE i == checks[k].id
  <2>1. checks[k] \in Check
    BY <1>9 DEF Conclude, TypeOK
  <2>2. /\ i \in Payments /\ line[i] \in Line /\ status[i] # "NONE" /\ OfQPay(i) /\ i \in known
        /\ checks[k].sum <= paid[i]
    BY <1>9, <2>1 DEF Conclude, Check, ChecksBacked, RowsWritten
  <2>3. CASE InFull(i, checks[k].sum) /\ Settle(i)
    <3>1. checks[k].sum \in Nat /\ paid[i] \in Nat /\ line[i].units \in Nat
      BY <2>1, <2>2, GrantTyped DEF Check, TypeOK
    <3>2. paid[i] >= line[i].units
      BY <2>2, <2>3, <3>1 DEF InFull, Amount
    <3> QED BY <1>7, <1>9, <2>2, <2>3, <3>2 DEF Conclude, qpayVars
  <2>4. CASE /\ \/ status' = status
                \/ status[i] = "PENDING" /\ status' = [status EXCEPT ![i] = "EXPIRED"]
             /\ UNCHANGED <<granted, notices>>
    <3>1. UNCHANGED <<line, known, making, paid>>
      BY <1>9 DEF Conclude, qpayVars
    <3> QED
      BY <2>2, <2>4, <3>1 DEF RowsWritten, PaidMeansGranted, GrantedWasPaid, NoticeOnce, OfQPay, TypeOK
  <2> QED BY <1>9, <2>3, <2>4 DEF Conclude, StillPending
<1>10. ASSUME NEW i \in Payments, Pay(i) PROVE Goal'
  BY <1>10 DEF Pay, RowsWritten, PaidMeansGranted, GrantedWasPaid, NoticeOnce, OfQPay, TypeOK, Line, rowVars
<1>11. ASSUME SweepRetires PROVE Goal'
  BY <1>11 DEF SweepRetires, Unheard, RowsWritten, PaidMeansGranted, GrantedWasPaid, NoticeOnce, OfQPay, TypeOK,
               qpayVars
<1>12. ASSUME NEW u \in Users, DeleteAccount(u) PROVE Goal'
  BY <1>12 DEF DeleteAccount, IsRow, RowsWritten, PaidMeansGranted, GrantedWasPaid, NoticeOnce, OfQPay, TypeOK,
               qpayVars
<1>13. ASSUME Untouched PROVE Goal'
  BY <1>13 DEF Untouched, rowVars, RowsWritten, PaidMeansGranted, GrantedWasPaid, NoticeOnce, OfQPay
<1>14. ASSUME NEW i \in Payments, Issue(i) \/ SweepAsks(i) PROVE Untouched
  BY <1>14 DEF Issue, SweepAsks, Untouched, qpayVars
<1>15. ASSUME NEW k \in Checkers, NEW i \in Payments, NEW force \in BOOLEAN, Ask(k, i, force)
       PROVE  Untouched
  BY <1>15 DEF Ask, Untouched, qpayVars
<1>16. ASSUME NEW Q \in SUBSET Payments, SweepPicks(Q) PROVE Untouched
  BY <1>16 DEF SweepPicks, Untouched, qpayVars
<1>17. ASSUME ExpireFeatured \/ SweepDies \/ Tick PROVE Untouched
  BY <1>17 DEF ExpireFeatured, SweepDies, Tick, Untouched, qpayVars
<1>18. ASSUME NEW e \in Editors, \/ \E p \in Posts : LoadListing(e, p)
                                 \/ \E w \in Windows \cup {0} : SaveListing(e, w)
                                 \/ EditFails(e)
       PROVE  Untouched
  BY <1>18 DEF LoadListing, SaveListing, EditFails, Untouched, qpayVars
<1>21. ASSUME NEW u \in Users, RevokePlan(u) PROVE Untouched
  BY <1>21 DEF RevokePlan, Untouched, qpayVars
<1>22. ASSUME NEW k \in Checkers, QPayAnswers(k) \/ CheckFails(k) PROVE Untouched
  BY <1>22 DEF QPayAnswers, CheckFails, Untouched, qpayVars
<1>19. ASSUME NEW p \in Posts, TakeDown(p) \/ Approve(p) PROVE Untouched
  BY <1>19 DEF TakeDown, Approve, Untouched, qpayVars
<1>20. ASSUME UNCHANGED vars PROVE Goal'
  BY <1>13, <1>20 DEF vars, Untouched, qpayVars
<1> HIDE DEF Goal
<1>23. ASSUME OpenNext PROVE Goal'
  BY <1>1, <1>2, <1>3, <1>4, <1>5, <1>6, <1>8, <1>10, <1>13, <1>14, <1>23, <1>27 DEF OpenNext
<1>24. ASSUME CheckNext PROVE Goal'
  BY <1>9, <1>11, <1>13, <1>14, <1>15, <1>16, <1>17, <1>22, <1>24 DEF CheckNext
<1>25. ASSUME OtherNext PROVE Goal'
  BY <1>12, <1>13, <1>17, <1>18, <1>19, <1>21, <1>25 DEF OtherNext
<1>26. Goal'
  BY <1>20, <1>23, <1>24, <1>25 DEF Next
<1> QED BY <1>26 DEF Goal

LEMMA StepChecks ==
  ASSUME Inv, [Next]_vars
  PROVE  ChecksBacked'
<1> USE DEF Inv, ChecksBacked
<1>1. known \subseteq known' /\ \A i \in Payments : paid[i] \in Nat /\ paid'[i] \in Nat /\ paid[i] <= paid'[i]
  <2> DEFINE PaidMore == UNCHANGED paid \/ \E i \in Payments : paid' = [paid EXCEPT ![i] = @ + 1]
  <2>1. ASSUME OpenNext PROVE known \subseteq known' /\ PaidMore
    BY <2>1 DEF OpenNext, OpenInvoice, GrantByHand, OpenInvoiceStops, InsertInvoice, SaveInvoice, GiveUpInvoice, MakerDies,
                SettleByHand, Issue, Pay, rowVars, qpayVars
  <2>2. ASSUME CheckNext PROVE UNCHANGED <<known, paid>>
    BY <2>2 DEF CheckNext, Ask, QPayAnswers, Conclude, CheckFails, SweepPicks, SweepAsks, SweepRetires,
                ExpireFeatured, SweepDies, rowVars, qpayVars
  <2>3. ASSUME OtherNext PROVE UNCHANGED <<known, paid>>
    BY <2>3 DEF OtherNext, RevokePlan, DeleteAccount, LoadListing, SaveListing, EditFails, TakeDown, Approve,
                Tick, rowVars, qpayVars
  <2>4. known \subseteq known' /\ PaidMore
    BY <2>1, <2>2, <2>3 DEF Next, vars, rowVars, qpayVars
  <2> QED BY <2>4 DEF TypeOK
<1>2. ASSUME NEW k \in Checkers, NEW i \in known, checks' = [checks EXCEPT ![k] = Asking(i)]
      PROVE  ChecksBacked'
  <2>1. Asking(i).id = i /\ Asking(i).sum = 0
    BY DEF Asking
  <2>2. i \in Payments
    BY DEF TypeOK
  <2>3. checks'[k].id \in known' /\ checks'[k].sum <= paid'[checks'[k].id]
    BY <1>1, <1>2, <2>1, <2>2 DEF TypeOK
  <2> QED BY <1>1, <1>2, <2>3 DEF TypeOK, Check
<1>3. ASSUME NEW k \in Checkers, checks' = [checks EXCEPT ![k] = Idle] PROVE ChecksBacked'
  BY <1>1, <1>3 DEF TypeOK, Check
<1>4. ASSUME NEW k \in Checkers, QPayAnswers(k) PROVE ChecksBacked'
  <2>1. checks[k] \in Check /\ checks[k].id \in known
    BY <1>4 DEF QPayAnswers, TypeOK
  <2>2. checks'[k].id = checks[k].id /\ checks'[k].sum = paid[checks[k].id]
    BY <1>4, <2>1 DEF QPayAnswers, TypeOK, Check
  <2>3. checks'[k].id \in known' /\ checks'[k].sum <= paid'[checks'[k].id]
    BY <1>1, <2>1, <2>2 DEF Check
  <2>4. \A j \in Checkers \ {k} : checks'[j] = checks[j]
    BY <1>4 DEF QPayAnswers, TypeOK
  <2> QED BY <1>1, <2>3, <2>4 DEF TypeOK, Check
<1>5. ASSUME UNCHANGED checks PROVE ChecksBacked'
  BY <1>1, <1>5 DEF TypeOK, Check
<1>6. \/ UNCHANGED checks
      \/ \E k \in Checkers : QPayAnswers(k) \/ checks' = [checks EXCEPT ![k] = Idle]
      \/ \E k \in Checkers, i \in known : checks' = [checks EXCEPT ![k] = Asking(i)]
  BY NamesAssumption DEF Next, OpenNext, CheckNext, OtherNext, vars, OpenInvoice, GrantByHand, OpenInvoiceStops,
     InsertInvoice, SaveInvoice, GiveUpInvoice, MakerDies, SettleByHand, Issue, Pay, Ask, Askable, Conclude, CheckFails,
     SweepPicks, SweepAsks, SweepRetires, ExpireFeatured, SweepDies, RevokePlan, DeleteAccount, LoadListing,
     SaveListing, EditFails, TakeDown, Approve, Tick, jobVars
<1> QED BY <1>2, <1>3, <1>4, <1>5, <1>6

LEMMA InvHolds == Spec => []Inv
<1>1. Inv /\ [Next]_vars => Inv'
  BY StepTyped, StepRows, StepChecks DEF Inv
<1> QED BY <1>1, InitInv, PTL DEF Spec

-----------------------------------------------------------------------------
(* The theorems. *)

\* Every reachable state is well typed.
THEOREM TypeCorrect == Spec => []TypeOK
BY InvHolds, PTL DEF Inv

\* No invoice is ever granted that QPay does not hold the full price of.
THEOREM GrantedWasPaidHolds == Spec => []GrantedWasPaid
BY InvHolds, PTL DEF Inv

\* A row says PAID exactly when its grant was made.
THEOREM PaidMeansGrantedHolds == Spec => []PaidMeansGranted
BY InvHolds, PTL DEF Inv

\* The bus is handed a payment at most once, and only a granted one.
THEOREM NoticeOnceHolds == Spec => []NoticeOnce
BY InvHolds, PTL DEF Inv

\* A step that leaves status, line, granted and grantEnd of the settled rows alone keeps the grants;
\* the only writers are settle, which claims an ungranted row, and the two that make a row.
LEMMA StepGrants ==
  ASSUME Inv, [Next]_vars
  PROVE  \A i \in granted : Kept(i)
<1> DEFINE Goal == \A i \in granted : Kept(i)
<1> USE DEF Inv, Kept
<1>1. CASE UNCHANGED <<granted, grantEnd, line>>
  BY <1>1
<1>2. ASSUME NEW i \in Payments, Settle(i), UNCHANGED line PROVE Goal
  BY <1>2, SettleClaims DEF TypeOK
<1>3. ASSUME NEW i \in Payments, status[i] = "NONE", \E l \in Line \cup {NoLine} : line' = [line EXCEPT ![i] = l],
             UNCHANGED <<granted, grantEnd>>
      PROVE  Goal
  BY <1>3 DEF RowsWritten, TypeOK
<1>4. ASSUME NEW i \in Payments, NEW u \in Users, NEW kind \in Kinds, NEW p \in Posts, NEW n \in Units,
             OpenInvoice(i, u, kind, p, n) \/ GrantByHand(i, u, kind, p, n)
      PROVE  Goal
  BY <1>3, <1>4, LineTyped DEF OpenInvoice, GrantByHand, Providers
<1>5. ASSUME NEW i \in Payments, MakerDies(i) PROVE Goal
  BY <1>1, <1>3, <1>5 DEF MakerDies
<1>6. ASSUME NEW i \in Payments, SettleByHand(i) PROVE Goal
  BY <1>2, <1>6 DEF SettleByHand
<1>7. ASSUME NEW k \in Checkers, Conclude(k) PROVE Goal
  <2>1. checks[k].id \in Payments
    BY <1>7 DEF Conclude, ChecksBacked, TypeOK
  <2> QED BY <1>1, <1>2, <1>7, <2>1 DEF Conclude
<1> QED
  BY <1>1, <1>4, <1>5, <1>6, <1>7 DEF Next, OpenNext, CheckNext, OtherNext, vars, OpenInvoiceStops, InsertInvoice, SaveInvoice,
     GiveUpInvoice, Issue, Pay, Ask, QPayAnswers, CheckFails, SweepPicks, SweepAsks, SweepRetires,
     ExpireFeatured, SweepDies, RevokePlan, DeleteAccount, LoadListing, SaveListing, EditFails, TakeDown,
     Approve, Tick, rowVars

\* A grant, its end and what it was for never change again.
THEOREM GrantsStandHolds == Spec => GrantsStand
<1>1. Inv /\ [Next]_vars => [\A i \in granted : Kept(i)]_vars
  BY StepGrants
<1> QED BY <1>1, InvHolds, PTL DEF Spec, GrantsStand

LEMMA StepFlow ==
  ASSUME Inv, [Next]_vars
  PROVE  \A i \in Payments : LegalMove(i)
<1> DEFINE Goal == \A i \in Payments : LegalMove(i)
<1> USE DEF Inv, LegalMove
<1>1. CASE UNCHANGED status
  BY <1>1
<1>2. ASSUME NEW i \in Payments, Settle(i) PROVE Goal
  BY <1>2, SettleClaims DEF TypeOK, Payable
<1>3. ASSUME NEW i \in Payments, \/ \E u \in Users, kind \in Kinds, p \in Posts, n \in Units :
                                      OpenInvoice(i, u, kind, p, n) \/ GrantByHand(i, u, kind, p, n)
                                 \/ InsertInvoice(i)
      PROVE  Goal
  BY <1>3 DEF OpenInvoice, GrantByHand, InsertInvoice, Retired, RowsWritten, TypeOK
<1>8. ASSUME NEW u \in Users, NEW kind \in Kinds, NEW p \in Posts, NEW n \in Units,
             OpenInvoiceStops(u, kind, p, n)
      PROVE  Goal
  BY <1>8 DEF OpenInvoiceStops, Retired, TypeOK
<1>4. ASSUME NEW i \in Payments, GiveUpInvoice(i) PROVE Goal
  <2>1. status[i] \in {"PENDING", "EXPIRED", "CANCELLED", "GONE"} \/ making[i] = "lost"
    BY <1>4 DEF GiveUpInvoice, RowsWritten, TypeOK, Status, Payable
  <2> QED BY <1>4, <2>1 DEF GiveUpInvoice, IsRow, TypeOK
<1>5. ASSUME NEW i \in Payments, SettleByHand(i) PROVE Goal
  BY <1>2, <1>5 DEF SettleByHand
<1>6. ASSUME NEW k \in Checkers, Conclude(k) PROVE Goal
  <2>1. checks[k].id \in Payments
    BY <1>6 DEF Conclude, ChecksBacked, TypeOK
  <2>2. CASE Settle(checks[k].id)
    BY <1>2, <2>1, <2>2
  <2>3. CASE \/ status' = status
             \/ status[checks[k].id] = "PENDING" /\ status' = [status EXCEPT ![checks[k].id] = "EXPIRED"]
    BY <2>1, <2>3 DEF TypeOK
  <2> QED BY <1>6, <2>2, <2>3 DEF Conclude, StillPending
<1>7. ASSUME SweepRetires \/ \E u \in Users : DeleteAccount(u) PROVE Goal
  BY <1>7 DEF SweepRetires, DeleteAccount, Unheard, TypeOK
<1> QED
  BY <1>1, <1>3, <1>4, <1>5, <1>6, <1>7, <1>8 DEF Next, OpenNext, CheckNext, OtherNext, vars, SaveInvoice,
     MakerDies, Issue, Pay, Ask, QPayAnswers, CheckFails, SweepPicks, SweepAsks,
     ExpireFeatured, SweepDies, RevokePlan, LoadListing, SaveListing, EditFails, TakeDown,
     Approve, Tick, rowVars

\* A settled payment is final; one that lapsed or was superseded may still be settled.
THEOREM StatusFlowHolds == Spec => StatusFlow
<1>1. Inv /\ [Next]_vars => [\A i \in Payments : LegalMove(i)]_vars
  BY StepFlow
<1> QED BY <1>1, InvHolds, PTL DEF Spec, StatusFlow
-----------------------------------------------------------------------------
(* What was bought: each grant adds its own units, once, and no step takes one back. *)

\* Adding the n units of a payment that has none yet adds n.
LEMMA AddUnits ==
  ASSUME NEW A, IsFiniteSet(A), NEW i, NEW n \in Nat, \A x \in A : x[1] # i
  PROVE  /\ IsFiniteSet(A \cup ({i} \X (1..n)))
         /\ Cardinality(A \cup ({i} \X (1..n))) = Cardinality(A) + n
<1> DEFINE B == {i} \X (1..n)
<1>1. IsFiniteSet(1..n) /\ Cardinality(1..n) = n
  BY FS_Interval
<1>2. IsFiniteSet({i}) /\ Cardinality({i}) = 1
  BY FS_Singleton
<1>3. IsFiniteSet(B) /\ Cardinality(B) = n
  BY <1>1, <1>2, FS_Product
<1>4. A \cap B = {}
  OBVIOUS
<1>5. Cardinality(A \cap B) = 0
  BY <1>4, FS_EmptySet
<1> HIDE DEF B
<1>6. IsFiniteSet(A \cup B) /\ Cardinality(A \cup B) = Cardinality(A) + Cardinality(B) - Cardinality(A \cap B)
  BY <1>3, FS_Union
<1>7. Cardinality(A) \in Nat
  BY FS_CardinalityType
<1>8. Cardinality(A \cup B) = Cardinality(A) + n
  BY <1>3, <1>5, <1>6, <1>7
<1> QED BY <1>6, <1>8 DEF B

\* What was bought can be counted, and no loaded copy of a listing promises more than was bought.
Counted ==
  /\ \A u \in Users : IsFiniteSet(PlanUnits(u))
  /\ \A p \in Posts : IsFiniteSet(PlacementUnits(p))
CopiesPaidFor ==
  \A e \in Editors : edits[e] # NoEdit =>
    edits[e].until <= now + Cardinality(PlacementUnits(edits[e].post))
SumInv == Counted /\ PlanPaidFor /\ PlacementPaidFor /\ CopiesPaidFor

LEMMA CountTyped ==
  ASSUME Counted
  PROVE  /\ \A u \in Users : Cardinality(PlanUnits(u)) \in Nat
         /\ \A p \in Posts : Cardinality(PlacementUnits(p)) \in Nat
BY FS_CardinalityType DEF Counted

LEMMA InitSums == Init => SumInv
<1> SUFFICES ASSUME Init PROVE SumInv
  OBVIOUS
<1>1. \A S \in SUBSET granted : UnitsOf(S) = {}
  BY DEF Init, UnitsOf
<1>2. (\A u \in Users : PlanUnits(u) = {}) /\ (\A p \in Posts : PlacementUnits(p) = {})
  BY <1>1 DEF PlanUnits, PlacementUnits
<1>3. Counted
  BY <1>2, FS_EmptySet DEF Counted
<1>4. Month * 0 = 0 /\ 0 <= now + Month * 0 /\ 0 <= now + 0
  BY NumbersAssumption DEF Init
<1>5. PlanPaidFor
  <2>1. \A u \in Users : planEnd[u] = 0 /\ Cardinality(PlanUnits(u)) = 0
    BY <1>2, FS_EmptySet DEF Init
  <2> QED BY <1>4, <2>1 DEF PlanPaidFor
<1>6. PlacementPaidFor
  <2>1. \A p \in Posts : until[p] = 0 /\ Cardinality(PlacementUnits(p)) = 0
    BY <1>2, FS_EmptySet DEF Init
  <2> QED BY <1>4, <2>1 DEF PlacementPaidFor
<1> QED BY <1>3, <1>5, <1>6 DEF Init, CopiesPaidFor, SumInv

\* settle adds the units of the line it claims to its plan or its listing, and to nothing else.
LEMMA SettleUnits ==
  ASSUME Inv, Counted, NEW i \in Payments, i \notin granted, line[i] \in Line,
         granted' = granted \cup {i}, UNCHANGED line
  PROVE  /\ Counted'
         /\ \A u \in Users : Cardinality(PlanUnits(u)') =
              IF line[i].kind = "PLAN" /\ line[i].user = u
              THEN Cardinality(PlanUnits(u)) + line[i].units ELSE Cardinality(PlanUnits(u))
         /\ \A p \in Posts : Cardinality(PlacementUnits(p)') =
              IF line[i].kind = "FEATURED" /\ line[i].post = p
              THEN Cardinality(PlacementUnits(p)) + line[i].units ELSE Cardinality(PlacementUnits(p))
<1> DEFINE own == {i} \X (1..line[i].units)
<1>1. line[i].units \in Nat
  BY DEF Line
<1>2. ASSUME NEW u \in Users
      PROVE  PlanUnits(u)' = IF line[i].kind = "PLAN" /\ line[i].user = u
                             THEN PlanUnits(u) \cup own ELSE PlanUnits(u)
  BY DEF PlanUnits, UnitsOf
<1>3. ASSUME NEW p \in Posts
      PROVE  PlacementUnits(p)' = IF line[i].kind = "FEATURED" /\ line[i].post = p
                                  THEN PlacementUnits(p) \cup own ELSE PlacementUnits(p)
  BY DEF PlacementUnits, UnitsOf
<1>4. ASSUME NEW u \in Users
      PROVE  IsFiniteSet(PlanUnits(u)) /\ \A x \in PlanUnits(u) : x[1] # i
  BY DEF PlanUnits, UnitsOf, Counted
<1>5. ASSUME NEW p \in Posts
      PROVE  IsFiniteSet(PlacementUnits(p)) /\ \A x \in PlacementUnits(p) : x[1] # i
  BY DEF PlacementUnits, UnitsOf, Counted
<1>6. ASSUME NEW u \in Users
      PROVE  /\ IsFiniteSet(PlanUnits(u)')
             /\ Cardinality(PlanUnits(u)') =
                  IF line[i].kind = "PLAN" /\ line[i].user = u
                  THEN Cardinality(PlanUnits(u)) + line[i].units ELSE Cardinality(PlanUnits(u))
  <2>1. CASE line[i].kind = "PLAN" /\ line[i].user = u
    <3>1. PlanUnits(u)' = PlanUnits(u) \cup own
      BY <1>2, <2>1
    <3>2. /\ IsFiniteSet(PlanUnits(u) \cup own)
          /\ Cardinality(PlanUnits(u) \cup own) = Cardinality(PlanUnits(u)) + line[i].units
      BY <1>1, <1>4, AddUnits
    <3> HIDE DEF own
    <3> QED BY <2>1, <3>1, <3>2
  <2>2. CASE ~(line[i].kind = "PLAN" /\ line[i].user = u)
    BY <1>2, <1>4, <2>2
  <2> QED BY <2>1, <2>2
<1>7. ASSUME NEW p \in Posts
      PROVE  /\ IsFiniteSet(PlacementUnits(p)')
             /\ Cardinality(PlacementUnits(p)') =
                  IF line[i].kind = "FEATURED" /\ line[i].post = p
                  THEN Cardinality(PlacementUnits(p)) + line[i].units ELSE Cardinality(PlacementUnits(p))
  <2>1. CASE line[i].kind = "FEATURED" /\ line[i].post = p
    <3>1. PlacementUnits(p)' = PlacementUnits(p) \cup own
      BY <1>3, <2>1
    <3>2. /\ IsFiniteSet(PlacementUnits(p) \cup own)
          /\ Cardinality(PlacementUnits(p) \cup own) = Cardinality(PlacementUnits(p)) + line[i].units
      BY <1>1, <1>5, AddUnits
    <3> HIDE DEF own
    <3> QED BY <2>1, <3>1, <3>2
  <2>2. CASE ~(line[i].kind = "FEATURED" /\ line[i].post = p)
    BY <1>3, <1>5, <2>2
  <2> QED BY <2>1, <2>2
<1> QED BY <1>6, <1>7 DEF Counted

\* A step that grants nothing leaves what was bought as it is.
LEMMA SameUnits ==
  ASSUME UNCHANGED granted, \A i \in granted : line'[i] = line[i]
  PROVE  (\A u : PlanUnits(u)' = PlanUnits(u)) /\ (\A p : PlacementUnits(p)' = PlacementUnits(p))
<1>1. \A u : {i \in granted : line[i].kind = "PLAN" /\ line[i].user = u}' =
             {i \in granted : line[i].kind = "PLAN" /\ line[i].user = u}
  OBVIOUS
<1>2. \A p : {i \in granted : line[i].kind = "FEATURED" /\ line[i].post = p}' =
             {i \in granted : line[i].kind = "FEATURED" /\ line[i].post = p}
  OBVIOUS
<1> QED BY <1>1, <1>2 DEF PlanUnits, PlacementUnits, UnitsOf
LEMMA SettleSums ==
  ASSUME Inv, SumInv, NEW i \in Payments, line[i] \in Line, Settle(i), Claimable(i),
         UNCHANGED <<now, line, edits>>
  PROVE  SumInv'
<1> USE DEF Inv, SumInv
<1>1. granted' = granted \cup {i} /\ i \notin granted
  BY DEF Settle, Claimable
<1>2. Counted' /\ (\A u \in Users : Cardinality(PlanUnits(u)) \in Nat)
               /\ (\A p \in Posts : Cardinality(PlacementUnits(p)) \in Nat)
  BY <1>1, SettleUnits, CountTyped
<1>3. line[i].units \in Nat /\ now \in Nat /\ Month \in Nat
  BY NumbersAssumption DEF Line, TypeOK, Times
<1>4. PlanPaidFor'
  <2> SUFFICES ASSUME NEW u \in Users PROVE planEnd'[u] <= now + Month * Cardinality(PlanUnits(u)')
    BY DEF PlanPaidFor
  <2> DEFINE c == Cardinality(PlanUnits(u))
  <2>1. planEnd[u] \in Nat /\ planEnd[u] <= now + Month * c /\ c \in Nat /\ Month * c \in Nat
    BY <1>2, <1>3 DEF PlanPaidFor, TypeOK
  <2>2. CASE line[i].kind = "PLAN" /\ line[i].user = u
    <3>1. planEnd'[u] = PlanGrant(u, line[i].units)
      BY <2>2 DEF Settle, Granted, TypeOK
    <3>2. Cardinality(PlanUnits(u)') = c + line[i].units
      BY <1>1, <2>2, SettleUnits
    <3>3. Month * (c + line[i].units) = Month * c + Month * line[i].units /\ Month * line[i].units \in Nat
      BY <1>3, <2>1
    <3> HIDE DEF c
    <3>4. planEnd'[u] <= now + (Month * c + Month * line[i].units)
      BY <1>3, <2>1, <3>1, <3>3 DEF PlanGrant, Larger
    <3> QED BY <3>2, <3>3, <3>4
  <2>3. CASE ~(line[i].kind = "PLAN" /\ line[i].user = u)
    <3>1. planEnd'[u] = planEnd[u]
      BY <2>3 DEF Settle, Granted, TypeOK
    <3>2. Cardinality(PlanUnits(u)') = c
      BY <1>1, <2>3, SettleUnits
    <3> QED BY <2>1, <3>1, <3>2
  <2> QED BY <2>2, <2>3
<1>5. \A p \in Posts : Cardinality(PlacementUnits(p)) <= Cardinality(PlacementUnits(p)')
  BY <1>1, <1>2, <1>3, SettleUnits
<1>6. PlacementPaidFor'
  <2> SUFFICES ASSUME NEW p \in Posts PROVE until'[p] <= now + Cardinality(PlacementUnits(p)')
    BY DEF PlacementPaidFor
  <2> DEFINE c == Cardinality(PlacementUnits(p))
  <2>1. until[p] \in Nat /\ until[p] <= now + c /\ c \in Nat
    BY <1>2, <1>3 DEF PlacementPaidFor, TypeOK
  <2>2. CASE line[i].kind = "FEATURED" /\ line[i].post = p
    <3>1. until'[p] \in {until[p], PlacementGrant(p, line[i].units)}
      BY <2>2 DEF Settle, Granted, TypeOK
    <3>2. Cardinality(PlacementUnits(p)') = c + line[i].units
      BY <1>1, <2>2, SettleUnits
    <3>3. end[p] \in Nat
      BY DEF TypeOK
    <3> HIDE DEF c
    <3>4. PlacementGrant(p, line[i].units) <= now + c + line[i].units
      BY <1>3, <2>1, <3>3 DEF PlacementGrant, Larger, Smaller
    <3> QED BY <1>3, <2>1, <3>1, <3>2, <3>4
  <2>3. CASE ~(line[i].kind = "FEATURED" /\ line[i].post = p)
    <3>1. until'[p] = until[p]
      BY <2>3 DEF Settle, Granted, TypeOK, Line
    <3>2. Cardinality(PlacementUnits(p)') = c
      BY <1>1, <2>3, SettleUnits
    <3> QED BY <2>1, <3>1, <3>2
  <2> QED BY <2>2, <2>3
<1>7. CopiesPaidFor'
  <2> SUFFICES ASSUME NEW e \in Editors, edits[e] # NoEdit
               PROVE  edits[e].until <= now + Cardinality(PlacementUnits(edits[e].post)')
    BY DEF CopiesPaidFor
  <2>1. edits[e].post \in Posts /\ edits[e].until \in Nat
    BY DEF TypeOK, Edit
  <2>2. edits[e].until <= now + Cardinality(PlacementUnits(edits[e].post))
    BY DEF CopiesPaidFor
  <2>3. /\ Cardinality(PlacementUnits(edits[e].post)) <= Cardinality(PlacementUnits(edits[e].post)')
        /\ Cardinality(PlacementUnits(edits[e].post)) \in Nat
        /\ Cardinality(PlacementUnits(edits[e].post)') \in Nat
    BY <1>2, <1>5, <2>1, FS_CardinalityType DEF Counted
  <2> QED BY <1>3, <2>1, <2>2, <2>3
<1> QED BY <1>2, <1>4, <1>6, <1>7

\* What the other steps may do to the ends: none moves later, but for a copy saved back.
PlansOnlyEnd == \A u \in Users : planEnd'[u] \in {planEnd[u], 0}
PlacementsOnlyCopied ==
  \A p \in Posts : \/ until'[p] = until[p]
                   \/ \E e \in Editors : edits[e] # NoEdit /\ edits[e].post = p /\ until'[p] = edits[e].until
CopiesTaken ==
  \A e \in Editors : \/ edits'[e] \in {edits[e], NoEdit}
                     \/ edits'[e].post \in Posts /\ edits'[e].until = until[edits'[e].post]
Quiet ==
  /\ UNCHANGED granted /\ now' \in {now, now + 1}
  /\ PlansOnlyEnd /\ PlacementsOnlyCopied /\ CopiesTaken

LEMMA QuietSums ==
  ASSUME Inv, SumInv, Quiet, \A i \in granted : line'[i] = line[i]
  PROVE  SumInv'
<1> USE DEF Inv, SumInv
<1>1. (\A u : PlanUnits(u)' = PlanUnits(u)) /\ (\A p : PlacementUnits(p)' = PlacementUnits(p))
  BY SameUnits DEF Quiet
<1>2. (\A u \in Users : Cardinality(PlanUnits(u)) \in Nat) /\ (\A p \in Posts : Cardinality(PlacementUnits(p)) \in Nat)
  BY CountTyped
<1>3. now \in Nat /\ Month \in Nat /\ now' \in Nat /\ now <= now'
  BY NumbersAssumption DEF TypeOK, Times, Quiet
<1>4. Counted'
  BY <1>1 DEF Counted
<1>5. PlanPaidFor'
  <2> SUFFICES ASSUME NEW u \in Users PROVE planEnd'[u] <= now' + Month * Cardinality(PlanUnits(u))
    BY <1>1 DEF PlanPaidFor
  <2>1. Month * Cardinality(PlanUnits(u)) \in Nat
    BY <1>2, <1>3
  <2>2. planEnd[u] <= now + Month * Cardinality(PlanUnits(u)) /\ planEnd[u] \in Nat
    BY DEF PlanPaidFor, TypeOK
  <2> QED BY <1>3, <2>1, <2>2 DEF Quiet, PlansOnlyEnd
<1>6. PlacementPaidFor'
  <2> SUFFICES ASSUME NEW p \in Posts PROVE until'[p] <= now' + Cardinality(PlacementUnits(p))
    BY <1>1 DEF PlacementPaidFor
  <2>1. until'[p] \in Nat /\ until'[p] <= now + Cardinality(PlacementUnits(p))
    BY DEF Quiet, PlacementsOnlyCopied, PlacementPaidFor, CopiesPaidFor, TypeOK, Edit
  <2> QED BY <1>2, <1>3, <2>1
<1>7. CopiesPaidFor'
  <2> SUFFICES ASSUME NEW e \in Editors, edits'[e] # NoEdit
               PROVE  edits'[e].until <= now' + Cardinality(PlacementUnits(edits'[e].post))
    BY <1>1 DEF CopiesPaidFor
  <2>1. CASE edits'[e] = edits[e]
    <3>1. edits[e].post \in Posts /\ edits[e].until \in Nat
      BY <2>1 DEF TypeOK, Edit
    <3>2. edits[e].until <= now + Cardinality(PlacementUnits(edits[e].post))
      BY <2>1 DEF CopiesPaidFor
    <3> QED BY <1>2, <1>3, <2>1, <3>1, <3>2
  <2>2. CASE edits'[e].post \in Posts /\ edits'[e].until = until[edits'[e].post]
    <3>1. until[edits'[e].post] \in Nat
      BY <2>2 DEF TypeOK
    <3>2. until[edits'[e].post] <= now + Cardinality(PlacementUnits(edits'[e].post))
      BY <2>2 DEF PlacementPaidFor
    <3> QED BY <1>2, <1>3, <2>2, <3>1, <3>2
  <2> QED BY <2>1, <2>2 DEF Quiet, CopiesTaken
<1> QED BY <1>4, <1>5, <1>6, <1>7

LEMMA StepSums ==
  ASSUME Inv, SumInv, [Next]_vars
  PROVE  SumInv'
<1> USE DEF Inv
<1>1. \A i \in granted : line'[i] = line[i]
  BY StepGrants DEF Kept
<1>2. ASSUME NEW i \in Payments, line[i] \in Line, Settle(i), UNCHANGED <<now, line, edits>> PROVE SumInv'
  <2>1. CASE Claimable(i)
    BY <1>2, <2>1, SettleSums
  <2>2. CASE ~Claimable(i)
    <3>1. UNCHANGED <<granted, planEnd, until, now, edits>>
      BY <1>2, <2>2 DEF Settle
    <3>2. Quiet
      BY <3>1 DEF Quiet, PlansOnlyEnd, PlacementsOnlyCopied, CopiesTaken
    <3> QED BY <1>1, <3>2, QuietSums
  <2> QED BY <2>1, <2>2
<1>3. ASSUME NEW i \in Payments, SettleByHand(i) PROVE SumInv'
  <2>1. line[i] \in Line
    BY <1>3 DEF SettleByHand, RowsWritten
  <2> QED BY <1>2, <1>3, <2>1 DEF SettleByHand
<1>4. ASSUME NEW k \in Checkers, Conclude(k) PROVE SumInv'
  <2>1. checks[k].id \in Payments /\ line[checks[k].id] \in Line
    BY <1>4 DEF Conclude, ChecksBacked, RowsWritten, TypeOK
  <2>2. UNCHANGED <<now, line, edits>>
    BY <1>4 DEF Conclude
  <2>3. CASE UNCHANGED <<granted, planEnd, until>>
    <3>1. Quiet
      BY <2>2, <2>3 DEF Quiet, PlansOnlyEnd, PlacementsOnlyCopied, CopiesTaken
    <3> QED BY <1>1, <3>1, QuietSums
  <2> QED BY <1>2, <1>4, <2>1, <2>2, <2>3 DEF Conclude
<1>5. ASSUME NEW u \in Users, RevokePlan(u) \/ DeleteAccount(u) PROVE Quiet
  BY <1>5 DEF RevokePlan, DeleteAccount, Quiet, PlansOnlyEnd, PlacementsOnlyCopied, CopiesTaken, TypeOK,
              postVars, rowVars
<1>6. ASSUME NEW e \in Editors, NEW p \in Posts, LoadListing(e, p) PROVE Quiet
  BY <1>6 DEF LoadListing, Quiet, PlansOnlyEnd, PlacementsOnlyCopied, CopiesTaken, TypeOK, postVars, rowVars
<1>7. ASSUME NEW e \in Editors, NEW w \in Windows \cup {0}, SaveListing(e, w) PROVE Quiet
  <2>1. \A p \in Posts : until'[p] = until[p] \/ (edits[e].post = p /\ until'[p] = edits[e].until)
    BY <1>7 DEF SaveListing, TypeOK
  <2>2. CopiesTaken
    BY <1>7 DEF SaveListing, CopiesTaken, TypeOK
  <2> QED BY <1>7, <2>1, <2>2 DEF SaveListing, Quiet, PlansOnlyEnd, PlacementsOnlyCopied, rowVars
<1>8. ASSUME NEW e \in Editors, EditFails(e) PROVE Quiet
  BY <1>8 DEF EditFails, Quiet, PlansOnlyEnd, PlacementsOnlyCopied, CopiesTaken, TypeOK, postVars, rowVars
<1>9. ASSUME Tick PROVE Quiet
  BY <1>9 DEF Tick, Quiet, PlansOnlyEnd, PlacementsOnlyCopied, CopiesTaken, postVars, rowVars
<1>10. ASSUME UNCHANGED <<granted, now, planEnd, until, edits>> PROVE Quiet
  BY <1>10 DEF Quiet, PlansOnlyEnd, PlacementsOnlyCopied, CopiesTaken
<1>11. ASSUME OpenNext, ~\E i \in Payments : SettleByHand(i) PROVE Quiet
  BY <1>10, <1>11 DEF OpenNext, OpenInvoice, GrantByHand, OpenInvoiceStops, InsertInvoice, SaveInvoice, GiveUpInvoice,
     MakerDies, Issue, Pay, postVars, rowVars
<1>12. ASSUME CheckNext, ~\E k \in Checkers : Conclude(k) PROVE Quiet
  BY <1>10, <1>12 DEF CheckNext, Ask, QPayAnswers, CheckFails, SweepPicks, SweepAsks, SweepRetires,
     ExpireFeatured, SweepDies, postVars, rowVars
<1>13. ASSUME NEW p \in Posts, TakeDown(p) \/ Approve(p) PROVE Quiet
  BY <1>10, <1>13 DEF TakeDown, Approve, rowVars
<1>14. ASSUME OtherNext PROVE Quiet
  BY <1>5, <1>6, <1>7, <1>8, <1>9, <1>13, <1>14 DEF OtherNext
<1>15. ASSUME UNCHANGED vars PROVE Quiet
  BY <1>10, <1>15 DEF vars, postVars, rowVars
<1>16. Quiet \/ (\E i \in Payments : SettleByHand(i)) \/ \E k \in Checkers : Conclude(k)
  BY <1>11, <1>12, <1>14, <1>15 DEF Next
<1> QED BY <1>1, <1>3, <1>4, <1>16, QuietSums

LEMMA SumsHold == Spec => []SumInv
<1>1. Inv /\ SumInv /\ [Next]_vars => SumInv'
  BY StepSums
<1> QED BY <1>1, InitSums, InvHolds, PTL DEF Spec

\* No plan ever runs longer than the months that were paid for or granted by hand.
THEOREM PlanPaidForHolds == Spec => []PlanPaidFor
BY SumsHold, PTL DEF SumInv

\* No placement ever runs longer than the days that were, whatever stale copies an owner saves.
THEOREM PlacementPaidForHolds == Spec => []PlacementPaidFor
BY SumsHold, PTL DEF SumInv

-----------------------------------------------------------------------------
(* Payment implements Till: settle is the sale, everything else prices, takes money, ends a plan or *)
(* is not seen.                                                                                      *)

LEMMA SoldIsGranted == \A i : Promised!Sold(i) <=> i \in granted
<1> SUFFICES ASSUME NEW i PROVE Promised!Sold(i) <=> i \in granted
  OBVIOUS
<1>1. ASSUME NEW s \in SoldUntil, s[1] = i PROVE i \in granted
  BY <1>1 DEF SoldUntil
<1>2. ASSUME i \in granted PROVE <<i, grantEnd[i]>> \in SoldUntil /\ <<i, grantEnd[i]>>[1] = i
  BY <1>2 DEF SoldUntil
<1> QED BY <1>1, <1>2 DEF Promised!Sold

LEMMA SameSales ==
  ASSUME UNCHANGED granted, \A i \in granted : grantEnd'[i] = grantEnd[i]
  PROVE  UNCHANGED SoldUntil
BY DEF SoldUntil

\* A settlement sells its payment once, an invoice's only with its price in.
LEMMA SettleSells ==
  ASSUME Inv, NEW i \in Payments, line[i] \in Line, Settle(i), Claimable(i),
         OfQPay(i) => paid[i] >= line[i].units, UNCHANGED <<now, line, paid>>
  PROVE  Promised!Sell(i, <<i, grantEnd'[i]>>) /\ <<i, grantEnd'[i]>> \in SoldUntil'
<1> USE DEF Inv
<1> DEFINE to == IF line[i].kind = "PLAN" THEN PlanGrant(line[i].user, line[i].units)
                 ELSE PlacementGrant(line[i].post, line[i].units)
<1>1. Granted(i, to) /\ granted' = granted \cup {i} /\ i \notin granted
  BY DEF Settle, Claimable
<1>2. grantEnd' = [grantEnd EXCEPT ![i] = to]
  BY <1>1 DEF Granted
<1>3. grantEnd'[i] = to /\ \A j \in granted : grantEnd'[j] = grantEnd[j]
  BY <1>1, <1>2 DEF TypeOK
<1>4. SoldUntil' = SoldUntil \cup {<<i, grantEnd'[i]>>}
  BY <1>1, <1>3 DEF SoldUntil
<1>5. ~Promised!Sold(i) /\ line[i] # NoLine
  BY <1>1, SoldIsGranted, NamesAssumption
<1>6. line[i].provider = "QPAY" => paid[i] >= line[i].units
  BY DEF OfQPay
<1>7. CASE line[i].kind = "PLAN"
  <2>1. /\ to = (IF planEnd[line[i].user] < now THEN now ELSE planEnd[line[i].user]) + Month * line[i].units
        /\ planEnd' = [planEnd EXCEPT ![line[i].user] = to]
    BY <1>1, <1>7 DEF Granted, PlanGrant, Larger
  <2> HIDE DEF to
  <2> QED BY <1>3, <1>4, <1>5, <1>6, <1>7, <2>1 DEF Promised!Sell
<1>8. CASE line[i].kind # "PLAN"
  <2>1. UNCHANGED planEnd
    BY <1>1, <1>8 DEF Granted
  <2> HIDE DEF to
  <2> QED BY <1>4, <1>5, <1>6, <1>8, <2>1 DEF Promised!Sell
<1> QED BY <1>7, <1>8

LEMMA TillStep ==
  ASSUME Inv, [Next]_vars
  PROVE  [Promised!TillNext]_(Promised!tillVars)
<1> DEFINE Goal == [Promised!TillNext]_(Promised!tillVars)
<1> USE DEF Inv
<1>1. ASSUME UNCHANGED <<now, line, paid, granted, grantEnd, planEnd>> PROVE Goal
  BY <1>1, SameSales DEF Promised!tillVars
<1>2. ASSUME NEW i \in Payments, status[i] = "NONE", \E l \in Line \cup {NoLine} : line' = [line EXCEPT ![i] = l],
             UNCHANGED <<now, paid, granted, grantEnd, planEnd>>
      PROVE  Goal
  <2>1. i \notin granted
    BY <1>2 DEF RowsWritten
  <2>2. line' \in [Payments -> Line \cup {NoLine}] /\ \A j \in Payments \ {i} : line'[j] = line[j]
    BY <1>2 DEF TypeOK
  <2>3. Promised!Price(i)
    BY <1>2, <2>1, <2>2, SoldIsGranted, SameSales DEF Promised!Price
  <2> QED BY <2>3 DEF Promised!TillNext
<1>3. ASSUME NEW i \in Payments, NEW u \in Users, NEW kind \in Kinds, NEW p \in Posts, NEW n \in Units,
             OpenInvoice(i, u, kind, p, n) \/ GrantByHand(i, u, kind, p, n)
      PROVE  Goal
  <2>1. \A by \in Providers : LineOf(u, kind, p, n, by) \in Line
    BY <1>3, LineTyped DEF OpenInvoice, GrantByHand
  <2>2. status[i] = "NONE" /\ \E l \in Line \cup {NoLine} : line' = [line EXCEPT ![i] = l]
    BY <1>3, <2>1 DEF OpenInvoice, GrantByHand, Providers
  <2>3. UNCHANGED <<now, paid, granted, grantEnd, planEnd>>
    BY <1>3 DEF OpenInvoice, GrantByHand, qpayVars
  <2> HIDE DEF Goal
  <2> QED BY <1>2, <2>2, <2>3
<1>4. ASSUME NEW i \in Payments, MakerDies(i) PROVE Goal
  <2>1. UNCHANGED <<now, paid, granted, grantEnd, planEnd>>
    BY <1>4 DEF MakerDies, qpayVars
  <2>2. UNCHANGED line \/ (status[i] = "NONE" /\ line' = [line EXCEPT ![i] = NoLine])
    BY <1>4 DEF MakerDies
  <2> HIDE DEF Goal
  <2> QED BY <1>1, <1>2, <2>1, <2>2
<1>5. ASSUME NEW i \in Payments, line[i] \in Line, Settle(i), OfQPay(i) => paid[i] >= line[i].units,
             UNCHANGED <<now, line, paid>>
      PROVE  Goal
  <2>1. CASE Claimable(i)
    <3>1. \E s \in SoldUntil' : Promised!Sell(i, s)
      BY <1>5, <2>1, SettleSells
    <3> QED BY <3>1 DEF Promised!TillNext
  <2>2. CASE ~Claimable(i)
    <3>1. UNCHANGED <<granted, grantEnd, planEnd>>
      BY <1>5, <2>2 DEF Settle
    <3> QED BY <1>1, <1>5, <3>1
  <2> HIDE DEF Goal
  <2> QED BY <2>1, <2>2
<1>6. ASSUME NEW i \in Payments, SettleByHand(i) PROVE Goal
  <2>1. line[i] \in Line /\ ~OfQPay(i)
    BY <1>6 DEF SettleByHand, RowsWritten
  <2>2. Settle(i) /\ UNCHANGED <<now, line, paid>>
    BY <1>6 DEF SettleByHand, qpayVars
  <2> HIDE DEF Goal
  <2> QED BY <1>5, <2>1, <2>2
<1>7. ASSUME NEW k \in Checkers, Conclude(k) PROVE Goal
  <2> DEFINE i == checks[k].id
  <2>1. checks[k] \in Check
    BY <1>7 DEF Conclude, TypeOK
  <2>2. i \in Payments /\ line[i] \in Line /\ OfQPay(i) /\ checks[k].sum <= paid[i]
    BY <1>7, <2>1 DEF Conclude, Check, ChecksBacked, RowsWritten
  <2>3. UNCHANGED <<now, line, paid>>
    BY <1>7 DEF Conclude, qpayVars
  <2>4. CASE InFull(i, checks[k].sum) /\ Settle(i)
    <3>1. checks[k].sum \in Nat /\ paid[i] \in Nat /\ line[i].units \in Nat
      BY <2>1, <2>2, GrantTyped DEF Check, TypeOK
    <3>2. paid[i] >= line[i].units
      BY <2>2, <2>4, <3>1 DEF InFull, Amount
    <3> HIDE DEF Goal, i
    <3> QED BY <1>5, <2>2, <2>3, <2>4, <3>2
  <2>5. CASE UNCHANGED <<granted, grantEnd, planEnd>>
    BY <1>1, <2>3, <2>5
  <2> HIDE DEF Goal
  <2> QED BY <1>7, <2>4, <2>5 DEF Conclude
<1>8. ASSUME NEW i \in Payments, Pay(i) PROVE Goal
  <2>1. Promised!TakeMoney(i)
    BY <1>8, SameSales DEF Pay, Promised!TakeMoney, rowVars
  <2> QED BY <2>1 DEF Promised!TillNext
<1>9. ASSUME NEW u \in Users, RevokePlan(u) \/ DeleteAccount(u) PROVE Goal
  <2>1. Promised!Revoke(u)
    BY <1>9, SameSales DEF RevokePlan, DeleteAccount, Promised!Revoke, rowVars, qpayVars
  <2> QED BY <2>1 DEF Promised!TillNext
<1>10. ASSUME Tick PROVE Goal
  <2>1. Promised!Wait
    BY <1>10, SameSales DEF Tick, Promised!Wait, rowVars, qpayVars
  <2> QED BY <2>1 DEF Promised!TillNext
<1> HIDE DEF Goal
<1>11. ASSUME NEW i \in Payments, InsertInvoice(i) \/ SaveInvoice(i) \/ GiveUpInvoice(i) \/ Issue(i) PROVE Goal
  BY <1>1, <1>11 DEF InsertInvoice, SaveInvoice, GiveUpInvoice, Issue, rowVars, qpayVars
<1>20. ASSUME NEW u \in Users, NEW kind \in Kinds, NEW p \in Posts, NEW n \in Units,
              OpenInvoiceStops(u, kind, p, n)
       PROVE  Goal
  BY <1>1, <1>20 DEF OpenInvoiceStops, qpayVars
<1>12. ASSUME CheckNext, ~\E k \in Checkers : Conclude(k) PROVE Goal
  BY <1>1, <1>12 DEF CheckNext, Ask, QPayAnswers, CheckFails, SweepPicks, SweepAsks, SweepRetires,
     ExpireFeatured, SweepDies, rowVars, qpayVars
<1>13. ASSUME NEW e \in Editors, \/ \E p \in Posts : LoadListing(e, p)
                                 \/ \E w \in Windows \cup {0} : SaveListing(e, w)
                                 \/ EditFails(e)
       PROVE  Goal
  BY <1>1, <1>13 DEF LoadListing, SaveListing, EditFails, rowVars, qpayVars
<1>14. ASSUME NEW p \in Posts, TakeDown(p) \/ Approve(p) PROVE Goal
  BY <1>1, <1>14 DEF TakeDown, Approve, rowVars, qpayVars
<1>15. ASSUME UNCHANGED vars PROVE Goal
  BY <1>1, <1>15 DEF vars, rowVars, qpayVars
<1>16. ASSUME OpenNext PROVE Goal
  BY <1>3, <1>4, <1>6, <1>8, <1>11, <1>16, <1>20 DEF OpenNext
<1>17. ASSUME CheckNext PROVE Goal
  BY <1>7, <1>12, <1>17
<1>18. ASSUME OtherNext PROVE Goal
  BY <1>9, <1>10, <1>13, <1>14, <1>18 DEF OtherNext
<1>19. Goal
  BY <1>15, <1>16, <1>17, <1>18 DEF Next
<1> QED BY <1>19 DEF Goal

LEMMA TillStart == Init => Promised!TillInit
BY DEF Init, Promised!TillInit, SoldUntil

\* However polls, callbacks, the sweep, admins and restarts interleave, money and plans move as in Till.
THEOREM PaymentsImplementTill == Spec => ImplementsTill
<1>1. Inv /\ [Next]_vars => [Promised!TillNext]_(Promised!tillVars)
  BY TillStep
<1> QED BY <1>1, TillStart, InvHolds, PTL DEF Spec, ImplementsTill, Promised!TillSpec
=============================================================================
