------------------------------ MODULE Payment ------------------------------
(***************************************************************************)
(* Payments: an invoice is opened at QPay and paid there, or an admin      *)
(* grants by hand; a payment extends a plan or a featured placement once.  *)
(*                                                                         *)
(* One action is one statement or transaction of the engine. createInvoice *)
(* is four steps (supersede, insert, the call to QPay, save or cancel), a  *)
(* check is three (read the row, QPay answers, settle or expire): anything *)
(* may happen at each await, a restart of the worker included.             *)
(***************************************************************************)
EXTENDS Integers, FiniteSets

CONSTANTS
  Users,       \* providers' accounts
  Posts,       \* listings
  Payments,    \* ids of payments rows
  Checkers,    \* refresh calls that can run at once
  Sweeper,     \* the one the minute job uses
  Editors,     \* owner's save requests that can be between load and save
  Kinds,       \* what is on sale: PLAN, FEATURED
  Units,       \* months or days a line may ask for
  Windows,     \* lengths of a listing's window (categories' and plans')
  Month, Ttl, LateFor, PendingFor,
               \* a month, INVOICE_TTL_MINUTES, and the sweep's 1 day and 2 days, in ticks;
               \* a day of placement is one tick
  SweepLimit,  \* LIMIT of the sweep
  Grace,       \* DELETED_LISTINGS_DAYS
  MaxTime,     \* bound: the clock stops here
  MaxPaid,     \* bound: money paid on one invoice
  NoPost, NoLine, Idle, NoEdit

Times == 0..MaxTime
Providers == {"QPAY", "MANUAL"}
Line == [user : Users, kind : {"PLAN"}, post : {NoPost}, units : Nat \ {0}, provider : Providers]
          \cup [user : Users, kind : {"FEATURED"}, post : Posts, units : Nat \ {0}, provider : Providers]
Check == [id : Payments, pending : BOOLEAN, told : BOOLEAN, sum : Nat]
Edit  == [post : Posts, live : BOOLEAN, featured : BOOLEAN, until : Nat, end : Nat]

ASSUME NumbersAssumption ==
  /\ {Month, Ttl, LateFor, PendingFor, SweepLimit, Grace, MaxTime, MaxPaid} \subseteq Nat
  /\ Kinds \subseteq {"PLAN", "FEATURED"}
  /\ Units \subseteq Nat \ {0} /\ Windows \subseteq Nat \ {0}
ASSUME NamesAssumption ==
  Sweeper \in Checkers /\ NoLine \notin Line /\ Idle \notin Check /\ NoEdit \notin Edit

VARIABLES
  now,
  accounts,  \* rows of users
  planEnd,   \* users.plan_expires_at; 0 when the plan is FREE
  owner,     \* posts.user_id while the account exists
  live,      \* listings approved, published and not deleted
  end,       \* posts.expires_at; 0 for null
  featured,  \* posts.is_featured
  until,     \* posts.featured_until; 0 for null
  line,      \* what a payment sells and to whom (immutable columns)
  status,    \* payments.status; NONE: no row yet, GONE: cascaded away
  created,   \* payments.date_created
  known,     \* payments with provider_invoice_id
  granted,   \* payments with granted_at
  grantEnd,  \* payments.granted_until; 0 for null
  making,    \* where the request that makes the row is: before its insert, at its call, past a save
             \* whose answer it lost, past a cancel that overwrote PAID, or granting by hand
  issued,    \* invoices that exist at QPay
  paid,      \* money QPay holds for an invoice
  checks,    \* refresh calls under way
  sweep,     \* the minute job: off, asking, or past its loop
  queue,     \* ids its loop has left
  edits,     \* listings as the owner's requests loaded them
  notices    \* payment.paid events handed to the bus

postVars == <<owner, live, end, featured, until>>
rowVars  == <<line, status, created, known, granted, grantEnd>>
qpayVars == <<issued, paid>>
jobVars  == <<checks, sweep, queue>>
vars == <<now, accounts, planEnd, postVars, rowVars, making, qpayVars, jobVars, edits, notices>>

Payable == {"PENDING", "EXPIRED", "CANCELLED"}
Status  == Payable \cup {"NONE", "PAID", "GONE"}

TypeOK ==
  /\ now \in Times
  /\ accounts \subseteq Users
  /\ planEnd \in [Users -> Nat]
  /\ owner \in [Posts -> Users]
  /\ live \subseteq Posts /\ featured \subseteq Posts
  /\ end \in [Posts -> Nat] /\ until \in [Posts -> Nat]
  /\ line \in [Payments -> Line \cup {NoLine}]
  /\ status \in [Payments -> Status]
  /\ created \in [Payments -> Times]
  /\ known \subseteq Payments /\ granted \subseteq Payments /\ issued \subseteq Payments
  /\ grantEnd \in [Payments -> Nat]
  /\ making \in [Payments -> {"none", "insert", "call", "lost", "undone", "hand"}]
  /\ paid \in [Payments -> Nat]
  /\ checks \in [Checkers -> Check \cup {Idle}]
  /\ sweep \in {"off", "ask", "end"} /\ queue \subseteq Payments
  /\ edits \in [Editors -> Edit \cup {NoEdit}]
  /\ notices \in [Payments -> Nat]

Init ==
  /\ now = 0 /\ accounts = Users
  /\ planEnd = [u \in Users |-> 0]
  /\ owner \in [Posts -> Users] /\ end \in [Posts -> Windows]
  /\ live = Posts /\ featured = {} /\ until = [p \in Posts |-> 0]
  /\ line = [i \in Payments |-> NoLine] /\ status = [i \in Payments |-> "NONE"]
  /\ created = [i \in Payments |-> 0] /\ grantEnd = [i \in Payments |-> 0]
  /\ known = {} /\ granted = {} /\ issued = {}
  /\ making = [i \in Payments |-> "none"]
  /\ paid = [i \in Payments |-> 0]
  /\ checks = [k \in Checkers |-> Idle] /\ sweep = "off" /\ queue = {}
  /\ edits = [e \in Editors |-> NoEdit]
  /\ notices = [i \in Payments |-> 0]

-----------------------------------------------------------------------------
(* Conditions and values the handlers are built from. A definition whose    *)
(* name starts with Bug is what a plausible slip would make of the next.    *)

Smaller(a, b) == IF a < b THEN a ELSE b
Larger(a, b)  == IF a < b THEN b ELSE a

OfQPay(i) == line[i].provider = "QPAY"
IsRow(i)  == status[i] \notin {"NONE", "GONE"}
Amount(i) == IF OfQPay(i) THEN line[i].units ELSE 0

Lapsed(p) == end[p] > 0 /\ end[p] <= now

\* LIVE_SQL
IsLive(p) == p \in live /\ ~Lapsed(p)

\* featuredDays
DaysLeft(p, days) == IF end[p] = 0 THEN days ELSE Smaller(days, end[p] - now)

\* What line sells: any plan, a placement of the caller's own live listing for the days it has left.
LineOf(u, kind, p, n, provider) ==
  [user |-> u, kind |-> kind, provider |-> provider,
   post |-> IF kind = "PLAN" THEN NoPost ELSE p,
   units |-> IF kind = "PLAN" THEN n ELSE DaysLeft(p, n)]
Sellable(u, kind, p, n) == kind = "FEATURED" => owner[p] = u /\ IsLive(p) /\ DaysLeft(p, n) >= 1

\* A placement that ran out.
BugRanOut(p) == 0 < end[p] /\ end[p] <= now
RanOut(p) == until[p] <= now

\* The open invoices a newer one of the same user and kind retires.
BugRetired(u, kind) ==
  {i \in Payments : IsRow(i) /\ OfQPay(i) /\ line[i].user = u /\ line[i].kind = kind}
Retired(u, kind) ==
  {i \in Payments : status[i] = "PENDING" /\ OfQPay(i) /\ line[i].user = u /\ line[i].kind = kind}

\* settle's one claim.
BugClaimable(i) == IsRow(i)
Claimable(i) == i \notin granted /\ status[i] \in Payable

\* refresh believes what QPay says is paid.
BugInFull(i, sum) == sum > 0
InFull(i, sum) == sum >= Amount(i)

\* The UPDATE that retires an unpaid invoice still finds it PENDING.
StillPending(i) == status[i] = "PENDING"

\* The rows QPay never answered for, past their half hour.
BugUnheard(i) == status[i] = "PENDING" /\ OfQPay(i) /\ i \in known /\ created[i] + Ttl < now
Unheard(i) == status[i] = "PENDING" /\ OfQPay(i) /\ i \notin known /\ created[i] + Ttl < now

\* What one run of the sweep may ask about, and the rows it picks.
BugSweepable(i) == status[i] = "PENDING" /\ i \in known
Sweepable(i) == /\ IsRow(i) /\ OfQPay(i) /\ i \in known
                /\ i \notin granted /\ status[i] # "PAID"
                /\ status[i] = "PENDING" \/ created[i] + LateFor > now
                /\ created[i] + PendingFor > now
Picks(Q) == LET rows == {i \in Payments : Sweepable(i)} IN
  /\ Q \subseteq rows /\ Cardinality(Q) <= SweepLimit
  /\ Cardinality(Q) < SweepLimit => Q = rows
  /\ \A i \in Q, j \in rows \ Q : created[i] <= created[j]

\* grantPlan: from the paid end when there is one, else from now.
BugPlanGrant(u, months) == planEnd[u] + Larger(planEnd[u], now) + Month * months
PlanGrant(u, months) == Larger(planEnd[u], now) + Month * months

\* grantFeatured: extends a running placement, never past the listing's own end; 0 when none is left.
BugPlacementGrant(p, days) == IF end[p] = 0 THEN Larger(until[p], now) + days ELSE end[p]
PlacementGrant(p, days) ==
  LET to == Larger(until[p], now) + days
      cut == IF end[p] = 0 THEN to ELSE Smaller(to, end[p])
  IN  IF cut <= now THEN 0 ELSE cut

\* settle hands payment.paid to the bus only for the claim that granted.
Announces(i) == Claimable(i)

Granted(i, to) ==
  /\ grantEnd' = [grantEnd EXCEPT ![i] = to]
  /\ IF line[i].kind = "PLAN"
     THEN planEnd' = [planEnd EXCEPT ![line[i].user] = to] /\ UNCHANGED <<featured, until>>
     ELSE /\ featured' = IF to = 0 THEN featured ELSE featured \cup {line[i].post}
          /\ until' = IF to = 0 THEN until ELSE [until EXCEPT ![line[i].post] = to]
          /\ UNCHANGED planEnd

\* settle: one transaction; the event follows the commit and is lost with its worker.
Settle(i) ==
  /\ notices' \in IF Announces(i) THEN {notices, [notices EXCEPT ![i] = @ + 1]} ELSE {notices}
  /\ \/ /\ Claimable(i)
        /\ status' = [status EXCEPT ![i] = "PAID"]
        /\ granted' = granted \cup {i}
        /\ Granted(i, IF line[i].kind = "PLAN" THEN PlanGrant(line[i].user, line[i].units)
                      ELSE PlacementGrant(line[i].post, line[i].units))
     \/ /\ ~Claimable(i)
        /\ UNCHANGED <<status, granted, grantEnd, planEnd, featured, until>>
-----------------------------------------------------------------------------
(* Opening an invoice. *)

\* createInvoice: the line is priced and older invoices of the kind are retired.
OpenInvoice(i, u, kind, p, n) ==
  /\ status[i] = "NONE" /\ making[i] = "none" /\ u \in accounts
  /\ Sellable(u, kind, p, n)
  /\ line' = [line EXCEPT ![i] = LineOf(u, kind, p, n, "QPAY")]
  /\ making' = [making EXCEPT ![i] = "insert"]
  /\ status' = [j \in Payments |-> IF j \in Retired(u, kind) THEN "CANCELLED" ELSE status[j]]
  /\ UNCHANGED <<now, accounts, planEnd, postVars, created, known, granted, grantEnd, qpayVars,
                 jobVars, edits, notices>>

\* A request that stops between its two statements: older invoices are retired and none is opened. The
\* insert gives the id, so it used none.
OpenInvoiceStops(u, kind, p, n) ==
  /\ u \in accounts /\ Sellable(u, kind, p, n)
  /\ status' = [j \in Payments |-> IF j \in Retired(u, kind) THEN "CANCELLED" ELSE status[j]]
  /\ UNCHANGED <<now, accounts, planEnd, postVars, line, created, known, granted, grantEnd, making,
                 qpayVars, jobVars, edits, notices>>

InsertInvoice(i) ==
  /\ making[i] = "insert" /\ line[i].user \in accounts
  /\ status' = [status EXCEPT ![i] = "PENDING"]
  /\ created' = [created EXCEPT ![i] = now]
  /\ making' = [making EXCEPT ![i] = "call"]
  /\ UNCHANGED <<now, accounts, planEnd, postVars, line, known, granted, grantEnd, qpayVars,
                 jobVars, edits, notices>>

\* The answer came: the row learns the invoice's id, unless the row is gone. The save's own answer may
\* be lost, then its caller takes it for failed.
SaveInvoice(i) ==
  /\ making[i] = "call" /\ i \in issued
  /\ known' = IF IsRow(i) THEN known \cup {i} ELSE known
  /\ \E at \in {"none", "lost"} : making' = [making EXCEPT ![i] = at]
  /\ UNCHANGED <<now, accounts, planEnd, postVars, line, status, created, granted, grantEnd,
                 qpayVars, jobVars, edits, notices>>

\* The call or the save failed, as far as the request knows: it cancels the row whatever its status.
GiveUpInvoice(i) ==
  /\ making[i] \in {"call", "lost"}
  /\ status' = IF IsRow(i) THEN [status EXCEPT ![i] = "CANCELLED"] ELSE status
  /\ making' = [making EXCEPT ![i] = IF status[i] = "PAID" THEN "undone" ELSE "none"]
  /\ UNCHANGED <<now, accounts, planEnd, postVars, line, created, known, granted, grantEnd,
                 qpayVars, jobVars, edits, notices>>

\* The worker that serves the request stops, or the insert meets a deleted account.
MakerDies(i) ==
  /\ making[i] \notin {"none", "undone"}
  /\ making' = [making EXCEPT ![i] = "none"]
  /\ line' = IF status[i] = "NONE" THEN [line EXCEPT ![i] = NoLine] ELSE line
  /\ UNCHANGED <<now, accounts, planEnd, postVars, status, created, known, granted, grantEnd,
                 qpayVars, jobVars, edits, notices>>
-----------------------------------------------------------------------------
(* QPay: it may issue the invoice and its answer still be lost. *)

Issue(i) ==
  /\ making[i] = "call" /\ i \notin issued
  /\ issued' = issued \cup {i}
  /\ UNCHANGED <<now, accounts, planEnd, postVars, rowVars, making, paid, jobVars, edits, notices>>

Pay(i) ==
  /\ i \in issued /\ paid[i] < MaxPaid
  /\ paid' = [paid EXCEPT ![i] = @ + 1]
  /\ UNCHANGED <<now, accounts, planEnd, postVars, rowVars, making, issued, jobVars, edits, notices>>
-----------------------------------------------------------------------------
(* Asking QPay: a client's poll, QPay's callback or the minute job. *)

\* refresh asks only about an ungranted invoice it knows; unforced, only while it is PENDING.
Askable(i, force) == /\ IsRow(i) /\ i \notin granted /\ OfQPay(i) /\ i \in known
                     /\ status[i] = "PENDING" \/ force

\* The row as read here decides whether it may be retired later.
Asking(i) == [id |-> i, pending |-> status[i] = "PENDING", told |-> FALSE, sum |-> 0]

Ask(k, i, force) ==
  /\ k # Sweeper /\ checks[k] = Idle /\ Askable(i, force)
  /\ checks' = [checks EXCEPT ![k] = Asking(i)]
  /\ UNCHANGED <<now, accounts, planEnd, postVars, rowVars, making, qpayVars, sweep, queue, edits,
                 notices>>

QPayAnswers(k) ==
  /\ checks[k] # Idle /\ ~checks[k].told
  /\ checks' = [checks EXCEPT ![k] = [@ EXCEPT !.told = TRUE, !.sum = paid[checks[k].id]]]
  /\ UNCHANGED <<now, accounts, planEnd, postVars, rowVars, making, qpayVars, sweep, queue, edits,
                 notices>>

\* The rest of refresh: settle, retire what lapsed unpaid, or nothing.
Conclude(k) ==
  /\ checks[k] # Idle /\ checks[k].told
  /\ LET i == checks[k].id IN
     \/ InFull(i, checks[k].sum) /\ Settle(i)
     \/ /\ ~InFull(i, checks[k].sum)
        /\ status' = IF checks[k].pending /\ created[i] + Ttl <= now /\ StillPending(i)
                     THEN [status EXCEPT ![i] = "EXPIRED"] ELSE status
        /\ UNCHANGED <<granted, grantEnd, planEnd, featured, until, notices>>
  /\ checks' = [checks EXCEPT ![k] = Idle]
  /\ UNCHANGED <<now, accounts, owner, live, end, line, created, known, making, qpayVars, sweep,
                 queue, edits>>

\* QPay is unreachable or slow, or the worker stops.
CheckFails(k) ==
  /\ checks[k] # Idle
  /\ checks' = [checks EXCEPT ![k] = Idle]
  /\ UNCHANGED <<now, accounts, planEnd, postVars, rowVars, making, qpayVars, sweep, queue, edits,
                 notices>>
-----------------------------------------------------------------------------
(* The minute job: sweepPending, then expireFeatured. *)

SweepPicks(Q) ==
  /\ sweep = "off" /\ Picks(Q)
  /\ sweep' = "ask" /\ queue' = Q
  /\ UNCHANGED <<now, accounts, planEnd, postVars, rowVars, making, qpayVars, checks, edits, notices>>

\* One turn of its loop; a row that no longer qualifies is passed over.
SweepAsks(i) ==
  /\ sweep = "ask" /\ i \in queue /\ checks[Sweeper] = Idle
  /\ checks' = IF Askable(i, TRUE) THEN [checks EXCEPT ![Sweeper] = Asking(i)] ELSE checks
  /\ queue' = queue \ {i}
  /\ UNCHANGED <<now, accounts, planEnd, postVars, rowVars, making, qpayVars, sweep, edits, notices>>

\* Its last statement.
SweepRetires ==
  /\ sweep = "ask" /\ queue = {} /\ checks[Sweeper] = Idle
  /\ status' = [i \in Payments |-> IF Unheard(i) THEN "EXPIRED" ELSE status[i]]
  /\ sweep' = "end"
  /\ UNCHANGED <<now, accounts, planEnd, postVars, line, created, known, granted, grantEnd, making,
                 qpayVars, checks, queue, edits, notices>>

ExpireFeatured ==
  /\ sweep = "end"
  /\ featured' = {p \in featured : ~RanOut(p)}
  /\ sweep' = "off"
  /\ UNCHANGED <<now, accounts, planEnd, owner, live, end, until, rowVars, making, qpayVars, checks,
                 queue, edits, notices>>

SweepDies ==
  /\ sweep # "off"
  /\ sweep' = "off" /\ queue' = {}
  /\ checks' = [checks EXCEPT ![Sweeper] = Idle]
  /\ UNCHANGED <<now, accounts, planEnd, postVars, rowVars, making, qpayVars, edits, notices>>
-----------------------------------------------------------------------------
(* Admins: a grant is inserted, then settled. *)

GrantByHand(i, u, kind, p, n) ==
  /\ status[i] = "NONE" /\ making[i] = "none" /\ u \in accounts
  /\ Sellable(u, kind, p, n)
  /\ line' = [line EXCEPT ![i] = LineOf(u, kind, p, n, "MANUAL")]
  /\ status' = [status EXCEPT ![i] = "PENDING"]
  /\ created' = [created EXCEPT ![i] = now]
  /\ making' = [making EXCEPT ![i] = "hand"]
  /\ UNCHANGED <<now, accounts, planEnd, postVars, known, granted, grantEnd, qpayVars, jobVars,
                 edits, notices>>

SettleByHand(i) ==
  /\ making[i] = "hand"
  /\ Settle(i)
  /\ making' = [making EXCEPT ![i] = "none"]
  /\ UNCHANGED <<now, accounts, owner, live, end, line, created, known, qpayVars, jobVars, edits>>

RevokePlan(u) ==
  /\ u \in accounts
  /\ planEnd' = [planEnd EXCEPT ![u] = 0]
  /\ UNCHANGED <<now, accounts, postVars, rowVars, making, qpayVars, jobVars, edits, notices>>
-----------------------------------------------------------------------------
(* What else writes the rows a payment reads: the owner's edits and renewals, moderation, account *)
(* deletion, time.                                                                                *)

\* The owner's request loads the listing without a lock ...
LoadListing(e, p) ==
  /\ edits[e] = NoEdit /\ owner[p] \in accounts
  /\ edits' = [edits EXCEPT ![e] = [post |-> p, live |-> p \in live, featured |-> p \in featured,
                                    until |-> until[p], end |-> end[p]]]
  /\ UNCHANGED <<now, accounts, planEnd, postVars, rowVars, making, qpayVars, jobVars, notices>>

\* ... and save writes every column in which its copy differs from the row; a renewal moves the end.
SaveListing(e, w) ==
  /\ edits[e] # NoEdit
  /\ LET c == edits[e]  p == c.post  IN
     /\ owner[p] \in accounts
     /\ w = 0 \/ c.live
     /\ live' = IF c.live THEN live \cup {p} ELSE live \ {p}
     /\ featured' = IF c.featured THEN featured \cup {p} ELSE featured \ {p}
     /\ until' = [until EXCEPT ![p] = c.until]
     /\ end' = [end EXCEPT ![p] = IF w = 0 THEN c.end ELSE now + w]
  /\ edits' = [edits EXCEPT ![e] = NoEdit]
  /\ UNCHANGED <<now, accounts, planEnd, owner, rowVars, making, qpayVars, jobVars, notices>>

EditFails(e) ==
  /\ edits[e] # NoEdit
  /\ edits' = [edits EXCEPT ![e] = NoEdit]
  /\ UNCHANGED <<now, accounts, planEnd, postVars, rowVars, making, qpayVars, jobVars, notices>>

\* reject leaves the placement alone, takeDown lowers its flag only.
TakeDown(p) ==
  /\ p \in live
  /\ live' = live \ {p} /\ featured' \in {featured, featured \ {p}}
  /\ UNCHANGED <<now, accounts, planEnd, owner, end, until, rowVars, making, qpayVars, jobVars,
                 edits, notices>>

Approve(p) ==
  /\ p \notin live /\ owner[p] \in accounts
  /\ live' = live \cup {p}
  /\ end' \in IF Lapsed(p) THEN {[end EXCEPT ![p] = now + w] : w \in Windows} ELSE {end}
  /\ UNCHANGED <<now, accounts, planEnd, owner, featured, until, rowVars, making, qpayVars, jobVars,
                 edits, notices>>

DeleteAccount(u) ==
  /\ u \in accounts
  /\ accounts' = accounts \ {u}
  /\ planEnd' = [planEnd EXCEPT ![u] = 0]
  /\ featured' = {p \in featured : owner[p] # u}
  /\ end' = [p \in Posts |-> IF owner[p] = u /\ p \in live
                            THEN IF end[p] = 0 THEN now + Grace ELSE Smaller(end[p], now + Grace)
                            ELSE end[p]]
  /\ status' = [i \in Payments |-> IF IsRow(i) /\ line[i].user = u THEN "GONE" ELSE status[i]]
  /\ UNCHANGED <<now, owner, live, until, line, created, known, granted, grantEnd, making,
                 qpayVars, jobVars, edits, notices>>

Tick ==
  /\ now < MaxTime
  /\ now' = now + 1
  /\ UNCHANGED <<accounts, planEnd, postVars, rowVars, making, qpayVars, jobVars, edits, notices>>
-----------------------------------------------------------------------------
OpenNext ==
  \/ \E i \in Payments, u \in Users, kind \in Kinds, p \in Posts, n \in Units :
       OpenInvoice(i, u, kind, p, n) \/ GrantByHand(i, u, kind, p, n)
  \/ \E u \in Users, kind \in Kinds, p \in Posts, n \in Units : OpenInvoiceStops(u, kind, p, n)
  \/ \E i \in Payments : \/ InsertInvoice(i) \/ SaveInvoice(i) \/ GiveUpInvoice(i)
                         \/ MakerDies(i) \/ SettleByHand(i) \/ Issue(i) \/ Pay(i)

CheckNext ==
  \/ \E k \in Checkers, i \in Payments, force \in BOOLEAN : Ask(k, i, force)
  \/ \E k \in Checkers : QPayAnswers(k) \/ Conclude(k) \/ CheckFails(k)
  \/ \E Q \in SUBSET Payments : SweepPicks(Q)
  \/ \E i \in Payments : SweepAsks(i)
  \/ SweepRetires \/ ExpireFeatured \/ SweepDies

OtherNext ==
  \/ \E u \in Users : RevokePlan(u) \/ DeleteAccount(u)
  \/ \E e \in Editors, p \in Posts : LoadListing(e, p)
  \/ \E e \in Editors, w \in Windows \cup {0} : SaveListing(e, w)
  \/ \E e \in Editors : EditFails(e)
  \/ \E p \in Posts : TakeDown(p) \/ Approve(p)
  \/ Tick

Next == OpenNext \/ CheckNext \/ OtherNext

Spec == Init /\ [][Next]_vars

-----------------------------------------------------------------------------
(* Properties. *)

\* Nothing is granted for an invoice QPay does not hold the full price of (refresh, settle).
GrantedWasPaid == \A i \in granted : OfQPay(i) => paid[i] >= line[i].units

\* A row says PAID exactly when it was granted: no late retirement or supersession overwrites a settled
\* row, and none is settled without its grant (settle). Only the catch of a request that lost the answer
\* of its save may, for it cancels without a condition.
PaidMeansGranted ==
  /\ \A i \in Payments : status[i] = "PAID" => i \in granted
  /\ \A i \in granted : status[i] \in {"PAID", "GONE"} \/ making[i] = "undone"

\* One pair for every month or day that was paid for or granted by hand.
UnitsOf(S)        == UNION {{i} \X (1..line[i].units) : i \in S}
PlanUnits(u)      == UnitsOf({i \in granted : line[i].kind = "PLAN" /\ line[i].user = u})
PlacementUnits(p) == UnitsOf({i \in granted : line[i].kind = "FEATURED" /\ line[i].post = p})

\* A plan never runs longer than the months that were paid for or granted by hand, however many
\* callbacks, polls and sweeps raced (grantPlan).
PlanPaidFor == \A u \in Users : planEnd[u] <= now + Month * Cardinality(PlanUnits(u))

\* A placement never runs longer than the days that were paid for or granted by hand, also when a
\* stale save of the owner puts older columns back (grantFeatured).
PlacementPaidFor == \A p \in Posts : until[p] <= now + Cardinality(PlacementUnits(p))

\* The provider is told of a payment at most once, and only of one that was granted.
NoticeOnce == \A i \in Payments : notices[i] <= 1 /\ (notices[i] = 1 => i \in granted)

\* A status moves only as a payment may: a settled row is final but for that catch, a retired one may
\* still be paid.
LegalMove(i) ==
  \/ status'[i] \in {status[i], "GONE"}
  \/ status[i] = "NONE" /\ status'[i] = "PENDING"
  \/ status[i] = "PENDING" /\ status'[i] \in {"PAID", "EXPIRED", "CANCELLED"}
  \/ status[i] = "EXPIRED" /\ status'[i] \in {"PAID", "CANCELLED"}
  \/ status[i] = "CANCELLED" /\ status'[i] = "PAID"
  \/ making[i] = "lost" /\ status'[i] = "CANCELLED"
StatusFlow == [][\A i \in Payments : LegalMove(i)]_vars

\* A grant is for good: what was granted, until when and for how much never changes (settle).
Kept(i) == i \in granted' /\ grantEnd'[i] = grantEnd[i] /\ line'[i] = line[i]
GrantsStand == [][\A i \in granted : Kept(i)]_vars

\* The races of callbacks, polls, sweeps, failed calls and restarts all come to one sale per payment,
\* an invoice's only with its price in, each moving the plan by exactly what was sold (settle).
SoldUntil == {<<i, grantEnd[i]>> : i \in granted}
Promised == INSTANCE Till WITH clock <- now, offer <- line, money <- paid, sold <- SoldUntil,
                               Lines <- Line, Unpriced <- NoLine
ImplementsTill == Promised!TillSpec

-----------------------------------------------------------------------------
\* The minute job runs again whatever stopped it, QPay answers some call about each invoice, and a
\* worker lives long enough to finish one.
FairSpec ==
  /\ Spec
  /\ SF_vars(\E Q \in SUBSET Payments : SweepPicks(Q))
  /\ SF_vars(SweepRetires) /\ SF_vars(ExpireFeatured)
  /\ \A i \in Payments : /\ SF_vars(SweepAsks(i))
                         /\ SF_vars(checks[Sweeper] # Idle /\ checks[Sweeper].id = i /\ QPayAnswers(Sweeper))
                         /\ SF_vars(checks[Sweeper] # Idle /\ checks[Sweeper].id = i /\ Conclude(Sweeper))

\* As many rows as the sweep's LIMIT are as old as this one or older, and qualify too.
Crowded(i) == Cardinality({j \in Payments \ {i} : Sweepable(j) /\ created[j] <= created[i]}) >= SweepLimit

\* The sweep no longer asks about it: two days after it was made, one if it is not PENDING any more.
TooOld(i) == created[i] + (IF status[i] = "PENDING" THEN PendingFor ELSE LateFor) <= now

\* Money paid in full on an invoice whose id the row knows is granted, although the invoice lapsed, was
\* superseded or its request gave it up, unless the account is gone or the row gets too old for the
\* sweep, provided that it does not stay crowded out by the sweep's LIMIT (refresh, sweepPending).
MoneyLands ==
  \A i \in Payments :
    <>[]~Crowded(i) => ((i \in known /\ IsRow(i) /\ paid[i] >= Amount(i)) ~>
                        (i \in granted \/ ~IsRow(i) \/ TooOld(i)))

\* An invoice nobody pays does not stay open past its half hour, under the same proviso; one that no
\* sweep got to in two days stays open, if the row knows its id (refresh, sweepPending).
InvoiceCloses ==
  \A i \in Payments :
    <>[]~Crowded(i) => ((status[i] = "PENDING" /\ OfQPay(i) /\ created[i] + Ttl < now) ~>
                        (status[i] # "PENDING" \/ (i \in known /\ TooOld(i))))

\* A placement that ran out stops lifting its listing (expireFeatured).
PlacementEnds ==
  \A p \in Posts : (p \in featured /\ until[p] <= now) ~> (p \notin featured \/ now < until[p])
=============================================================================
