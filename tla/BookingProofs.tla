--------------------------- MODULE BookingProofs ---------------------------
(***************************************************************************)
(* Proofs about Booking, for every set of users, listings, bookings and    *)
(* date ranges. The inductive invariant is the conjunction of typing, the  *)
(* fact that every row and every request in flight has its columns, the    *)
(* agreement of post_busy with bookings, and the two uniqueness facts;     *)
(* what each further property needs is stated before it.                   *)
(***************************************************************************)
EXTENDS Booking, TLAPS

\* Every row, and every request past its checks, has its columns; a request in flight has no
\* row yet.
DealsWritten ==
  /\ \A b \in Bookings : b \in inflight \/ status[b] \notin {"NONE", "GONE"} => deal[b] \in Deal
  /\ \A b \in inflight : status[b] = "NONE"

Typed == TypeOK /\ DealsWritten

LEMMA InitTyped == Init => Typed
  BY BoundsAssumption DEF Init, Typed, TypeOK, DealsWritten, Days, Status, Deal, BookedRow, BlockedRow, Step,
         Open, Closed, NoSteps

\* One more message of a kind, and none.
LEMMA SaidTyped ==
  ASSUME NEW steps \in [Step -> Nat], NEW kind \in Step
  PROVE  /\ Said(steps, kind) \in [Step -> Nat] /\ Said(steps, kind)[kind] = steps[kind] + 1
         /\ \A k \in Step \ {kind} : Said(steps, kind)[k] = steps[k]
BY DEF Said

LEMMA NothingSaid == NoSteps \in [Step -> Nat] /\ \A k \in Step : NoSteps[k] = 0
BY DEF NoSteps

LEMMA StepTyped ==
  ASSUME Typed, [Next]_vars
  PROVE  Typed'
<1> USE BoundsAssumption DEF Typed, Status, Open, Closed
<1>1. ASSUME NEW b \in Bookings, NEW c \in Users, NEW p \in Posts, NEW s \in Spans, Ask(b, c, p, s)
      PROVE  Typed'
  <2>1. [post |-> p, customer |-> c, provider |-> owner[p], first |-> s.first, last |-> s.last] \in Deal
    BY <1>1, SpansAssumption DEF Ask, TypeOK, Deal, Span
  <2> QED BY <1>1, <2>1 DEF Ask, TypeOK, DealsWritten, listingVars, busyVars, noteVars
<1>2. ASSUME NEW b \in Bookings, Insert(b) PROVE Typed'
  <2>1. deal[b].post \in Posts /\ deal[b].customer \in Users
    BY <1>2 DEF Insert, TypeOK, DealsWritten, Deal
  <2>2. contacts' \subseteq Posts \X Users
    BY <1>2, <2>1 DEF Insert, TypeOK
  <2>3. thread' \in [Bookings -> [Step -> Nat]]
    BY <1>2, SaidTyped DEF Insert, TypeOK, Step
  <2> QED BY <1>2, <2>2, <2>3 DEF Insert, TypeOK, DealsWritten, listingVars, busyVars, noteVars
<1>3. ASSUME NEW b \in Bookings, Abandon(b) PROVE Typed'
  BY <1>3 DEF Abandon, TypeOK, DealsWritten, listingVars, busyVars, noteVars
<1>4. ASSUME NEW b \in Bookings, Cancel(b) PROVE Typed'
  <2>1. thread' \in [Bookings -> [Step -> Nat]]
    BY <1>4, SaidTyped DEF Cancel, Tell, TypeOK, Step
  <2>2. booked' \subseteq BookedRow
    BY <1>4 DEF Cancel, WithoutDays, TypeOK
  <2>3. b \notin inflight /\ status[b] \notin {"NONE", "GONE"}
    BY <1>4 DEF Cancel, Rows, DealsWritten
  <2> QED BY <1>4, <2>1, <2>2, <2>3 DEF Cancel, TypeOK, DealsWritten, listingVars, noteVars
<1>5. ASSUME NEW b \in Bookings, Accept(b) PROVE Typed'
  <2>1. thread' \in [Bookings -> [Step -> Nat]]
    BY <1>5, SaidTyped DEF Accept, TypeOK, Step
  <2>a. deal[b] \in Deal
    BY <1>5 DEF Accept, DealsWritten
  <2>b. BookedFor(b) \in BookedRow
    BY <2>a DEF BookedFor, BookedRow, Deal
  <2>2. booked' \subseteq BookedRow
    BY <1>5, <2>b DEF Accept, TypeOK
  <2>3. \A o \in Rivals(b) \cup {b} : o \in Bookings /\ status[o] = "PENDING"
    BY <1>5 DEF Accept, Rivals
  <2> QED BY <1>5, <2>1, <2>2, <2>3 DEF Accept, TypeOK, DealsWritten, listingVars, noteVars
<1>6. ASSUME NEW b \in Bookings, Decline(b) PROVE Typed'
  <2>1. thread' \in [Bookings -> [Step -> Nat]]
    BY <1>6, SaidTyped DEF Decline, Tell, TypeOK, Step
  <2> QED BY <1>6, <2>1 DEF Decline, TypeOK, DealsWritten, listingVars, busyVars, noteVars
<1>7. ASSUME NEW P \in SUBSET Posts, NEW s \in Spans, Block(P, s) PROVE Typed'
  <2>1. blocked' \subseteq BlockedRow
    BY <1>7, SpansAssumption DEF Block, TypeOK, BlockedRow, Span
  <2> QED BY <1>7, <2>1 DEF Block, TypeOK, DealsWritten, listingVars, rowVars, noteVars
<1>8. ASSUME NEW r \in blocked, Unblock(r) PROVE Typed'
  BY <1>8 DEF Unblock, TypeOK, DealsWritten, listingVars, rowVars, noteVars
<1>9. ASSUME ExpireStale PROVE Typed'
  BY <1>9 DEF ExpireStale, Stale, TypeOK, DealsWritten, listingVars, busyVars, noteVars
<1>10. ASSUME RemindTomorrow PROVE Typed'
  <2>1. reminded' \subseteq Bookings
    BY <1>10 DEF RemindTomorrow, DueReminder, TypeOK
  <2>2. \A b \in Bookings : [notices[b] EXCEPT !.reminder = @ + 1] \in [reminder : Nat, prompt : Nat]
    <3>1. ASSUME NEW b \in Bookings PROVE notices[b] \in [reminder : Nat, prompt : Nat]
      BY DEF TypeOK
    <3> QED BY <3>1
  <2>3. notices' \in [Bookings -> [reminder : Nat, prompt : Nat]]
    BY <1>10, <2>2 DEF RemindTomorrow, TypeOK
  <2> QED BY <1>10, <2>1, <2>3 DEF RemindTomorrow, TypeOK, DealsWritten, listingVars, rowVars, busyVars
<1>11. ASSUME PromptReviews PROVE Typed'
  <2>1. prompted' \subseteq Bookings
    BY <1>11 DEF PromptReviews, DuePrompt, TypeOK
  <2>2. \A b \in Bookings : [notices[b] EXCEPT !.prompt = @ + 1] \in [reminder : Nat, prompt : Nat]
    <3>1. ASSUME NEW b \in Bookings PROVE notices[b] \in [reminder : Nat, prompt : Nat]
      BY DEF TypeOK
    <3> QED BY <3>1
  <2>3. notices' \in [Bookings -> [reminder : Nat, prompt : Nat]]
    BY <1>11, <2>2 DEF PromptReviews, TypeOK
  <2> QED BY <1>11, <2>1, <2>3 DEF PromptReviews, TypeOK, DealsWritten, listingVars, rowVars, busyVars
<1>12. ASSUME Tick PROVE Typed'
  BY <1>12 DEF Tick, Days, TypeOK, DealsWritten, listingVars, rowVars, busyVars, noteVars
<1>13. ASSUME NEW p \in Posts, Relist(p) \/ RemovePost(p) \/ RestorePost(p) PROVE Typed'
  BY <1>13 DEF Relist, RemovePost, RestorePost, TypeOK, DealsWritten, rowVars, busyVars, noteVars
<1>14. ASSUME NEW b \in Bookings, WriteReview(b) PROVE Typed'
  <2>1. deal[b].customer \in Users /\ deal[b].provider \in Users
    BY <1>14 DEF WriteReview, Rows, DealsWritten, Deal
  <2> QED BY <1>14, <2>1 DEF WriteReview, TypeOK, DealsWritten, listingVars, rowVars, busyVars
<1>15. ASSUME NEW r \in reviewed, TakeDownReview(r) PROVE Typed'
  BY <1>15 DEF TakeDownReview, TypeOK, DealsWritten, listingVars, rowVars, busyVars
<1>16. ASSUME NEW u \in Users, NEW unpublished \in SUBSET Posts, DeleteAccount(u, unpublished)
       PROVE  Typed'
  <2>1. \A b \in RowsOf(u) : b \in Bookings /\ b \notin inflight
    BY <1>16 DEF RowsOf, Rows, DealsWritten
  <2>2. booked' \subseteq BookedRow
    BY <1>16 DEF DeleteAccount, WithoutDays, TypeOK
  <2>3. thread' \in [Bookings -> [Step -> Nat]]
    BY <1>16, NothingSaid DEF DeleteAccount, TypeOK
  <2>4. owner' \in [Posts -> Users \cup {NoUser}] /\ accounts' \subseteq Users /\ removed' \subseteq Posts
    BY <1>16 DEF DeleteAccount, TypeOK
  <2> QED BY <1>16, <2>1, <2>2, <2>3, <2>4 DEF DeleteAccount, TypeOK, DealsWritten
<1>17. ASSUME UNCHANGED vars PROVE Typed'
  BY <1>17 DEF vars, TypeOK, DealsWritten, listingVars, rowVars, busyVars, noteVars
<1> QED
  BY <1>1, <1>2, <1>3, <1>4, <1>5, <1>6, <1>7, <1>8, <1>9, <1>10, <1>11, <1>12, <1>13, <1>14,
     <1>15, <1>16, <1>17 DEF Next, Customer, Provider, Jobs, Outside

\* Type correctness of every reachable state: no handler writes a status, a row or a stamp
\* the schema would not hold.
THEOREM TypeCorrect == Spec => []TypeOK
<1>1. Typed => TypeOK
  BY DEF Typed
<1> QED
  BY InitTyped, StepTyped, <1>1, PTL DEF Spec
-----------------------------------------------------------------------------
(* The calendar: post_busy agrees with bookings, and no two deals share a day. *)

CalendarInv == BusyMatchesAccepted /\ NoDoubleBooking

\* Steps that neither accept, cancel nor delete an accepted booking.
LEMMA AcceptedUntouched ==
  ASSUME Typed, CalendarInv, booked' = booked,
         \A b \in Bookings : status'[b] = "ACCEPTED" <=> status[b] = "ACCEPTED",
         \A b \in Bookings : status[b] = "ACCEPTED" => deal'[b] = deal[b]
  PROVE  CalendarInv'
<1>1. {o \in Bookings : status'[o] = "ACCEPTED"} = {o \in Bookings : status[o] = "ACCEPTED"}
  OBVIOUS
<1>2. \A b \in Bookings : status[b] = "ACCEPTED" => BookedFor(b)' = BookedFor(b)
  BY DEF BookedFor
<1>3. BusyMatchesAccepted'
  BY <1>1, <1>2 DEF CalendarInv, BusyMatchesAccepted
<1>4. NoDoubleBooking'
  BY DEF CalendarInv, NoDoubleBooking, SameDays, Meets
<1> QED BY <1>3, <1>4 DEF CalendarInv

\* Steps that end bookings B and give back exactly their days.
LEMMA DaysGivenBack ==
  ASSUME Typed, CalendarInv, NEW B \in SUBSET Bookings,
         booked' = WithoutDays(B),
         \A b \in Bookings : status'[b] = "ACCEPTED" <=> status[b] = "ACCEPTED" /\ b \notin B,
         \A b \in Bookings \ B : deal'[b] = deal[b]
  PROVE  CalendarInv'
<1>1. {o \in Bookings : status'[o] = "ACCEPTED"} = {o \in Bookings : status[o] = "ACCEPTED"} \ B
  OBVIOUS
<1>2. \A b \in Bookings \ B : BookedFor(b)' = BookedFor(b)
  BY DEF BookedFor
<1>3. \A b \in Bookings : BookedFor(b).booking = b
  BY DEF BookedFor
<1>4. booked' = {BookedFor(b) : b \in {o \in Bookings : status[o] = "ACCEPTED"} \ B}
  BY <1>3 DEF CalendarInv, BusyMatchesAccepted, WithoutDays
<1>5. BusyMatchesAccepted'
  BY <1>1, <1>2, <1>4 DEF BusyMatchesAccepted
<1>6. NoDoubleBooking'
  BY DEF CalendarInv, NoDoubleBooking, SameDays, Meets
<1> QED BY <1>5, <1>6 DEF CalendarInv

\* An accept adds its own days, which the exclusion constraint found free.
LEMMA AcceptKeepsCalendar ==
  ASSUME Typed, CalendarInv, NEW b \in Bookings, Accept(b)
  PROVE  CalendarInv'
<1>1. status'[b] = "ACCEPTED" /\ status[b] = "PENDING"
  BY DEF Accept, Typed, TypeOK
<1>2. \A o \in Bookings \ {b} : status'[o] = "ACCEPTED" <=> status[o] = "ACCEPTED"
  BY DEF Accept, Rivals, Typed, TypeOK
<1>3. deal' = deal /\ booked' = booked \cup {BookedFor(b)}
  BY DEF Accept
<1>4. {o \in Bookings : status'[o] = "ACCEPTED"} = {o \in Bookings : status[o] = "ACCEPTED"} \cup {b}
  BY <1>1, <1>2
<1>5. BusyMatchesAccepted'
  BY <1>3, <1>4 DEF CalendarInv, BusyMatchesAccepted, BookedFor
<1>6. \A o \in Bookings : status[o] = "ACCEPTED" => ~SameDays(deal[o], deal[b])
  <2> SUFFICES ASSUME NEW o \in Bookings, status[o] = "ACCEPTED"
               PROVE  ~SameDays(deal[o], deal[b])
    OBVIOUS
  <2>1. BookedFor(o) \in booked
    BY DEF CalendarInv, BusyMatchesAccepted
  <2>2. ~SameDays(BookedFor(o), deal[b])
    BY <2>1 DEF Accept, DaysFree
  <2> QED BY <2>2 DEF BookedFor, SameDays, Meets
<1>7. NoDoubleBooking'
  <2> SUFFICES ASSUME NEW x \in Bookings, NEW y \in Bookings, x # y,
                      status'[x] = "ACCEPTED", status'[y] = "ACCEPTED"
               PROVE  ~SameDays(deal[x], deal[y])
    BY <1>3 DEF NoDoubleBooking, SameDays, Meets
  <2>1. CASE x # b /\ y # b
    BY <1>2, <2>1 DEF CalendarInv, NoDoubleBooking
  <2>2. CASE y = b
    BY <1>2, <1>6, <2>2
  <2>3. CASE x = b
    <3>1. ~SameDays(deal[y], deal[b])
      BY <1>2, <1>6, <2>3
    <3> QED BY <2>3, <3>1 DEF SameDays, Meets
  <2> QED BY <2>1, <2>2, <2>3
<1> QED BY <1>5, <1>7 DEF CalendarInv

LEMMA StepCalendar ==
  ASSUME Typed, CalendarInv, [Next]_vars
  PROVE  CalendarInv'
<1> USE DEF Typed, TypeOK
<1>1. ASSUME NEW b \in Bookings, NEW c \in Users, NEW p \in Posts, NEW s \in Spans, Ask(b, c, p, s)
      PROVE  CalendarInv'
  BY <1>1, AcceptedUntouched DEF Ask, busyVars
<1>2. ASSUME NEW b \in Bookings, Insert(b) PROVE CalendarInv'
  BY <1>2, AcceptedUntouched DEF Insert, busyVars, DealsWritten
<1>3. ASSUME NEW b \in Bookings, Abandon(b) PROVE CalendarInv'
  BY <1>3, AcceptedUntouched DEF Abandon, busyVars, DealsWritten
<1>4. ASSUME NEW b \in Bookings, Cancel(b) PROVE CalendarInv'
  <2>1. \A o \in Bookings : status'[o] = "ACCEPTED" <=> status[o] = "ACCEPTED" /\ o \notin {b}
    BY <1>4 DEF Cancel
  <2> QED BY <1>4, <2>1, DaysGivenBack DEF Cancel
<1>5. ASSUME NEW b \in Bookings, Accept(b) PROVE CalendarInv'
  BY <1>5, AcceptKeepsCalendar
<1>6. ASSUME NEW b \in Bookings, Decline(b) PROVE CalendarInv'
  BY <1>6, AcceptedUntouched DEF Decline, busyVars
<1>7. ASSUME NEW P \in SUBSET Posts, NEW s \in Spans, Block(P, s) PROVE CalendarInv'
  BY <1>7, AcceptedUntouched DEF Block, rowVars
<1>8. ASSUME NEW r \in blocked, Unblock(r) PROVE CalendarInv'
  BY <1>8, AcceptedUntouched DEF Unblock, rowVars
<1>9. ASSUME ExpireStale PROVE CalendarInv'
  BY <1>9, AcceptedUntouched DEF ExpireStale, Stale, busyVars
<1>10. ASSUME RemindTomorrow \/ PromptReviews \/ Tick PROVE CalendarInv'
  BY <1>10, AcceptedUntouched DEF RemindTomorrow, PromptReviews, Tick, rowVars, busyVars
<1>11. ASSUME NEW p \in Posts, Relist(p) \/ RemovePost(p) \/ RestorePost(p) PROVE CalendarInv'
  BY <1>11, AcceptedUntouched DEF Relist, RemovePost, RestorePost, rowVars, busyVars
<1>12. ASSUME NEW b \in Bookings, WriteReview(b) PROVE CalendarInv'
  BY <1>12, AcceptedUntouched DEF WriteReview, rowVars, busyVars
<1>13. ASSUME NEW r \in reviewed, TakeDownReview(r) PROVE CalendarInv'
  BY <1>13, AcceptedUntouched DEF TakeDownReview, rowVars, busyVars
<1>14. ASSUME NEW u \in Users, NEW unpublished \in SUBSET Posts, DeleteAccount(u, unpublished)
       PROVE  CalendarInv'
  <2>1. RowsOf(u) \in SUBSET Bookings
    BY DEF RowsOf, Rows
  <2>2. \A b \in Bookings : status'[b] = "ACCEPTED" <=> status[b] = "ACCEPTED" /\ b \notin RowsOf(u)
    BY <1>14 DEF DeleteAccount
  <2>3. \A b \in Bookings \ RowsOf(u) : deal'[b] = deal[b]
    BY <1>14 DEF DeleteAccount
  <2>4. booked' = WithoutDays(RowsOf(u))
    BY <1>14 DEF DeleteAccount
  <2> QED BY <2>1, <2>2, <2>3, <2>4, DaysGivenBack
<1>15. ASSUME UNCHANGED vars PROVE CalendarInv'
  BY <1>15, AcceptedUntouched DEF vars, rowVars, busyVars
<1> QED
  BY <1>1, <1>2, <1>3, <1>4, <1>5, <1>6, <1>7, <1>8, <1>9, <1>10, <1>11, <1>12, <1>13, <1>14, <1>15
     DEF Next, Customer, Provider, Jobs, Outside

LEMMA InitCalendar == Init => CalendarInv
  BY DEF Init, CalendarInv, BusyMatchesAccepted, NoDoubleBooking

\* For any number of customers, listings and bookings: two accepted bookings of a listing
\* never share a day.
THEOREM NoDoubleBookingHolds == Spec => []NoDoubleBooking
<1>1. CalendarInv => NoDoubleBooking
  BY DEF CalendarInv
<1> QED
  BY InitTyped, InitCalendar, StepTyped, StepCalendar, <1>1, PTL DEF Spec

\* The BOOKED rows of post_busy are always exactly the days of the accepted bookings.
THEOREM BusyMatchesAcceptedHolds == Spec => []BusyMatchesAccepted
<1>1. CalendarInv => BusyMatchesAccepted
  BY DEF CalendarInv
<1> QED
  BY InitTyped, InitCalendar, StepTyped, StepCalendar, <1>1, PTL DEF Spec
-----------------------------------------------------------------------------
(* One pending request per customer and listing. *)

LEMMA PendingOnlyClosed ==
  ASSUME OnePendingRequest,
         \A b \in Bookings : status'[b] = "PENDING" => status[b] = "PENDING" /\ deal'[b] = deal[b]
  PROVE  OnePendingRequest'
BY DEF OnePendingRequest

LEMMA StepOnePending ==
  ASSUME Typed, OnePendingRequest, [Next]_vars
  PROVE  OnePendingRequest'
<1> USE DEF Typed, TypeOK
<1>1. ASSUME NEW b \in Bookings, NEW c \in Users, NEW p \in Posts, NEW s \in Spans, Ask(b, c, p, s)
      PROVE  OnePendingRequest'
  BY <1>1, PendingOnlyClosed DEF Ask
<1>2. ASSUME NEW b \in Bookings, Insert(b) PROVE OnePendingRequest'
  BY <1>2 DEF Insert, AlreadyPending, OnePendingRequest
<1>3. ASSUME NEW b \in Bookings, Abandon(b) PROVE OnePendingRequest'
  BY <1>3, PendingOnlyClosed DEF Abandon, DealsWritten
<1>4. ASSUME NEW b \in Bookings, Cancel(b) \/ Accept(b) \/ Decline(b) PROVE OnePendingRequest'
  BY <1>4, PendingOnlyClosed DEF Cancel, Accept, Decline
<1>5. ASSUME ExpireStale PROVE OnePendingRequest'
  BY <1>5, PendingOnlyClosed DEF ExpireStale
<1>6. ASSUME NEW u \in Users, NEW unpublished \in SUBSET Posts, DeleteAccount(u, unpublished)
      PROVE  OnePendingRequest'
  BY <1>6, PendingOnlyClosed DEF DeleteAccount
<1>7. ASSUME rowVars' = rowVars PROVE OnePendingRequest'
  BY <1>7, PendingOnlyClosed DEF rowVars
<1>8. ASSUME NEW P \in SUBSET Posts, NEW s \in Spans, Block(P, s) PROVE rowVars' = rowVars
  BY <1>8 DEF Block
<1>9. ASSUME NEW r, Unblock(r) \/ TakeDownReview(r) PROVE rowVars' = rowVars
  BY <1>9 DEF Unblock, TakeDownReview
<1>10. ASSUME RemindTomorrow \/ PromptReviews \/ Tick \/ UNCHANGED vars PROVE rowVars' = rowVars
  BY <1>10 DEF RemindTomorrow, PromptReviews, Tick, vars
<1>11. ASSUME NEW p \in Posts, Relist(p) \/ RemovePost(p) \/ RestorePost(p) PROVE rowVars' = rowVars
  BY <1>11 DEF Relist, RemovePost, RestorePost
<1>12. ASSUME NEW b \in Bookings, WriteReview(b) PROVE rowVars' = rowVars
  BY <1>12 DEF WriteReview
<1> QED
  BY <1>1, <1>2, <1>3, <1>4, <1>5, <1>6, <1>7, <1>8, <1>9, <1>10, <1>11, <1>12
     DEF Next, Customer, Provider, Jobs, Outside

\* However many requests of one customer pass create's checks together, one listing gets one.
THEOREM OnePendingRequestHolds == Spec => []OnePendingRequest
<1>1. Init => OnePendingRequest
  BY DEF Init, OnePendingRequest
<1> QED
  BY InitTyped, StepTyped, <1>1, StepOnePending, PTL DEF Spec
-----------------------------------------------------------------------------
(* The parties of a row. *)

\* What create read of the owner stays true while the owner's account exists.
OwnerReadInv ==
  \A b \in inflight : deal[b].provider \in accounts => owner[deal[b].post] = deal[b].provider
PartiesInv == ProviderOwnsListing /\ OwnerReadInv

LEMMA StepParties ==
  ASSUME Typed, PartiesInv, [Next]_vars
  PROVE  PartiesInv'
<1> USE DEF Typed, TypeOK, DealsWritten, PartiesInv, ProviderOwnsListing, OwnerReadInv, Rows, Open, Closed
<1>1. ASSUME NEW b \in Bookings, NEW c \in Users, NEW p \in Posts, NEW s \in Spans, Ask(b, c, p, s)
      PROVE  PartiesInv'
  BY <1>1 DEF Ask, listingVars
<1>2. ASSUME NEW b \in Bookings, Insert(b) PROVE PartiesInv'
  <2>1. {deal[b].customer, deal[b].provider} \subseteq accounts /\ owner[deal[b].post] = deal[b].provider
    BY <1>2 DEF Insert, PartiesExist
  <2> QED BY <1>2, <2>1 DEF Insert, listingVars
<1>3. ASSUME NEW b \in Bookings, Abandon(b) PROVE PartiesInv'
  BY <1>3 DEF Abandon, listingVars
<1>4. ASSUME NEW b \in Bookings, Cancel(b) PROVE PartiesInv'
  BY <1>4 DEF Cancel, listingVars
<1>5. ASSUME NEW b \in Bookings, Accept(b) PROVE PartiesInv'
  BY <1>5 DEF Accept, Rivals, listingVars
<1>6. ASSUME NEW b \in Bookings, Decline(b) PROVE PartiesInv'
  BY <1>6 DEF Decline, listingVars
<1>7. ASSUME ExpireStale PROVE PartiesInv'
  BY <1>7 DEF ExpireStale, Stale, listingVars
<1>8. ASSUME NEW u \in Users, NEW unpublished \in SUBSET Posts, DeleteAccount(u, unpublished)
      PROVE  PartiesInv'
  <2>1. \A b \in Bookings : b \in Rows' => b \in Rows /\ b \notin RowsOf(u) /\ deal'[b] = deal[b]
    BY <1>8 DEF DeleteAccount
  <2>2. \A b \in inflight : b \notin RowsOf(u) /\ deal'[b] = deal[b] /\ deal[b] \in Deal
    BY <1>8 DEF DeleteAccount, RowsOf
  <2>3. ProviderOwnsListing'
    <3> SUFFICES ASSUME NEW b \in Rows'
                 PROVE  /\ {deal'[b].customer, deal'[b].provider} \subseteq accounts'
                        /\ owner'[deal'[b].post] = deal'[b].provider
      OBVIOUS
    <3>1. b \in Rows /\ deal'[b] = deal[b] /\ u # deal[b].customer /\ u # deal[b].provider
      BY <2>1 DEF RowsOf
    <3>2. deal[b].post \in Posts
      BY <3>1 DEF Deal
    <3> QED BY <1>8, <3>1, <3>2 DEF DeleteAccount
  <2>4. OwnerReadInv'
    <3> SUFFICES ASSUME NEW b \in inflight, deal[b].provider \in accounts \ {u}
                 PROVE  owner'[deal[b].post] = deal[b].provider
      BY <1>8, <2>2 DEF DeleteAccount
    <3>1. deal[b].post \in Posts /\ owner[deal[b].post] = deal[b].provider
      BY <2>2 DEF Deal
    <3> QED BY <1>8, <3>1 DEF DeleteAccount
  <2> QED BY <2>3, <2>4
<1>9. ASSUME rowVars' = rowVars, owner' = owner, accounts' = accounts PROVE PartiesInv'
  BY <1>9 DEF rowVars
<1>10. ASSUME NEW P \in SUBSET Posts, NEW s \in Spans, Block(P, s) PROVE PartiesInv'
  BY <1>9, <1>10 DEF Block, listingVars
<1>11. ASSUME NEW r, Unblock(r) \/ TakeDownReview(r) PROVE PartiesInv'
  BY <1>9, <1>11 DEF Unblock, TakeDownReview, listingVars
<1>12. ASSUME RemindTomorrow \/ PromptReviews \/ Tick \/ UNCHANGED vars PROVE PartiesInv'
  BY <1>9, <1>12 DEF RemindTomorrow, PromptReviews, Tick, vars, listingVars
<1>13. ASSUME NEW p \in Posts, Relist(p) \/ RemovePost(p) \/ RestorePost(p) PROVE PartiesInv'
  BY <1>9, <1>13 DEF Relist, RemovePost, RestorePost
<1>14. ASSUME NEW b \in Bookings, WriteReview(b) PROVE PartiesInv'
  BY <1>9, <1>14 DEF WriteReview, listingVars
<1> QED
  BY <1>1, <1>2, <1>3, <1>4, <1>5, <1>6, <1>7, <1>8, <1>10, <1>11, <1>12, <1>13, <1>14
     DEF Next, Customer, Provider, Jobs, Outside

\* No booking outlives an account it needs, and none names a provider who is not the owner,
\* although create stores an owner it read before its transaction.
THEOREM ProviderOwnsListingHolds == Spec => []ProviderOwnsListing
<1>1. Init => PartiesInv
  BY DEF Init, PartiesInv, ProviderOwnsListing, OwnerReadInv, Rows, Open, Closed
<1>2. PartiesInv => ProviderOwnsListing
  BY DEF PartiesInv
<1> QED
  BY InitTyped, StepTyped, <1>1, StepParties, <1>2, PTL DEF Spec
-----------------------------------------------------------------------------
(* Stamps and notices: what has no stamp was not announced. *)

NoticeInv == \A b \in Bookings : status[b] # "GONE" =>
  /\ b \notin reminded => notices[b].reminder = 0
  /\ b \notin prompted => notices[b].prompt = 0

LEMMA StepNotices ==
  ASSUME Typed, NoticeInv, NoticesOnce, [Next]_vars
  PROVE  NoticeInv' /\ NoticesOnce'
<1> DEFINE Goal == NoticeInv' /\ NoticesOnce'
<1>0. notices \in [Bookings -> [reminder : Nat, prompt : Nat]] /\ status \in [Bookings -> Status]
  BY DEF Typed, TypeOK
<1>k. ASSUME UNCHANGED <<reminded, prompted, notices>>, \A b \in Bookings : status[b] = "GONE" => status'[b] = "GONE"
      PROVE  Goal
  BY <1>k DEF NoticeInv, NoticesOnce
<1>1. ASSUME NEW b \in Bookings, NEW c \in Users, NEW p \in Posts, NEW s \in Spans, Ask(b, c, p, s) PROVE Goal
  BY <1>1, <1>k DEF Ask, noteVars
<1>2. ASSUME NEW b \in Bookings, Insert(b) \/ Abandon(b) \/ Cancel(b) \/ Accept(b) \/ Decline(b) PROVE Goal
  <2>1. \A o \in Bookings : status[o] = "GONE" => status'[o] = "GONE"
    BY <1>0, <1>2 DEF Insert, Abandon, Cancel, Accept, Decline, Rivals, Rows, Open, Closed, Typed, DealsWritten
  <2>2. UNCHANGED noteVars
    BY <1>2 DEF Insert, Abandon, Cancel, Accept, Decline
  <2> HIDE DEF Goal
  <2> QED BY <1>k, <2>1, <2>2 DEF noteVars
<1>3. ASSUME ExpireStale PROVE Goal
  BY <1>3, <1>k DEF ExpireStale, Stale, noteVars
<1>4. ASSUME RemindTomorrow PROVE Goal
  <2>1. \A b \in DueReminder : b \in Bookings /\ status[b] # "GONE" /\ b \notin reminded
    BY DEF DueReminder
  <2>2. \A b \in Bookings : /\ notices'[b].prompt = notices[b].prompt
                            /\ notices'[b].reminder = IF b \in DueReminder THEN notices[b].reminder + 1
                                                      ELSE notices[b].reminder
    <3> SUFFICES ASSUME NEW b \in Bookings
                 PROVE  /\ notices'[b].prompt = notices[b].prompt
                        /\ notices'[b].reminder = IF b \in DueReminder THEN notices[b].reminder + 1
                                                  ELSE notices[b].reminder
      OBVIOUS
    <3>1. notices[b] \in [reminder : Nat, prompt : Nat]
      BY <1>0
    <3>2. notices'[b] = IF b \in DueReminder THEN [notices[b] EXCEPT !.reminder = @ + 1] ELSE notices[b]
      BY <1>4 DEF RemindTomorrow
    <3> QED BY <3>1, <3>2
  <2>3. reminded' = reminded \cup DueReminder /\ prompted' = prompted /\ status' = status
    BY <1>4 DEF RemindTomorrow, rowVars
  <2> QED BY <2>1, <2>2, <2>3 DEF NoticeInv, NoticesOnce
<1>5. ASSUME PromptReviews PROVE Goal
  <2>1. \A b \in DuePrompt : b \in Bookings /\ status[b] # "GONE" /\ b \notin prompted
    BY DEF DuePrompt
  <2>2. \A b \in Bookings : /\ notices'[b].reminder = notices[b].reminder
                            /\ notices'[b].prompt = IF b \in DuePrompt THEN notices[b].prompt + 1
                                                    ELSE notices[b].prompt
    <3> SUFFICES ASSUME NEW b \in Bookings
                 PROVE  /\ notices'[b].reminder = notices[b].reminder
                        /\ notices'[b].prompt = IF b \in DuePrompt THEN notices[b].prompt + 1
                                                ELSE notices[b].prompt
      OBVIOUS
    <3>1. notices[b] \in [reminder : Nat, prompt : Nat]
      BY <1>0
    <3>2. notices'[b] = IF b \in DuePrompt THEN [notices[b] EXCEPT !.prompt = @ + 1] ELSE notices[b]
      BY <1>5 DEF PromptReviews
    <3> QED BY <3>1, <3>2
  <2>3. prompted' = prompted \cup DuePrompt /\ reminded' = reminded /\ status' = status
    BY <1>5 DEF PromptReviews, rowVars
  <2> QED BY <2>1, <2>2, <2>3 DEF NoticeInv, NoticesOnce
<1>6. ASSUME NEW u \in Users, NEW unpublished \in SUBSET Posts, DeleteAccount(u, unpublished) PROVE Goal
  BY <1>6, <1>0 DEF DeleteAccount, NoticeInv, NoticesOnce
<1>7. ASSUME UNCHANGED <<status, reminded, prompted, notices>> PROVE Goal
  BY <1>7, <1>k
<1>8. ASSUME NEW P \in SUBSET Posts, NEW s \in Spans, Block(P, s) PROVE Goal
  BY <1>7, <1>8 DEF Block, rowVars, noteVars
<1>9. ASSUME NEW r, Unblock(r) \/ TakeDownReview(r) PROVE Goal
  BY <1>7, <1>9 DEF Unblock, TakeDownReview, rowVars, noteVars
<1>10. ASSUME Tick \/ UNCHANGED vars PROVE Goal
  BY <1>7, <1>10 DEF Tick, vars, rowVars, noteVars
<1>11. ASSUME NEW p \in Posts, Relist(p) \/ RemovePost(p) \/ RestorePost(p) PROVE Goal
  BY <1>7, <1>11 DEF Relist, RemovePost, RestorePost, rowVars, noteVars
<1>12. ASSUME NEW b \in Bookings, WriteReview(b) PROVE Goal
  BY <1>7, <1>12 DEF WriteReview, rowVars
<1>13. Goal
  <2> HIDE DEF Goal
  <2> QED
    BY <1>1, <1>2, <1>3, <1>4, <1>5, <1>6, <1>8, <1>9, <1>10, <1>11, <1>12
       DEF Next, Customer, Provider, Jobs, Outside
<1> QED BY <1>13

\* However often and on however many workers the jobs run, a booking is announced once.
THEOREM NoticesOnceHolds == Spec => []NoticesOnce
<1>1. Init => NoticeInv /\ NoticesOnce
  BY DEF Init, NoticeInv, NoticesOnce
<1> QED
  BY InitTyped, StepTyped, <1>1, StepNotices, PTL DEF Spec
-----------------------------------------------------------------------------
(* The thread and the rivals of an accept. *)

\* A row's listing has an owner, so a step is always written.
LEMMA StepsAreTold ==
  ASSUME Typed, ProviderOwnsListing, NEW b \in Rows, NEW kind, Tell(b, kind)
  PROVE  thread' = [thread EXCEPT ![b] = Said(@, kind)]
<1>1. deal[b] \in Deal
  BY DEF Typed, DealsWritten, Rows, Open, Closed
<1>2. owner[deal[b].post] # NoUser
  BY <1>1, NoUserAssumption DEF ProviderOwnsListing, Deal
<1> QED BY <1>2 DEF Tell

\* What the property says of one booking.
Told(b) ==
  /\ thread[b]["REQUESTED"] = IF b \in Rows THEN 1 ELSE 0
  /\ \A kind \in {"DECLINED", "CANCELLED"} : thread[b][kind] = IF status[b] = kind THEN 1 ELSE 0
  /\ thread[b]["ACCEPTED"] <= IF status[b] \in {"ACCEPTED", "CANCELLED"} THEN 1 ELSE 0
  /\ status[b] = "ACCEPTED" \/ b \in reminded \cup prompted => thread[b]["ACCEPTED"] = 1

LEMMA StepThread ==
  ASSUME Typed, ProviderOwnsListing, ThreadHoldsTheDeal, [Next]_vars
  PROVE  ThreadHoldsTheDeal'
<1> DEFINE Stays(o) == /\ status'[o] = status[o] /\ thread'[o] = thread[o]
                       /\ o \in reminded' <=> o \in reminded
                       /\ o \in prompted' <=> o \in prompted
<1>0. /\ thread \in [Bookings -> [Step -> Nat]] /\ status \in [Bookings -> Status]
      /\ \A o \in Bookings : Told(o) /\ thread[o] \in [Step -> Nat]
  BY DEF Typed, TypeOK, ThreadHoldsTheDeal, Told
<1>i. ASSUME \A o \in Bookings : Told(o)' PROVE ThreadHoldsTheDeal'
  BY <1>i DEF ThreadHoldsTheDeal, Told
<1>l. ASSUME NEW o \in Bookings, Stays(o) PROVE Told(o)'
  BY <1>0, <1>l DEF Told, Rows
<1>k. ASSUME \A o \in Bookings : Stays(o) \/ Told(o)' PROVE ThreadHoldsTheDeal'
  BY <1>i, <1>k, <1>l
<1>u. ASSUME UNCHANGED <<status, thread, reminded, prompted>> PROVE ThreadHoldsTheDeal'
  <2>1. \A o \in Bookings : Stays(o)
    BY <1>u
  <2> QED BY <1>k, <2>1
<1>s. {"REQUESTED", "ACCEPTED", "DECLINED", "CANCELLED"} = Step
  BY DEF Step
<1>1. ASSUME NEW b \in Bookings, NEW c \in Users, NEW p \in Posts, NEW s \in Spans, Ask(b, c, p, s)
      PROVE  ThreadHoldsTheDeal'
  BY <1>1, <1>u DEF Ask, noteVars
<1>2. ASSUME NEW b \in Bookings, Insert(b) PROVE ThreadHoldsTheDeal'
  <2>1. \A o \in Bookings \ {b} : Stays(o)
    BY <1>0, <1>2 DEF Insert, noteVars
  <2>2. /\ status[b] = "NONE" /\ status'[b] = "PENDING" /\ thread'[b] = Said(thread[b], "REQUESTED")
        /\ UNCHANGED <<reminded, prompted>>
    BY <1>0, <1>2 DEF Insert, Typed, DealsWritten, noteVars
  <2>3. Told(b) /\ thread[b] \in [Step -> Nat]
    BY <1>0
  <2>4. /\ thread'[b]["REQUESTED"] = thread[b]["REQUESTED"] + 1
        /\ \A k \in Step \ {"REQUESTED"} : thread'[b][k] = thread[b][k]
    BY <1>s, <2>2, <2>3, SaidTyped
  <2>5. Told(b)'
    BY <1>s, <2>2, <2>3, <2>4 DEF Told, Rows, Open, Closed
  <2> QED BY <1>k, <2>1, <2>5
<1>3. ASSUME NEW b \in Bookings, Abandon(b) PROVE ThreadHoldsTheDeal'
  BY <1>3, <1>u DEF Abandon, noteVars
\* A booking that is answered.
<1>a. ASSUME NEW b \in Bookings, NEW kind \in {"ACCEPTED", "DECLINED", "CANCELLED"},
             status[b] = "PENDING" \/ (status[b] = "ACCEPTED" /\ kind = "CANCELLED"),
             status'[b] = kind, thread'[b] = Said(thread[b], kind), UNCHANGED <<reminded, prompted>>
      PROVE  Told(b)'
  <2>1. Told(b) /\ thread[b] \in [Step -> Nat] /\ kind \in Step
    BY <1>0, <1>s
  <2>2. /\ thread'[b][kind] = thread[b][kind] + 1
        /\ \A k \in Step \ {kind} : thread'[b][k] = thread[b][k]
    BY <1>a, <2>1, SaidTyped
  <2>3. thread[b]["ACCEPTED"] \in Nat
    BY <1>s, <2>1
  <2>4. CASE kind = "ACCEPTED"
    BY <1>a, <1>s, <2>1, <2>2, <2>3, <2>4 DEF Told, Rows, Open, Closed
  <2>5. CASE kind # "ACCEPTED" /\ status[b] = "PENDING"
    BY <1>a, <1>s, <2>1, <2>2, <2>3, <2>5 DEF Told, Rows, Open, Closed
  <2>6. CASE kind = "CANCELLED" /\ status[b] = "ACCEPTED"
    BY <1>a, <1>s, <2>1, <2>2, <2>3, <2>6 DEF Told, Rows, Open, Closed
  <2> QED BY <1>a, <2>4, <2>5, <2>6
<1>4. ASSUME NEW b \in Bookings, Cancel(b) PROVE ThreadHoldsTheDeal'
  <2>1. thread' = [thread EXCEPT ![b] = Said(@, "CANCELLED")]
    BY <1>4, StepsAreTold DEF Cancel
  <2>2. \A o \in Bookings \ {b} : Stays(o)
    BY <1>0, <1>4, <2>1 DEF Cancel, noteVars
  <2>3. /\ status[b] \in {"PENDING", "ACCEPTED"} /\ status'[b] = "CANCELLED"
        /\ thread'[b] = Said(thread[b], "CANCELLED") /\ UNCHANGED <<reminded, prompted>>
    BY <1>0, <1>4, <2>1 DEF Cancel, Cancellable, noteVars
  <2>4. Told(b)'
    BY <1>a, <2>3
  <2> QED BY <1>k, <2>2, <2>4
<1>5. ASSUME NEW b \in Bookings, Accept(b) PROVE ThreadHoldsTheDeal'
  <2> SUFFICES ASSUME NEW o \in Bookings PROVE Stays(o) \/ Told(o)'
    BY <1>k
  <2>0. UNCHANGED <<reminded, prompted>>
    BY <1>5 DEF Accept, noteVars
  <2>1. CASE o = b
    <3>1. status[o] = "PENDING" /\ status'[o] = "ACCEPTED" /\ thread'[o] = Said(thread[o], "ACCEPTED")
      BY <1>5, <2>1 DEF Accept
    <3> QED BY <1>a, <2>0, <3>1
  <2>2. CASE o # b /\ o \in Rivals(b)
    <3>1. status[o] = "PENDING" /\ status'[o] = "DECLINED" /\ thread'[o] = Said(thread[o], "DECLINED")
      BY <1>5, <2>2 DEF Accept, Rivals
    <3> QED BY <1>a, <2>0, <3>1
  <2>3. CASE o # b /\ o \notin Rivals(b)
    BY <1>5, <2>0, <2>3 DEF Accept
  <2> QED BY <2>1, <2>2, <2>3
<1>6. ASSUME NEW b \in Bookings, Decline(b) PROVE ThreadHoldsTheDeal'
  <2>1. thread' = [thread EXCEPT ![b] = Said(@, "DECLINED")]
    BY <1>6, StepsAreTold DEF Decline, Rows, Open
  <2>2. \A o \in Bookings \ {b} : Stays(o)
    BY <1>0, <1>6, <2>1 DEF Decline, noteVars
  <2>3. /\ status[b] = "PENDING" /\ status'[b] = "DECLINED" /\ thread'[b] = Said(thread[b], "DECLINED")
        /\ UNCHANGED <<reminded, prompted>>
    BY <1>0, <1>6, <2>1 DEF Decline, noteVars
  <2>4. Told(b)'
    BY <1>a, <2>3
  <2> QED BY <1>k, <2>2, <2>4
<1>7. ASSUME ExpireStale PROVE ThreadHoldsTheDeal'
  <2> SUFFICES ASSUME NEW o \in Bookings PROVE Stays(o) \/ Told(o)'
    BY <1>k
  <2>0. UNCHANGED <<thread, reminded, prompted>>
    BY <1>7 DEF ExpireStale, noteVars
  <2>1. CASE o \in Stale
    <3>1. status[o] = "PENDING" /\ status'[o] = "EXPIRED"
      BY <1>7, <2>1 DEF ExpireStale, Stale
    <3> QED BY <1>0, <2>0, <3>1 DEF Told, Rows, Open, Closed
  <2>2. CASE o \notin Stale
    BY <1>0, <1>7, <2>0, <2>2 DEF ExpireStale
  <2> QED BY <2>1, <2>2
<1>8. ASSUME NEW u \in Users, NEW unpublished \in SUBSET Posts, DeleteAccount(u, unpublished)
      PROVE  ThreadHoldsTheDeal'
  <2> SUFFICES ASSUME NEW o \in Bookings PROVE Stays(o) \/ Told(o)'
    BY <1>k
  <2>1. CASE o \in RowsOf(u)
    <3>1. /\ status'[o] = "GONE" /\ thread'[o] = NoSteps /\ o \notin reminded' \cup prompted'
      BY <1>8, <2>1 DEF DeleteAccount
    <3>2. \A k \in Step : thread'[o][k] = 0
      BY <3>1, NothingSaid
    <3> QED BY <1>s, <3>1, <3>2 DEF Told, Rows, Open, Closed
  <2>2. CASE o \notin RowsOf(u)
    BY <1>8, <2>2 DEF DeleteAccount
  <2> QED BY <2>1, <2>2
\* A notice goes out for an accepted booking only.
<1>n. ASSUME RemindTomorrow \/ PromptReviews PROVE ThreadHoldsTheDeal'
  <2>1. /\ UNCHANGED <<status, thread>>
        /\ \A o \in Bookings : o \in reminded' \cup prompted' =>
             o \in reminded \cup prompted \/ status[o] = "ACCEPTED"
    BY <1>n DEF RemindTomorrow, PromptReviews, DueReminder, DuePrompt, rowVars
  <2>2. \A o \in Bookings : Told(o)'
    BY <1>0, <2>1 DEF Told, Rows
  <2> QED BY <1>i, <2>2
<1>9. ASSUME NEW P \in SUBSET Posts, NEW s \in Spans, Block(P, s) PROVE ThreadHoldsTheDeal'
  BY <1>9, <1>u DEF Block, rowVars, noteVars
<1>10. ASSUME NEW r, Unblock(r) \/ TakeDownReview(r) PROVE ThreadHoldsTheDeal'
  BY <1>10, <1>u DEF Unblock, TakeDownReview, rowVars, noteVars
<1>11. ASSUME Tick \/ UNCHANGED vars PROVE ThreadHoldsTheDeal'
  BY <1>11, <1>u DEF Tick, vars, rowVars, noteVars
<1>12. ASSUME NEW p \in Posts, Relist(p) \/ RemovePost(p) \/ RestorePost(p) PROVE ThreadHoldsTheDeal'
  BY <1>12, <1>u DEF Relist, RemovePost, RestorePost, rowVars, noteVars
<1>13. ASSUME NEW b \in Bookings, WriteReview(b) PROVE ThreadHoldsTheDeal'
  BY <1>13, <1>u DEF WriteReview, rowVars
<1> QED
  BY <1>1, <1>2, <1>3, <1>4, <1>5, <1>6, <1>7, <1>8, <1>n, <1>9, <1>10, <1>11, <1>12, <1>13
     DEF Next, Customer, Provider, Jobs, Outside

\* The thread of a booking holds each step its status was reached by once, and no other: none is
\* dropped for a listing without an owner, because such a listing has no bookings.
THEOREM ThreadHoldsTheDealHolds == Spec => []ThreadHoldsTheDeal
<1>1. Init => PartiesInv /\ ThreadHoldsTheDeal
  <2> SUFFICES ASSUME Init PROVE PartiesInv /\ ThreadHoldsTheDeal
    OBVIOUS
  <2>1. PartiesInv
    BY DEF Init, PartiesInv, ProviderOwnsListing, OwnerReadInv, Rows, Open, Closed
  <2>2. \A b \in Bookings : thread[b] = NoSteps /\ status[b] = "NONE" /\ b \notin reminded \cup prompted
    BY DEF Init
  <2>3. \A b \in Bookings, k \in Step : thread[b][k] = 0
    BY <2>2, NothingSaid
  <2> QED BY <2>1, <2>2, <2>3 DEF ThreadHoldsTheDeal, Rows, Open, Closed, Step
<1>2. PartiesInv => ProviderOwnsListing
  BY DEF PartiesInv
<1> QED
  BY InitTyped, StepTyped, <1>1, <1>2, StepParties, StepThread, PTL DEF Spec

\* What a request's checks have seen of its columns, which no later step changes.
DealsMeant ==
  \A b \in Bookings : b \in inflight \/ b \in Rows =>
    deal[b].first <= deal[b].last /\ deal[b].customer # deal[b].provider

LEMMA MeantNext ==
  ASSUME Typed, DealsMeant, [Next]_vars
  PROVE  DealsMeant'
<1> USE DEF Typed, TypeOK
<1> DEFINE Held(b) == b \in inflight \/ b \in Rows
<1>k. ASSUME \A b \in Bookings : Held(b)' => Held(b) /\ deal'[b] = deal[b] PROVE DealsMeant'
  BY <1>k DEF DealsMeant
<1>1. ASSUME NEW b \in Bookings, NEW c \in Users, NEW p \in Posts, NEW s \in Spans, Ask(b, c, p, s)
      PROVE  DealsMeant'
  <2>1. deal'[b].first <= deal'[b].last /\ deal'[b].customer # deal'[b].provider
    BY <1>1 DEF Ask, IsDateRange
  <2>2. ASSUME NEW o \in Bookings, o # b, Held(o)' PROVE Held(o) /\ deal'[o] = deal[o]
    BY <1>1, <2>2 DEF Ask, Rows
  <2> QED BY <2>1, <2>2 DEF DealsMeant
<1>2. ASSUME NEW b \in Bookings, Insert(b) \/ Abandon(b) \/ Cancel(b) \/ Decline(b)
      PROVE  \A o \in Bookings : Held(o)' => Held(o) /\ deal'[o] = deal[o]
  BY <1>2 DEF Insert, Abandon, Cancel, Decline, Rows, Open, Closed, DealsWritten
<1>3. ASSUME NEW b \in Bookings, Accept(b)
      PROVE  \A o \in Bookings : Held(o)' => Held(o) /\ deal'[o] = deal[o]
  BY <1>3 DEF Accept, Rivals, Rows, Open, Closed
<1>4. ASSUME ExpireStale PROVE \A o \in Bookings : Held(o)' => Held(o) /\ deal'[o] = deal[o]
  BY <1>4 DEF ExpireStale, Stale, Rows, Open, Closed
<1>5. ASSUME NEW u \in Users, NEW unpublished \in SUBSET Posts, DeleteAccount(u, unpublished)
      PROVE  \A o \in Bookings : Held(o)' => Held(o) /\ deal'[o] = deal[o]
  BY <1>5 DEF DeleteAccount, RowsOf, Rows, Open, Closed, DealsWritten
<1>6. ASSUME UNCHANGED rowVars PROVE \A o \in Bookings : Held(o)' => Held(o) /\ deal'[o] = deal[o]
  BY <1>6 DEF rowVars, Rows
<1> HIDE DEF Held
<1>7. ASSUME NEW P \in SUBSET Posts, NEW s \in Spans, Block(P, s) PROVE UNCHANGED rowVars
  BY <1>7 DEF Block
<1>8. ASSUME NEW r, Unblock(r) \/ TakeDownReview(r) PROVE UNCHANGED rowVars
  BY <1>8 DEF Unblock, TakeDownReview
<1>9. ASSUME RemindTomorrow \/ PromptReviews \/ Tick \/ UNCHANGED vars PROVE UNCHANGED rowVars
  BY <1>9 DEF RemindTomorrow, PromptReviews, Tick, vars
<1>10. ASSUME NEW p \in Posts, Relist(p) \/ RemovePost(p) \/ RestorePost(p) PROVE UNCHANGED rowVars
  BY <1>10 DEF Relist, RemovePost, RestorePost
<1>11. ASSUME NEW b \in Bookings, WriteReview(b) PROVE UNCHANGED rowVars
  BY <1>11 DEF WriteReview
<1> QED
  BY <1>k, <1>1, <1>2, <1>3, <1>4, <1>5, <1>6, <1>7, <1>8, <1>9, <1>10, <1>11
     DEF Next, Customer, Provider, Jobs, Outside

\* Ranges that are not turned round share a day exactly when neither ends before the other begins.
LEMMA SharedDays ==
  ASSUME NEW r \in Deal, NEW s \in Deal, r.first <= r.last, s.first <= s.last
  PROVE  ShareDay(r, s) <=> SameDays(r, s)
<1>1. /\ r.first \in Nat /\ r.last \in Nat /\ s.first \in Nat /\ s.last \in Nat
      /\ r.first \in Days /\ s.first \in Days /\ Days \subseteq Nat
  BY BoundsAssumption DEF Deal, Days
<1>2. ASSUME SameDays(r, s) PROVE ShareDay(r, s)
  <2>1. r.post = s.post /\ r.first <= s.last /\ s.first <= r.last
    BY <1>2 DEF SameDays, Meets
  <2>2. CASE r.first <= s.first
    BY <1>1, <2>1, <2>2 DEF ShareDay
  <2>3. CASE s.first <= r.first
    BY <1>1, <2>1, <2>3 DEF ShareDay
  <2> QED BY <1>1, <2>2, <2>3
<1>3. ASSUME ShareDay(r, s) PROVE SameDays(r, s)
  BY <1>1, <1>3 DEF ShareDay, SameDays, Meets
<1> QED BY <1>2, <1>3

RivalsGo == /\ \A b, o \in Bookings : Accepts(b) /\ status'[o] = "PENDING" => ~ShareDay(deal[o], deal[b])
            /\ \A o \in overlap' \ overlap : \E b \in Bookings \ {o} : Accepts(b) /\ ShareDay(deal[o], deal[b])

LEMMA StepRivals ==
  ASSUME Typed, DealsMeant, [Next]_vars
  PROVE  RivalsGo
<1>0. status \in [Bookings -> Status]
  BY DEF Typed, TypeOK
<1>k. ASSUME \A b \in Bookings : ~Accepts(b), overlap' \subseteq overlap PROVE RivalsGo
  BY <1>k DEF RivalsGo
<1>1. ASSUME NEW b \in Bookings, Accept(b) PROVE RivalsGo
  <2>1. \A o \in Bookings : Accepts(o) <=> o = b
    BY <1>0, <1>1 DEF Accept, Accepts, Rivals
  <2>2. \A o \in Bookings : status'[o] = "PENDING" => o # b /\ status[o] = "PENDING" /\ o \notin Rivals(b)
    BY <1>0, <1>1 DEF Accept
  <2>3. overlap' = overlap \cup Rivals(b)
    BY <1>1 DEF Accept
  <2>4. \A o \in Bookings : status[o] = "PENDING" => deal[o] \in Deal /\ deal[o].first <= deal[o].last
    BY DEF Typed, DealsWritten, DealsMeant, Rows, Open
  <2>5. \A o \in Bookings : status[o] = "PENDING" => (ShareDay(deal[o], deal[b]) <=> SameDays(deal[o], deal[b]))
    BY <1>1, <2>4, SharedDays DEF Accept
  <2> QED BY <2>1, <2>2, <2>3, <2>5 DEF RivalsGo, Rivals
<1>2. ASSUME NEW b \in Bookings, NEW c \in Users, NEW p \in Posts, NEW s \in Spans, Ask(b, c, p, s) PROVE RivalsGo
  BY <1>0, <1>2, <1>k DEF Ask, Accepts
<1>3. ASSUME NEW b \in Bookings, Insert(b) \/ Abandon(b) \/ Cancel(b) \/ Decline(b) PROVE RivalsGo
  BY <1>0, <1>3, <1>k DEF Insert, Abandon, Cancel, Decline, Accepts
<1>4. ASSUME ExpireStale PROVE RivalsGo
  BY <1>0, <1>4, <1>k DEF ExpireStale, Accepts
<1>5. ASSUME NEW u \in Users, NEW unpublished \in SUBSET Posts, DeleteAccount(u, unpublished) PROVE RivalsGo
  BY <1>0, <1>5, <1>k DEF DeleteAccount, Accepts
<1>6. ASSUME UNCHANGED <<status, overlap>> PROVE RivalsGo
  BY <1>6, <1>k DEF Accepts
<1>7. ASSUME NEW P \in SUBSET Posts, NEW s \in Spans, Block(P, s) PROVE RivalsGo
  BY <1>6, <1>7 DEF Block, rowVars
<1>8. ASSUME NEW r, Unblock(r) \/ TakeDownReview(r) PROVE RivalsGo
  BY <1>6, <1>8 DEF Unblock, TakeDownReview, rowVars
<1>9. ASSUME RemindTomorrow \/ PromptReviews \/ Tick \/ UNCHANGED vars PROVE RivalsGo
  BY <1>6, <1>9 DEF RemindTomorrow, PromptReviews, Tick, vars, rowVars
<1>10. ASSUME NEW p \in Posts, Relist(p) \/ RemovePost(p) \/ RestorePost(p) PROVE RivalsGo
  BY <1>6, <1>10 DEF Relist, RemovePost, RestorePost, rowVars
<1>11. ASSUME NEW b \in Bookings, WriteReview(b) PROVE RivalsGo
  BY <1>6, <1>11 DEF WriteReview, rowVars
<1> QED
  BY <1>1, <1>2, <1>3, <1>4, <1>5, <1>7, <1>8, <1>9, <1>10, <1>11
     DEF Next, Customer, Provider, Jobs, Outside

\* The step that accepts a booking leaves no pending request with one of its days, and closes as
\* OVERLAP only requests that had one.
THEOREM RivalsClosedHolds == Spec => RivalsClosed
<1>1. Typed /\ DealsMeant /\ [Next]_vars => [RivalsGo]_vars
  BY StepRivals
<1>2. Init => DealsMeant
  BY DEF Init, DealsMeant, Rows, Open, Closed
<1> QED
  BY InitTyped, StepTyped, <1>1, <1>2, MeantNext, PTL DEF Spec, RivalsClosed, RivalsGo
-----------------------------------------------------------------------------
(* The component implements Calendar. *)

LEMMA AcceptReserves ==
  ASSUME Typed, CalendarInv, NEW b \in Bookings, Accept(b)
  PROVE  Promise!Reserve(b, deal[b].post, deal[b].first, deal[b].last)
<1> DEFINE stay == {d \in Days : deal[b].first <= d /\ d <= deal[b].last}
<1>1. deal[b] \in Deal /\ deal[b].post \in Posts /\ deal[b].first \in Days /\ deal[b].last \in Days
  BY DEF Accept, Typed, DealsWritten, Deal
<1>2. \A r \in booked : r.booking # b
  BY DEF CalendarInv, BusyMatchesAccepted, BookedFor, Accept
<1>3. \A r \in booked : r \in BookedRow /\ r.first \in Days /\ r.last \in Days
  BY DEF Typed, TypeOK, BookedRow
<1>4. Promise!HeldBy(b) = {}
  BY <1>2 DEF Promise!HeldBy, HeldDays
<1>5. ASSUME NEW d \in stay PROVE Promise!Free(deal[b].post, d)
  <2> SUFFICES ASSUME NEW h \in HeldDays, h[1] = deal[b].post, h[2] = d PROVE FALSE
    BY DEF Promise!Free
  <2>1. PICK r \in booked : r.post = h[1] /\ r.first <= h[2] /\ h[2] <= r.last
    BY DEF HeldDays
  <2>2. SameDays(r, deal[b])
    BY <1>1, <1>3, <2>1, BoundsAssumption DEF SameDays, Meets, Days
  <2> QED BY <2>2 DEF Accept, DaysFree
<1>6. HeldDays' = HeldDays \cup {<<deal[b].post, d, b>> : d \in stay}
  <2>1. booked' = booked \cup {BookedFor(b)}
    BY DEF Accept
  <2>2. ASSUME NEW h \in Posts \X Days \X Bookings
        PROVE  h \in HeldDays' <=> h \in HeldDays \/ \E d \in stay : h = <<deal[b].post, d, b>>
    <3> DEFINE covers(r) == r.booking = h[3] /\ r.post = h[1] /\ r.first <= h[2] /\ h[2] <= r.last
    <3>1. h \in HeldDays' <=> h \in HeldDays \/ covers(BookedFor(b))
      BY <2>1 DEF HeldDays
    <3>2. covers(BookedFor(b)) <=> /\ h[3] = b /\ h[1] = deal[b].post
                                   /\ deal[b].first <= h[2] /\ h[2] <= deal[b].last
      BY DEF BookedFor
    <3>3. h = <<h[1], h[2], h[3]>> /\ h[2] \in Days
      OBVIOUS
    <3> HIDE DEF covers
    <3> QED BY <3>1, <3>2, <3>3
  <2>3. \A d \in stay : <<deal[b].post, d, b>> \in Posts \X Days \X Bookings
    BY <1>1
  <2> QED BY <2>2, <2>3 DEF HeldDays
<1> QED BY <1>4, <1>5, <1>6 DEF Promise!Reserve

LEMMA DaysReleased ==
  ASSUME NEW B \in SUBSET Bookings, booked' = WithoutDays(B)
  PROVE  Promise!Release(B)
BY DEF Promise!Release, HeldDays, WithoutDays

LEMMA StepPromise ==
  ASSUME Typed, CalendarInv, [Next]_vars
  PROVE  [Promise!CalendarNext]_HeldDays
<1>1. ASSUME booked' = booked PROVE [Promise!CalendarNext]_HeldDays
  BY <1>1 DEF HeldDays
<1>2. ASSUME NEW b \in Bookings, Accept(b) PROVE Promise!CalendarNext
  <2>1. deal[b].post \in Posts /\ deal[b].first \in Days /\ deal[b].last \in Days
    BY <1>2 DEF Accept, Typed, DealsWritten, Deal
  <2> QED BY <1>2, <2>1, AcceptReserves DEF Promise!CalendarNext
<1>3. ASSUME NEW b \in Bookings, Cancel(b) PROVE Promise!CalendarNext
  BY <1>3, DaysReleased DEF Cancel, Promise!CalendarNext
<1>4. ASSUME NEW u \in Users, NEW unpublished \in SUBSET Posts, DeleteAccount(u, unpublished)
      PROVE  Promise!CalendarNext
  <2>1. RowsOf(u) \in SUBSET Bookings
    BY DEF RowsOf, Rows
  <2> QED BY <1>4, <2>1, DaysReleased DEF DeleteAccount, Promise!CalendarNext
<1>5. ASSUME NEW b \in Bookings, NEW c \in Users, NEW p \in Posts, NEW s \in Spans, Ask(b, c, p, s)
      PROVE  booked' = booked
  BY <1>5 DEF Ask, busyVars
<1>6. ASSUME NEW b \in Bookings, Insert(b) \/ Abandon(b) \/ Decline(b) \/ WriteReview(b)
      PROVE  booked' = booked
  BY <1>6 DEF Insert, Abandon, Decline, WriteReview, busyVars
<1>7. ASSUME NEW P \in SUBSET Posts, NEW s \in Spans, Block(P, s) PROVE booked' = booked
  BY <1>7 DEF Block
<1>8. ASSUME NEW r, Unblock(r) \/ TakeDownReview(r) PROVE booked' = booked
  BY <1>8 DEF Unblock, TakeDownReview, busyVars
<1>9. ASSUME Jobs \/ Tick \/ UNCHANGED vars PROVE booked' = booked
  BY <1>9 DEF Jobs, ExpireStale, RemindTomorrow, PromptReviews, Tick, vars, busyVars
<1>10. ASSUME NEW p \in Posts, Relist(p) \/ RemovePost(p) \/ RestorePost(p) PROVE booked' = booked
  BY <1>10 DEF Relist, RemovePost, RestorePost, busyVars
<1> QED
  BY <1>1, <1>2, <1>3, <1>4, <1>5, <1>6, <1>7, <1>8, <1>9, <1>10
     DEF Next, Customer, Provider, Outside

\* Read as a calendar (who holds which day of which listing), every run of the booking
\* component is a run of Calendar: days are taken all at once, when all are free.
THEOREM CalendarImplemented == Spec => ImplementsCalendar
<1>1. Init => Promise!CalendarInit
  BY DEF Init, Promise!CalendarInit, HeldDays
<1> QED
  BY InitTyped, InitCalendar, StepTyped, StepCalendar, <1>1, StepPromise, PTL
     DEF Spec, ImplementsCalendar, Promise!CalendarSpec
-----------------------------------------------------------------------------
(* Legal moves of a booking's status. *)

LEMMA StepFlow ==
  ASSUME Typed, [Next]_vars
  PROVE  \A b \in Bookings : LegalMove(b)
<1> USE DEF Typed, TypeOK, LegalMove, Open, Closed
<1>1. ASSUME NEW b \in Bookings, NEW c \in Users, NEW p \in Posts, NEW s \in Spans, Ask(b, c, p, s)
      PROVE  status' = status
  BY <1>1 DEF Ask
<1>2. ASSUME NEW b \in Bookings, Insert(b) PROVE \A o \in Bookings : LegalMove(o)
  BY <1>2 DEF Insert, DealsWritten
<1>3. ASSUME NEW b \in Bookings, Abandon(b) \/ WriteReview(b) PROVE status' = status
  BY <1>3 DEF Abandon, WriteReview, rowVars
<1>4. ASSUME NEW b \in Bookings, Cancel(b) PROVE \A o \in Bookings : LegalMove(o)
  <2>1. deal[b] \in Deal
    BY <1>4 DEF Cancel, Rows, DealsWritten
  <2>2. deal[b].first \in Days /\ today \in Days
    BY <2>1 DEF Deal
  <2> QED BY <1>4, <2>2, BoundsAssumption DEF Cancel, Cancellable, Rows, Days
<1>5. ASSUME NEW b \in Bookings, Accept(b) PROVE \A o \in Bookings : LegalMove(o)
  BY <1>5 DEF Accept, Rivals
<1>6. ASSUME NEW b \in Bookings, Decline(b) PROVE \A o \in Bookings : LegalMove(o)
  BY <1>6 DEF Decline
<1>7. ASSUME ExpireStale PROVE \A o \in Bookings : LegalMove(o)
  BY <1>7 DEF ExpireStale, Stale
<1>8. ASSUME NEW u \in Users, NEW unpublished \in SUBSET Posts, DeleteAccount(u, unpublished)
      PROVE  \A o \in Bookings : LegalMove(o)
  BY <1>8 DEF DeleteAccount, RowsOf, Rows
<1>9. ASSUME NEW P \in SUBSET Posts, NEW s \in Spans, Block(P, s) PROVE status' = status
  BY <1>9 DEF Block, rowVars
<1>10. ASSUME NEW r, Unblock(r) \/ TakeDownReview(r) PROVE status' = status
  BY <1>10 DEF Unblock, TakeDownReview, rowVars
<1>11. ASSUME RemindTomorrow \/ PromptReviews \/ Tick \/ UNCHANGED vars PROVE status' = status
  BY <1>11 DEF RemindTomorrow, PromptReviews, Tick, vars, rowVars
<1>12. ASSUME NEW p \in Posts, Relist(p) \/ RemovePost(p) \/ RestorePost(p) PROVE status' = status
  BY <1>12 DEF Relist, RemovePost, RestorePost, rowVars
<1>13. status' = status => \A o \in Bookings : LegalMove(o)
  OBVIOUS
<1> QED
  BY <1>1, <1>2, <1>3, <1>4, <1>5, <1>6, <1>7, <1>8, <1>9, <1>10, <1>11, <1>12, <1>13
     DEF Next, Customer, Provider, Jobs, Outside

\* A closed booking stays closed, and an accepted one whose first day has come only ends with
\* an account.
THEOREM StatusFlowHolds == Spec => StatusFlow
<1>1. Typed /\ [Next]_vars => [\A b \in Bookings : LegalMove(b)]_vars
  BY StepFlow
<1> QED
  BY InitTyped, StepTyped, <1>1, PTL DEF Spec, StatusFlow
-----------------------------------------------------------------------------
(* A finished booking is a dealing of two people, for as long as both have accounts. *)

\* Who has dealt with whom.
Pair(b) == <<deal[b].customer, deal[b].provider>>
Dealers == {Pair(b) : b \in Finished}

LEMMA FinishedPairs ==
  ASSUME Typed, PartiesInv, DealsMeant
  PROVE  Dealers \subseteq Dealt!Pairs
<1> SUFFICES ASSUME NEW b \in Finished PROVE Pair(b) \in Dealt!Pairs
  BY DEF Dealers
<1>1. b \in Rows
  BY DEF Finished, Rows, Open
<1>2. {deal[b].customer, deal[b].provider} \subseteq accounts
  BY <1>1 DEF PartiesInv, ProviderOwnsListing
<1>3. deal[b].customer # deal[b].provider
  BY <1>1 DEF DealsMeant, Rows
<1> QED BY <1>2, <1>3 DEF Dealt!Pairs, Pair

\* While nobody leaves, a finished booking stays one.
LEMMA FinishedStays ==
  ASSUME Typed, DealsMeant, [Next]_vars, accounts' = accounts, NEW b \in Finished
  PROVE  b \in Finished' /\ deal'[b] = deal[b]
<1> USE DEF Typed, TypeOK
<1>0. /\ b \in Bookings /\ status[b] = "ACCEPTED" /\ deal[b].last < today
      /\ deal[b] \in Deal /\ deal[b].first \in Nat /\ deal[b].last \in Nat /\ today \in Nat
      /\ deal[b].first <= deal[b].last /\ b \notin inflight
  <2>1. b \in Bookings /\ status[b] = "ACCEPTED" /\ deal[b].last < today
    BY DEF Finished
  <2>2. deal[b] \in Deal /\ deal[b].first <= deal[b].last /\ b \notin inflight
    BY <2>1 DEF DealsWritten, DealsMeant, Rows, Open
  <2> QED BY <2>1, <2>2, BoundsAssumption DEF Deal, Days
<1>k. ASSUME status'[b] = status[b], deal'[b] = deal[b], today' \in {today, today + 1}
      PROVE  b \in Finished' /\ deal'[b] = deal[b]
  BY <1>0, <1>k DEF Finished
<1> DEFINE Goal == status'[b] = status[b] /\ deal'[b] = deal[b] /\ today' \in {today, today + 1}
<1>1. ASSUME NEW o \in Bookings, NEW c \in Users, NEW p \in Posts, NEW s \in Spans, Ask(o, c, p, s) PROVE Goal
  BY <1>0, <1>1 DEF Ask
<1>2. ASSUME NEW o \in Bookings, Insert(o) \/ Abandon(o) \/ Decline(o) PROVE Goal
  BY <1>0, <1>2 DEF Insert, Abandon, Decline, DealsWritten
<1>3. ASSUME NEW o \in Bookings, Cancel(o) PROVE Goal
  <2>1. o # b
    BY <1>0, <1>3 DEF Cancel, Cancellable
  <2> QED BY <1>0, <1>3, <2>1 DEF Cancel
<1>4. ASSUME NEW o \in Bookings, Accept(o) PROVE Goal
  BY <1>0, <1>4 DEF Accept, Rivals
<1>5. ASSUME ExpireStale PROVE Goal
  BY <1>0, <1>5 DEF ExpireStale, Stale
<1>6. ASSUME RemindTomorrow \/ PromptReviews \/ Tick \/ UNCHANGED vars PROVE Goal
  BY <1>6 DEF RemindTomorrow, PromptReviews, Tick, vars, rowVars
<1>7. ASSUME NEW P \in SUBSET Posts, NEW s \in Spans, Block(P, s) PROVE Goal
  BY <1>7 DEF Block, rowVars
<1>8. ASSUME NEW r, Unblock(r) \/ TakeDownReview(r) PROVE Goal
  BY <1>8 DEF Unblock, TakeDownReview, rowVars
<1>9. ASSUME NEW p \in Posts, Relist(p) \/ RemovePost(p) \/ RestorePost(p) PROVE Goal
  BY <1>9 DEF Relist, RemovePost, RestorePost, rowVars
<1>10. ASSUME NEW o \in Bookings, WriteReview(o) PROVE Goal
  BY <1>10 DEF WriteReview, rowVars
<1>11. ASSUME NEW u \in Users, NEW unpublished \in SUBSET Posts, DeleteAccount(u, unpublished) PROVE FALSE
  BY <1>11 DEF DeleteAccount
<1>12. Goal
  <2> HIDE DEF Goal
  <2> QED
    BY <1>1, <1>2, <1>3, <1>4, <1>5, <1>6, <1>7, <1>8, <1>9, <1>10, <1>11
       DEF Next, Customer, Provider, Jobs, Outside
<1> QED BY <1>k, <1>12

LEMMA DealingsStep ==
  ASSUME Typed, PartiesInv, DealsMeant, Typed', PartiesInv', DealsMeant', [Next]_vars
  PROVE  [Dealt!DealingsNext]_(Dealt!dealingsVars)
<1>1. ASSUME accounts' = accounts PROVE Dealt!Earn
  <2>1. Dealers \subseteq Dealers'
    BY <1>1, FinishedStays DEF Dealers, Pair
  <2>2. Dealers' \subseteq Dealt!Pairs
    <3>1. (Dealers \subseteq Dealt!Pairs)'
      BY FinishedPairs, PTL
    <3>2. Dealt!Pairs' = Dealt!Pairs
      BY <1>1 DEF Dealt!Pairs
    <3> QED BY <3>1, <3>2
  <2> QED BY <1>1, <2>1, <2>2 DEF Dealt!Earn, Dealers, Pair
<1>2. ASSUME NEW u \in Users, NEW unpublished \in SUBSET Posts, DeleteAccount(u, unpublished)
      PROVE  Dealt!Part(u)
  <2>1. \A b \in Bookings : b \in Finished' <=> b \in Finished /\ u \notin {deal[b].customer, deal[b].provider}
    BY <1>2 DEF DeleteAccount, Finished, RowsOf, Rows, Open, Typed, TypeOK
  <2>2. \A b \in Finished' : b \in Finished /\ deal'[b] = deal[b] /\ Pair(b)' = Pair(b)
    BY <1>2, <2>1 DEF DeleteAccount, Finished, RowsOf, Pair
  <2>3. \A b \in Finished : u \notin {Pair(b)[1], Pair(b)[2]} <=> b \in Finished'
    BY <2>1 DEF Finished, Pair
  <2>4. Dealers' = {d \in Dealers : u \notin {d[1], d[2]}}
    BY <2>2, <2>3 DEF Dealers
  <2>5. u \in accounts /\ accounts' = accounts \ {u}
    BY <1>2 DEF DeleteAccount
  <2> QED BY <2>4, <2>5 DEF Dealt!Part, Dealers, Pair
<1>3. accounts' = accounts \/ \E u \in Users, unpublished \in SUBSET Posts : DeleteAccount(u, unpublished)
  <2>1. ASSUME Customer \/ Provider \/ Jobs PROVE UNCHANGED listingVars
    BY <2>1 DEF Customer, Provider, Jobs, Ask, Insert, Abandon, Cancel, Accept, Decline, Block, Unblock,
       ExpireStale, RemindTomorrow, PromptReviews
  <2>2. ASSUME Tick \/ (\E b \in Bookings : WriteReview(b)) \/ \E r \in reviewed : TakeDownReview(r)
        PROVE  UNCHANGED listingVars
    BY <2>2 DEF Tick, WriteReview, TakeDownReview
  <2>3. ASSUME NEW p \in Posts, Relist(p) \/ RemovePost(p) \/ RestorePost(p) PROVE accounts' = accounts
    BY <2>3 DEF Relist, RemovePost, RestorePost
  <2>4. UNCHANGED vars \/ UNCHANGED listingVars => accounts' = accounts
    BY DEF vars, listingVars
  <2> QED BY <2>1, <2>2, <2>3, <2>4 DEF Next, Outside
<1> QED BY <1>1, <1>2, <1>3 DEF Dealt!DealingsNext

\* Once its last day is over, a booking entitles its customer to a review until one of the two goes,
\* and both exist when it comes to that (cancel, canReview, deleteAccount).
THEOREM DealingsImplemented == Spec => ImplementsDealings
<1>1. Init => PartiesInv /\ DealsMeant
  BY DEF Init, PartiesInv, ProviderOwnsListing, OwnerReadInv, DealsMeant, Rows, Open, Closed
<1>2. Init => Dealt!DealingsInit
  BY DEF Init, Dealt!DealingsInit, Finished
<1>3. /\ Typed /\ PartiesInv /\ DealsMeant /\ Typed' /\ PartiesInv' /\ DealsMeant' /\ [Next]_vars
      => [Dealt!DealingsNext]_(Dealt!dealingsVars)
  BY DealingsStep
<1> QED
  BY InitTyped, StepTyped, <1>1, <1>2, <1>3, StepParties, MeantNext, PTL
     DEF Spec, ImplementsDealings, Dealt!DealingsSpec
=============================================================================
