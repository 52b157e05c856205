------------------------------ MODULE Booking ------------------------------
(***************************************************************************)
(* Bookings of rentable listings: a customer asks for days, the owner      *)
(* accepts or declines, accepted days are written to post_busy.            *)
(*                                                                         *)
(* The unit of atomicity is what Postgres makes atomic at READ COMMITTED   *)
(* with the row locks the code takes: accept, decline and cancel are one   *)
(* step each (accept locks the post row, then the booking row), while      *)
(* create is two: its checks run before its transaction, so any other      *)
(* request may commit between Ask and Insert.                              *)
(***************************************************************************)
EXTENDS Integers, FiniteSets

CONSTANTS
  Users,        \* accounts
  Posts,        \* listings
  Bookings,     \* ids a request may receive; never reused (SERIAL)
  Spans,        \* date ranges a client may send, [first |-> day, last |-> day]
  MaxRangeDays, \* MAX_RANGE_DAYS
  MaxDay,       \* bound: the clock stops here
  MaxBlocks,    \* bound: BLOCKED ranges alive at once
  NoUser,       \* posts.user_id IS NULL
  NoDeal        \* an id no request uses yet

Days == 0..MaxDay
Span == [first : Days, last : Days]

ASSUME BoundsAssumption == MaxDay \in Nat /\ MaxBlocks \in Nat /\ MaxRangeDays \in Nat
ASSUME SpansAssumption == Spans \subseteq Span
ASSUME NoUserAssumption == NoUser \notin Users

VARIABLES
  today,     \* ulaanbaatarDate()
  accounts,  \* rows of users
  owner,     \* posts.user_id
  bookable,  \* listings that are live in a category with rental status
  removed,   \* listings with deleted_at
  status,    \* bookings.status; NONE: no row yet, GONE: cascaded away
  deal,      \* the immutable columns of the row (or of the request in flight)
  inflight,  \* requests between create's checks and its INSERT
  overlap,   \* bookings with closed_reason = OVERLAP
  booked,    \* post_busy rows with kind BOOKED
  blocked,   \* post_busy rows with kind BLOCKED
  thread,    \* messages of each kind about a booking; their order is Chat's matter
  contacts,  \* post_contacts rows of kind BOOKING and of today: <<post, customer>>
  reviewed,  \* reviews: <<author, provider>>
  reminded,  \* bookings with reminded_at
  prompted,  \* bookings with review_prompted_at
  notices    \* how often the bus was handed booking.reminder / review_prompt

listingVars == <<accounts, owner, bookable, removed>>
rowVars     == <<status, deal, inflight, overlap>>
busyVars    == <<booked, blocked>>
noteVars    == <<reviewed, reminded, prompted, notices>>
vars == <<today, listingVars, rowVars, busyVars, thread, contacts, noteVars>>

Open   == {"PENDING", "ACCEPTED"}
Closed == {"DECLINED", "CANCELLED", "EXPIRED"}
Status == {"NONE", "GONE"} \cup Open \cup Closed
Step   == {"REQUESTED", "ACCEPTED", "DECLINED", "CANCELLED"}
Deal   == [post : Posts, customer : Users, provider : Users, first : Days, last : Days]
BookedRow  == [booking : Bookings, post : Posts, first : Days, last : Days]
BlockedRow == [post : Posts, first : Days, last : Days]
NoSteps == [kind \in Step |-> 0]

TypeOK ==
  /\ today \in Days
  /\ accounts \subseteq Users
  /\ owner \in [Posts -> Users \cup {NoUser}]
  /\ bookable \subseteq Posts
  /\ removed \subseteq Posts
  /\ status \in [Bookings -> Status]
  /\ deal \in [Bookings -> Deal \cup {NoDeal}]
  /\ inflight \subseteq Bookings
  /\ overlap \subseteq Bookings
  /\ booked \subseteq BookedRow
  /\ blocked \subseteq BlockedRow
  /\ thread \in [Bookings -> [Step -> Nat]]
  /\ contacts \subseteq Posts \X Users
  /\ reviewed \subseteq Users \X Users
  /\ reminded \subseteq Bookings
  /\ prompted \subseteq Bookings
  /\ notices \in [Bookings -> [reminder : Nat, prompt : Nat]]

Init ==
  /\ today = 0
  /\ accounts = Users
  /\ owner \in [Posts -> Users]
  /\ bookable = Posts
  /\ removed = {}
  /\ status = [b \in Bookings |-> "NONE"]
  /\ deal = [b \in Bookings |-> NoDeal]
  /\ inflight = {}
  /\ overlap = {}
  /\ booked = {}
  /\ blocked = {}
  /\ thread = [b \in Bookings |-> NoSteps]
  /\ contacts = {}
  /\ reviewed = {}
  /\ reminded = {}
  /\ prompted = {}
  /\ notices = [b \in Bookings |-> [reminder |-> 0, prompt |-> 0]]

-----------------------------------------------------------------------------
(* Conditions and sets the handlers are built from. A definition whose name *)
(* starts with Bug is what a plausible slip would have made of the next one. *)

\* daterange && daterange, both ends inclusive.
BugMeets(r, s) == r.first < s.last /\ s.first < r.last
Meets(r, s) == r.first <= s.last /\ s.first <= r.last
SameDays(r, s) == r.post = s.post /\ Meets(r, s)

\* assertDateRange
IsDateRange(s) == s.first <= s.last /\ s.last - s.first < MaxRangeDays

\* AvailabilityService.busy, on one listing and one span.
Busy(p, s) == \E r \in booked \cup blocked : r.post = p /\ Meets(r, s)

\* The post_busy row an accept of b inserts, both ends inclusive.
BookedFor(b) == [booking |-> b, post |-> deal[b].post,
                 first |-> deal[b].first, last |-> deal[b].last]

\* EXCL_post_busy_booked lets that row in.
BugDaysFree(b) == TRUE
DaysFree(b) == \A r \in booked : ~SameDays(r, deal[b])

\* UQ_bookings_one_pending would refuse this insert.
AlreadyPending(b) ==
  \E o \in Bookings : /\ status[o] = "PENDING"
                      /\ deal[o].customer = deal[b].customer
                      /\ deal[o].post = deal[b].post

\* The row's foreign keys to users.
BugPartiesExist(b) == deal[b].customer \in accounts
PartiesExist(b) == {deal[b].customer, deal[b].provider} \subseteq accounts

\* The other pending requests an accept of b declines as OVERLAP.
Rivals(b) == {o \in Bookings \ {b} : status[o] = "PENDING" /\ SameDays(deal[o], deal[b])}

\* cancel's condition.
BugCancellable(b) == status[b] \in Open
Cancellable(b) == \/ status[b] = "PENDING"
                  \/ status[b] = "ACCEPTED" /\ deal[b].first > today

\* DELETE FROM post_busy WHERE booking_id = b
BugWithoutDays(B) == booked
WithoutDays(B) == {r \in booked : r.booking \notin B}

\* The bookings that have a row, and those that go with an account (ON DELETE CASCADE).
Rows == {b \in Bookings : status[b] \in Open \cup Closed}
RowsOf(u) == {b \in Rows : u \in {deal[b].customer, deal[b].provider}}

\* One more message of a kind.
Said(steps, kind) == [steps EXCEPT ![kind] = @ + 1]

\* stepIfListed: a step in the thread, unless the listing lost its owner.
BugTell(b, kind) == UNCHANGED thread
Tell(b, kind) ==
  thread' = IF owner[deal[b].post] = NoUser THEN thread
            ELSE [thread EXCEPT ![b] = Said(@, kind)]
-----------------------------------------------------------------------------
(* The customer's side. *)

\* create, up to the end of its checks: nothing is locked, nothing is written.
Ask(b, c, p, s) ==
  /\ status[b] = "NONE" /\ b \notin inflight
  /\ IsDateRange(s)
  /\ p \in bookable /\ p \notin removed
  /\ c \in accounts /\ owner[p] \notin {NoUser, c}
  /\ s.first >= today
  /\ ~Busy(p, s)
  /\ deal' = [deal EXCEPT ![b] = [post |-> p, customer |-> c, provider |-> owner[p],
                                  first |-> s.first, last |-> s.last]]
  /\ inflight' = inflight \cup {b}
  /\ UNCHANGED <<today, listingVars, status, overlap, busyVars, thread, contacts, noteVars>>

\* create's transaction: the row, the contact (none for a removed listing) and the step.
Insert(b) ==
  /\ b \in inflight
  /\ PartiesExist(b)
  /\ ~AlreadyPending(b)
  /\ inflight' = inflight \ {b}
  /\ status' = [status EXCEPT ![b] = "PENDING"]
  /\ thread' = [thread EXCEPT ![b] = Said(@, "REQUESTED")]
  /\ contacts' = IF deal[b].post \in removed THEN contacts
                 ELSE contacts \cup {<<deal[b].post, deal[b].customer>>}
  /\ UNCHANGED <<today, listingVars, deal, overlap, busyVars, noteVars>>

\* The request ends without a row: 409, a foreign key error, or the worker died.
Abandon(b) ==
  /\ b \in inflight
  /\ inflight' = inflight \ {b}
  /\ deal' = [deal EXCEPT ![b] = NoDeal]
  /\ UNCHANGED <<today, listingVars, status, overlap, busyVars, thread, contacts, noteVars>>

\* cancel: frees the days of an accepted booking.
Cancel(b) ==
  /\ b \in Rows /\ Cancellable(b)
  /\ status' = [status EXCEPT ![b] = "CANCELLED"]
  /\ booked' = WithoutDays({b})
  /\ Tell(b, "CANCELLED")
  /\ UNCHANGED <<today, listingVars, deal, inflight, overlap, blocked, contacts, noteVars>>
-----------------------------------------------------------------------------
(* The provider's side. *)

\* accept, one transaction under the post row's lock. When the exclusion constraint refuses
\* the BOOKED row, the whole transaction rolls back.
Accept(b) ==
  /\ status[b] = "PENDING"
  /\ deal[b].post \notin removed
  /\ deal[b].first >= today
  /\ DaysFree(b)
  /\ booked' = booked \cup {BookedFor(b)}
  /\ status' = [o \in Bookings |-> IF o = b THEN "ACCEPTED"
                                   ELSE IF o \in Rivals(b) THEN "DECLINED" ELSE status[o]]
  /\ overlap' = overlap \cup Rivals(b)
  /\ thread' = [o \in Bookings |-> IF o = b THEN Said(thread[o], "ACCEPTED")
                                   ELSE IF o \in Rivals(b) THEN Said(thread[o], "DECLINED")
                                   ELSE thread[o]]
  /\ UNCHANGED <<today, listingVars, deal, inflight, blocked, contacts, noteVars>>

\* decline: PENDING only, on a removed listing too.
Decline(b) ==
  /\ status[b] = "PENDING"
  /\ status' = [status EXCEPT ![b] = "DECLINED"]
  /\ Tell(b, "DECLINED")
  /\ UNCHANGED <<today, listingVars, deal, inflight, overlap, busyVars, contacts, noteVars>>

\* AvailabilityService.block: one range on several listings of one owner, all or none.
Block(P, s) ==
  LET rows == {[post |-> p, first |-> s.first, last |-> s.last] : p \in P} IN
    /\ IsDateRange(s)
    /\ P # {} /\ P \cap removed = {}
    /\ \E me \in accounts : \A p \in P : owner[p] = me
    /\ Cardinality(blocked \cup rows) <= MaxBlocks
    /\ blocked' = blocked \cup rows
    /\ UNCHANGED <<today, listingVars, rowVars, booked, thread, contacts, noteVars>>

\* AvailabilityService.unblock: a BLOCKED row of the caller's.
Unblock(r) ==
  /\ r \in blocked
  /\ owner[r.post] \in accounts
  /\ blocked' = blocked \ {r}
  /\ UNCHANGED <<today, listingVars, rowVars, booked, thread, contacts, noteVars>>
-----------------------------------------------------------------------------
(* The scheduled jobs. Each is one UPDATE; a second run of a job (the other *)
(* worker, a lost claim) is just another occurrence of the action.          *)

\* expireStale
BugStale == {b \in Bookings : status[b] = "PENDING" /\ deal[b].first = today - 1}
Stale == {b \in Bookings : status[b] = "PENDING" /\ deal[b].first < today}
ExpireStale ==
  /\ Stale # {}
  /\ status' = [b \in Bookings |-> IF b \in Stale THEN "EXPIRED" ELSE status[b]]
  /\ UNCHANGED <<today, listingVars, deal, inflight, overlap, busyVars, thread, contacts, noteVars>>

\* remindTomorrow: stamped by the UPDATE that selects.
BugDueReminder == {b \in Bookings : status[b] = "ACCEPTED" /\ deal[b].first = today + 1}
DueReminder == {b \in Bookings : /\ status[b] = "ACCEPTED"
                                 /\ deal[b].first = today + 1
                                 /\ b \notin reminded}
RemindTomorrow ==
  /\ DueReminder # {}
  /\ reminded' = reminded \cup DueReminder
  /\ notices' = [b \in Bookings |-> IF b \in DueReminder
                                    THEN [notices[b] EXCEPT !.reminder = @ + 1] ELSE notices[b]]
  /\ UNCHANGED <<today, listingVars, rowVars, busyVars, thread, contacts, reviewed, prompted>>

\* promptReviews: finished, never prompted, and the provider not reviewed by this customer.
BugDuePrompt == {b \in Bookings : /\ status[b] = "ACCEPTED"
                                  /\ deal[b].last = today - 1
                                  /\ b \notin prompted
                                  /\ <<deal[b].customer, deal[b].provider>> \notin reviewed}
DuePrompt == {b \in Bookings : /\ status[b] = "ACCEPTED"
                               /\ deal[b].last < today
                               /\ b \notin prompted
                               /\ <<deal[b].customer, deal[b].provider>> \notin reviewed}
PromptReviews ==
  /\ DuePrompt # {}
  /\ prompted' = prompted \cup DuePrompt
  /\ notices' = [b \in Bookings |-> IF b \in DuePrompt
                                    THEN [notices[b] EXCEPT !.prompt = @ + 1] ELSE notices[b]]
  /\ UNCHANGED <<today, listingVars, rowVars, busyVars, thread, contacts, reviewed, reminded>>
-----------------------------------------------------------------------------
(* What the rest of the engine does to the rows bookings read. *)

\* Midnight in Ulaanbaatar. Yesterday's contacts no longer conflict with a new one.
Tick ==
  /\ today < MaxDay
  /\ today' = today + 1
  /\ contacts' = {}
  /\ UNCHANGED <<listingVars, rowVars, busyVars, thread, noteVars>>

\* Approval, take-down, expiry and renewal move a listing in and out of isLive.
Relist(p) ==
  /\ bookable' = (bookable \ {p}) \cup ({p} \ bookable)
  /\ UNCHANGED <<today, accounts, owner, removed, rowVars, busyVars, thread, contacts, noteVars>>

\* PostService.remove by the owner: the row stays, soft-deleted.
RemovePost(p) ==
  /\ p \notin removed /\ owner[p] # NoUser
  /\ removed' = removed \cup {p}
  /\ UNCHANGED <<today, accounts, owner, bookable, rowVars, busyVars, thread, contacts, noteVars>>

\* Another call of the owner that loaded the listing before saves its copy, deleted_at included.
RestorePost(p) ==
  /\ p \in removed /\ owner[p] # NoUser
  /\ removed' = removed \ {p}
  /\ UNCHANGED <<today, accounts, owner, bookable, rowVars, busyVars, thread, contacts, noteVars>>

\* ReviewService.upsert, of the provider of a booking by its customer. An answered chat makes
\* it legal at any time, so a finished booking is not asked for; a review between two people
\* with no booking changes nothing here.
WriteReview(b) ==
  /\ b \in Rows
  /\ reviewed' = reviewed \cup {<<deal[b].customer, deal[b].provider>>}
  /\ UNCHANGED <<today, listingVars, rowVars, busyVars, thread, contacts, reminded, prompted, notices>>

\* ReviewService.takeDown: a report upheld deletes the review.
TakeDownReview(r) ==
  /\ r \in reviewed
  /\ reviewed' = reviewed \ {r}
  /\ UNCHANGED <<today, listingVars, rowVars, busyVars, thread, contacts, reminded, prompted, notices>>

\* deleteAccount: drafts and unapproved listings are removed, the others lose their owner;
\* the account's bookings cascade away with their BOOKED rows, threads and reviews.
DeleteAccount(u, unpublished) ==
  /\ u \in accounts
  /\ unpublished \subseteq {p \in Posts : owner[p] = u /\ p \notin bookable}
  /\ accounts' = accounts \ {u}
  /\ removed' = removed \cup unpublished
  /\ owner' = [p \in Posts |-> IF owner[p] = u THEN NoUser ELSE owner[p]]
  /\ status' = [b \in Bookings |-> IF b \in RowsOf(u) THEN "GONE" ELSE status[b]]
  /\ deal' = [b \in Bookings |-> IF b \in RowsOf(u) THEN NoDeal ELSE deal[b]]
  /\ booked' = WithoutDays(RowsOf(u))
  /\ thread' = [b \in Bookings |-> IF b \in RowsOf(u) THEN NoSteps ELSE thread[b]]
  /\ overlap' = overlap \ RowsOf(u)
  /\ reminded' = reminded \ RowsOf(u)
  /\ prompted' = prompted \ RowsOf(u)
  /\ reviewed' = {r \in reviewed : r[1] # u /\ r[2] # u}
  /\ UNCHANGED <<today, bookable, inflight, blocked, contacts, notices>>
-----------------------------------------------------------------------------
Customer == \E b \in Bookings :
  \/ \E c \in Users, p \in Posts, s \in Spans : Ask(b, c, p, s)
  \/ Insert(b) \/ Abandon(b) \/ Cancel(b)

Provider ==
  \/ \E b \in Bookings : Accept(b) \/ Decline(b)
  \/ \E P \in SUBSET Posts, s \in Spans : Block(P, s)
  \/ \E r \in blocked : Unblock(r)

Jobs == ExpireStale \/ RemindTomorrow \/ PromptReviews

Outside ==
  \/ Tick
  \/ \E p \in Posts : Relist(p) \/ RemovePost(p) \/ RestorePost(p)
  \/ \E b \in Bookings : WriteReview(b)
  \/ \E r \in reviewed : TakeDownReview(r)
  \/ \E u \in Users, unpublished \in SUBSET Posts : DeleteAccount(u, unpublished)

Next == Customer \/ Provider \/ Jobs \/ Outside

Spec == Init /\ [][Next]_vars

\* The clock runs and every job that has work runs: the crons fire daily and a run that was
\* missed finds the same rows the next day. Nobody is obliged to accept, decline or cancel.
FairSpec == /\ Spec
            /\ WF_vars(Tick)
            /\ WF_vars(ExpireStale)
            /\ WF_vars(PromptReviews)
-----------------------------------------------------------------------------
(* Safety. *)

\* Two accepted bookings of one listing never share a day, whatever accepts, cancellations
\* and account deletions interleave ("two accepts racing for the same days fail one").
NoDoubleBooking ==
  \A a, b \in Bookings :
    a # b /\ status[a] = "ACCEPTED" /\ status[b] = "ACCEPTED" => ~SameDays(deal[a], deal[b])

\* post_busy and bookings, two tables kept in step by hand, agree: the BOOKED rows are
\* exactly the days of the ACCEPTED bookings, so no cancelled booking blocks a listing.
BusyMatchesAccepted ==
  booked = {BookedFor(b) : b \in {o \in Bookings : status[o] = "ACCEPTED"}}

\* One open request per customer and listing, also for requests whose checks overlapped.
OnePendingRequest ==
  \A a, b \in Bookings :
    /\ a # b /\ status[a] = "PENDING" /\ status[b] = "PENDING"
    /\ deal[a].customer = deal[b].customer
    => deal[a].post # deal[b].post

\* Every booking row is between two live accounts, and its provider still owns the listing:
\* create stores the owner it read before its transaction, when the account may go away.
ProviderOwnsListing ==
  \A b \in Rows : /\ {deal[b].customer, deal[b].provider} \subseteq accounts
                  /\ owner[deal[b].post] = deal[b].provider

\* A reminder and a review prompt go out at most once per booking however often the jobs run.
NoticesOnce == \A b \in Bookings : notices[b].reminder <= 1 /\ notices[b].prompt <= 1

\* The chat thread holds the deal: of a booking that has a row, each step its status was reached
\* by stands there once and no other, the answer an accept gave its rivals included; what a
\* reminder or a prompt went out for was told as accepted, though it was cancelled since.  Nothing
\* is left of a row that went.  (Expiry writes no step; the order the thread shows is not said.)
ThreadHoldsTheDeal ==
  \A b \in Bookings :
    /\ thread[b]["REQUESTED"] = IF b \in Rows THEN 1 ELSE 0
    /\ \A kind \in {"DECLINED", "CANCELLED"} : thread[b][kind] = IF status[b] = kind THEN 1 ELSE 0
    /\ thread[b]["ACCEPTED"] <= IF status[b] \in {"ACCEPTED", "CANCELLED"} THEN 1 ELSE 0
    /\ status[b] = "ACCEPTED" \/ b \in reminded \cup prompted => thread[b]["ACCEPTED"] = 1
-----------------------------------------------------------------------------
(* Steps. *)

\* A closed booking never reopens, an accepted one only ends by a cancellation before its
\* first day or with an account, and nothing but a request makes one pending.
LegalMove(b) ==
  LET from == status[b] to == status'[b] IN
    \/ from = to
    \/ from = "NONE" /\ to = "PENDING"
    \/ from = "PENDING" /\ to \in {"ACCEPTED"} \cup Closed
    \/ from = "ACCEPTED" /\ to = "CANCELLED" /\ today < deal[b].first
    \/ from \in Open \cup Closed /\ to = "GONE"
StatusFlow == [][\A b \in Bookings : LegalMove(b)]_vars

\* The step that accepts a booking leaves no pending request with a day it took, and closes as
\* OVERLAP only requests that had one.  A day is one both ranges contain, whatever the ranges'
\* comparison makes of their ends.
ShareDay(r, s) == r.post = s.post /\ \E d \in Days : d \in r.first..r.last /\ d \in s.first..s.last
Accepts(b) == status[b] = "PENDING" /\ status'[b] = "ACCEPTED"
RivalsClosed ==
  [][/\ \A b, o \in Bookings : Accepts(b) /\ status'[o] = "PENDING" => ~ShareDay(deal[o], deal[b])
     /\ \A o \in overlap' \ overlap : \E b \in Bookings \ {o} :
          Accepts(b) /\ ShareDay(deal[o], deal[b])]_vars

\* The component implements the calendar it promises.
HeldDays == {h \in Posts \X Days \X Bookings :
               \E r \in booked : /\ r.booking = h[3] /\ r.post = h[1]
                                 /\ r.first <= h[2] /\ h[2] <= r.last}
Promise == INSTANCE Calendar WITH held <- HeldDays
ImplementsCalendar == Promise!CalendarSpec

\* A finished booking entitles its customer to a review for good: no cancellation, and no job,
\* takes it back once its last day is over (canReview reads ACCEPTED and end_date < today).
Finished == {b \in Bookings : status[b] = "ACCEPTED" /\ deal[b].last < today}
Dealt == INSTANCE Dealings WITH People <- Users, people <- accounts,
           dealt <- {<<deal[b].customer, deal[b].provider>> : b \in Finished}
ImplementsDealings == Dealt!DealingsSpec
-----------------------------------------------------------------------------
(* Progress, under FairSpec. *)

\* A request nobody answers does not stay open past its first day.
RequestsClose ==
  \A b \in Bookings :
    status[b] = "PENDING" /\ deal[b].first < MaxDay ~> status[b] # "PENDING"

\* The customer of a finished booking is asked for a review, unless they wrote one.
FinishedIsPrompted ==
  \A b \in Bookings :
    status[b] = "ACCEPTED" /\ deal[b].last < MaxDay
      ~> \/ b \in prompted
         \/ status[b] # "ACCEPTED"
         \/ <<deal[b].customer, deal[b].provider>> \in reviewed
=============================================================================
