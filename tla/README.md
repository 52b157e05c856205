# A verification of the zuuchmap engine

zuuchmap is a marketplace for hiring equipment and services in Mongolia: people list what
they rent out, others look for it, ask for days, chat, pay for plans and promotion, and
report what is wrong. This directory holds TLA+ models of the parts of it that keep state
other people depend on, the TLC configurations that check them on small instances, and
proofs of the facts that matter most for every instance.

The code is a TypeScript monorepo. `apps/engine` (NestJS, TypeORM, Postgres, Redis; two pm2
workers in production) holds all shared state and nearly all of the logic worth modelling.
`apps/web` and `apps/app` are clients of it, `packages/core` the contract between them.
Paths below are relative to `src/apps/engine/src` unless they say otherwise.

## 1. Inventory

| component | state | operations | hard part |
|---|---|---|---|
| Bookings, availability (`booking/`, `post/availability.service.ts`) | `bookings`, `post_busy` | create, accept, decline, cancel; block, unblock; jobs expire, remind, prompt | create checks outside its transaction; accepts race; two tables hold one fact; jobs run twice or not at all |
| Payments (`payment/`) | `payments`; `users.plan`, `posts.featured_until` | invoice, poll, QPay callback, settle, sweep, admin grants | one payment is seen by poll, callback and sweep on two workers; a gateway call that fails after it worked; money that comes late |
| Notifications (`notification/`) | `notification_outbox`, `notifications`, `push_devices` | enqueue, process, sweep, deliver, prune, devices, settings | claims that time out under a live worker, crash between deliver and record, retries |
| Phone verification and sessions (`auth/`) | `verification_session`, `auth_sessions`, `trusted_device` | start, check, callback, spend, sign out, trusted device | callback and poll race to settle; a verified session is spent once |
| Listings (`post/post.service.ts`, `post/content.ts`, `post/post-expiry.service.ts`) | `posts` | create, submit, update, renew, remove; approve, reject, take down; expiry jobs | owner writes are load, change, save without a lock, against locked moderation and cron updates; quota |
| Listing events (`post/listing-events.ts`) | none | emit, on | in process: an event between commit and enqueue dies with the worker |
| Reports (`report/`) | `reports` | create, resolve | resolve acts first and closes the rows after; two admins |
| Chat (`chat/`) | `conversations`, `messages` | open, send, booking step, read | unread counters next to per-message read marks; read marks race with sends |
| Reviews (`review/`) | `reviews` | upsert, reply, take down | first reply is read-then-write |
| Reader marks (`post/like`, `post-view`, `contact`, `visitor`) | `post_likes`, `post_views`, `post_contacts` | like, view, contact, merge a visitor | deduplicated counts, per-address caps |
| Saved searches (`post/saved-search`, `search-terms`) | `saved_searches`, `search_misses` | create (at most ten), update, match, alert | limit under concurrency |
| Photos (`post/photo-storage`, `photo-image`) | object storage | put, delete | clean-up when one upload of several fails |
| Users, companies, people (`user/`, `company/`, `people/`, `provider/`) | `users`, `companies` | profile, role, delete account, company create, update, verify | cascade over every table; edit races with verification |
| Admin (`admin/`) | `broadcasts` | users, verification, broadcasts, statistics | broadcast targets |
| Categories (`category/`) | `category_schema` | seed, upsert, archive | "in use" is read before it is relied on |
| Redis (`redis/`) | cron claims, rate windows | claimCron, hit | fails open; claims expire |
| Sockets (`events/`) | connections | emit to user, room | best effort |
| Web and app clients (`src/apps/web`, `src/apps/app`) | local storage, caches | saved lists, push token, realtime, search | merge on sign-in |
| Shared contract (`src/packages/core`) | none | types, validation, formats, prices | calendar arithmetic |
| Infrastructure (`src/infra`), schema (`migrations/`), scripts, design tokens | – | deploy, backup, seed | – |

Interaction: HTTP handlers call services directly; services share the database and publish
facts on an in-process event bus after they commit; the notification service turns a fact
into an outbox row and works it off; cron jobs run in every worker and claim a Redis key
first. Postgres at READ COMMITTED is the only synchronisation between workers: row locks
(`FOR UPDATE`), conditional updates, unique indexes and one exclusion constraint.

## 2. Plan

The order follows what people lose when it goes wrong: days sold twice, money without what it
bought, messages nobody gets, access without proof, content nobody looked at.

| step | modules | abstract specification | proofs |
|---|---|---|---|
| done | `Booking` (with `post_busy`) | `Calendar`: a day has one holder, ranges are taken and given back whole | `BookingProofs` |
| done | `Payment` | `Till`: a payment is sold once, for its price, and a plan runs as far as was sold | `PaymentProofs` |
| done | `Outbox` | `Delivery`: an event on disk is done when everybody was told, and nobody is told without bound | `OutboxProofs` |
| done | `Auth` | `OneTimeProof`: a text is worth one ticket | `AuthProofs` |
| done | `Listing` | `Ownership`: a listing's owner has an account and goes with it, for good | `ListingProofs` |
| done | `Chat` (open, send, a booking's step, read) | `Dealings`: who dealt with whom, until one of the two goes (`Booking` keeps it too); the messages are the reference of the row that sums them up | `ChatProofs` |
| done | `Report`, with the reviews it may take down | none; its surroundings move as `Dealings` says | `ReportProofs` |
| next | lock-level accept, decline, cancel and create of `Booking`, shown to implement the atomic ones; who waits for whom | `Booking` | the refinement |
| next | companies: an owner's edit beside an admin's verification | a verified name is one an admin looked at | the invariant |
| next | `claimCron` and `hit` of `redis/` with two workers and a Redis that restarts; contact caps, views, visitors merged into accounts | at most n hits in a window | the bound |
| next | pure algorithms: `addMonths`, prices and days of promotion, attribute validation | reference definitions over bounded inputs | – |
| later | what a retry of an event does when planning is made stable; the clients' saved lists | – | – |

Modules compose by sharing what one component leaves in another's tables: `Booking` holds the
listing, review and chat rows it reads and lets their owners change them; `Payment` and
`Listing` each hold the columns of `posts` they write, with the owner's stale save in both; a
booking's step in a thread is a counted word in `Booking` and a message in `Chat`; `Report` holds
of bookings and chats only who earned a review of whom. Where one component relies on what others
do, the contract between them is a module of its own. `Ownership` says how accounts and owners
move, and `Listing` implements it. `Dealings` says how the right to a review comes and goes:
`Booking` and `Chat` implement it with what `canReview` reads of them (a contract two components
keep side by side is kept by both together, since it lets pairs be added in any number and an
account's end takes its pairs from all). The actions of `Booking` and `Report` that stand for other
components (`DeleteAccount`; `Earn`, `Quit`) are written to be moves of these contracts; that is how
they are modelled and no result.

The number of runs is kept small: one safety run per component, one for liveness where a job or
a retry must end something, one for each disagreement found.

## 3. The modules and the code

**Conventions.** One action is one statement or transaction that Postgres makes atomic; where the
code awaits between two of them there are two actions, and anything may come between. A worker
that stops is an action that drops the call. Definitions keep the code's names; a name `BugX` is
what a plausible slip would make of `X`, used only to see that the runs notice it. Days and
hours are ticks of a clock that stops at a bound.

**`Booking`.** `status`, `deal` and `booked`/`blocked` are the rows of `bookings` and `post_busy`.
`create` is `Ask` (its checks, line 252) and `Insert` (its transaction, 265), so the days may be
gone by the time of the insert. `Accept`, `Decline`, `Cancel` are one step each: the code holds
the post and booking rows. The rivals an accept declines, the BOOKED rows and the message in the
thread belong to the same step. `thread` counts the messages a booking left in the chat, by kind:
their order there is that of their transactions' starts, not of the commits (section 8). The reads
of listing, category and busy days in `create` (252–262) are one step, as nothing that a property
speaks of lies between them. `ExpireStale`, `RemindTomorrow`, `PromptReviews` are the jobs,
allowed any number of times a day, because a claim in Redis may expire. The exclusion constraint
is the guard `DaysFree`, the unique index `AlreadyPending`, the foreign keys `PartiesExist`.
Account deletion, removal and expiry of the listing, provider blocks, reviews and their
take-down are actions. `RestorePost` is the owner's save of a copy loaded before the removal, which
writes `deleted_at` back. A notice is counted where the code emits it.

**`Calendar`** is what a customer relies on; `Booking` maps `held` to the days of its BOOKED rows.

**`Payment`.** `createInvoice` is four steps: supersede (126), insert (132), the call to QPay (138),
save or cancel; it may stop between the first two (`OpenInvoiceStops`), and the save may commit and
its answer be lost, when the catch cancels the row without a condition (`making` is then "lost", and
"undone" once a settled row was overwritten so). A check (`refresh`) is three: read, QPay's answer, settle or expire. Polls and
callbacks are checkers; the slot `Sweeper` is the minute job's, which works off the rows it
picked one after the other and then retires what lapsed: one sweep at a time. A manual grant is a line with amount 0
settled in its own transaction. `Pay` is money arriving at QPay at any time, in parts, after the
invoice lapsed or was superseded. The owner's edits of a listing are a load and a save of
every differing column. A day of placement is a tick; plans and prices are numbers of months.

**`Till`** is `Payment` without checks, calls and workers: money comes in, and a payment is sold once
its price is there; a sale of a plan moves the plan's end by the months sold. `sold` is mapped to
the payments granted with the end each grant wrote.

**`Outbox`.** `process()` (line 127 on) is cut at claim, plan, and for each notification store,
push and record, then delete. Two calls may hold one row when the first outlives its claim. `Die`
and `Fail` may come at any cut. `Lists` gives the recipients in any order, because the queries
have no ORDER BY, and `Stir` lets them change between attempts; no list holds
a notification twice, as every query behind `plan()` gives a row per account, or per saved search,
which has a group of its own. A notification that folds by
`group_key` updates its row and is not pushed again. Ages saturate where no condition tells
them apart. Left out: chat messages and payment receipts that are pushed without a row, and the
limit of 100 rows a sweep selects (the condition is repeated by the claim).
What the code does and the model keeps: a claim is not renewed, so a slow call gets a second
sender; an event that dies before its INSERT is lost (`Lose`); a failed push counts as sent.

**`Delivery`** forgets calls, claims and attempts: an event is somewhere, somebody is due to hear of
it, and was told and rung so often. `due` is the answer the event began with; once the list of
recipients moved, nobody is (`Excuse`), which is where the finding of section 8 lives.

**`Auth`.** A session's status and code, accounts by phone number, tokens and trusted devices.
`startVerification` is look up the device, insert the session, register it at verify.mn, note
the answer, and its own answer may or may not reach the client: `given` are the sessions whose id
did, and only those are polled. A poll is look, ask, settle, spend; a callback is settle alone. A
caller keeps the row it read while others move it. Signing out is two steps, the token and the
device. `spend` (198–212) is one transaction behind a conditional
UPDATE. `Lapse` is a session that ran out while PENDING. Left out: dev mode, the per-phone
limit, the pause of 3 s between polls, tokens that lapse.

**`OneTimeProof`** maps proofs to sessions whose text arrived and tickets to tokens.

**`Listing`.** `row` is `posts`. An owner's call is `Load` (a copy, without a lock), `Compare` (the
copy is changed, the quota checked behind the users row's lock where the code does, and `save()`
reads the row to find the columns that differ) and `Write` (those columns). `Approve`, `Reject`,
`TakeDown` are one transaction behind the row's lock. The account's deletion is `StartDeletion`
(its two UPDATEs, the rows stay locked) and `EndDeletion` (the row of `users` and ON DELETE SET
NULL); `AbortDeletion` is a failure; the two UPDATEs are one step, since what a
call commits between them (a listing made, an approval) it may as well commit before the first or
after the second. `reviewed`, `revived`, `overlapped` and a call's `late` are not in the code: they
remember what was let through, what got a slot without the quota, which listings changed under a
call that held a copy, and whose window closed after a call had found it open.

**`Ownership`** maps a listing's holder to the `user_id` of its row, and the listings made to the
ids given out.

**`Chat`.** `row` is `conversations` with its summary columns (unread counters, last message, first
customer message and first reply), `log` the thread's `messages` in the order of their commits.
An append holds the thread's row from its load to its commit and a read's transaction locks it
first, so each is one step (`Write`, `Mark`); what a request does before it waits for the row is a
step of its own (`Open`, `Ensure`, `Say`, `Send`, `Deal`, `Look`). A message carries the time at
which its transaction began, and a read the time at which it was asked for, so times need not grow
along the thread. A booking's step is a message that is no text. Account deletion takes threads
and messages along. Left out: bodies, pages, sockets.

**`Report`.** Reviews, reports and rulings. Nothing is locked: `upsert` is `MayReview` and
`WriteReview`, a reply is `ReadReview` and `Reply`, filing is `Count` and `File`, a ruling is
`Resolve`, `TakeDown` and `Close`, and any other request may come between. (`Count` reads the subject
and counts at once; the code awaits between them, and no property tells the difference.) `earned` is what makes a
review legal (a finished booking, an answered chat); `announced`, `told` and `downed` are not in
the code: they count the events and remember the take-downs. Unique indexes and foreign keys are
guards (`Of`, `NotYet`, `Referred`). `Relisted` is whatever moderation and the owner do to a listing,
a removal undone by a stale save included; `Quit` takes away what the account had not published and
may take away what it had in review. Left out: ratings, texts, reasons, the admin's queue.

**`Dealings`** maps `dealt` to the parties of accepted bookings whose last day is over in `Booking`, to
those of threads with a first reply in `Chat`. `Report`'s `earned` stands for both.

## 4. Runs and bounds

| run | question | bounds and why they are enough |
|---|---|---|
| `booking` | all safety of `Booking`, and that it implements `Calendar` and `Dealings` | three people (an owner and two customers, or one who rents and lets), one listing, two requests over days 0–2 whose ranges share a day, lie inside each other or are too long; a third request adds no new pair |
| `booking_jobs` | do requests and deals come to their end | two people, days 0–2, ranges that leave a day for each job |
| `payment` | one grant per payment, for its price, for good, no plan longer than was paid for: `Till` | one provider, two plan payments (they supersede each other), one poll beside the sweep, money in two parts, one tick: before and after an invoice lapses |
| `payment_jobs` | placements, and that money, invoices and placements come to their end | one invoice for a placement, superseded by a request that then stops, the owner's stale saves, two ticks: an invoice lapses after one, the sweep gives up on a retired one after two. With one row the sweep's LIMIT (`Crowded`) and its two days for a PENDING row are never reached: provisos of the properties that the run does not exercise. Two rows and the owner's saves together are too many states for liveness |
| `outbox` | who hears an event and how often, that a row is worked off, and that it implements `Delivery` | one event (rows do not meet), two recipients in either order, two senders, two attempts, a claim of one tick, retention of two |
| `outbox_skipped` | finding | as `outbox` |
| `auth` | who gets a token | two numbers, two sessions, two tokens, two accounts, two calls at once, one device |
| `auth_jobs` | does a session end | one session, two tokens, two calls |
| `listing` | what is live, and how much, and whose it is (`Ownership`) | two listings of one owner with a quota of one, two contents, two calls at once, three calls, decisions and deletions (`MaxDeeds`) besides what is created, four days and windows of two: one closes and another opens; the shortest overbooked quota or bypassed review takes three of them, a renewal that comes late takes two |
| `listing_refused` | finding | as `listing` |
| `chat` | counters, summaries and marks against the messages, and answers as `Dealings` | one thread of two people, two requests at once, three messages (a question, an answer, one more), two ticks: a message or a read older than one committed before it |
| `report` | who may review, and what a ruling does | three accounts (the seller, two others), one listing and one review, two reports, two requests at once, one open report each: two admins, two reporters, a caller at the limit |

Symmetry is used only in runs without liveness and only on ids the specification treats alike.
Deadlock checking is off in every run: the clocks stop, ids and attempts run out, and a finished
system is not an error.

Some invariants are proved and in no run, because the ones beside them in the runs already bring
the same slips to light: the type invariants of `Booking`, `Payment`, `Outbox`, `Listing` and `Chat`,
`OnePendingRequest` and `StatusFlow` of `Booking`, `NoticeOnce`, `GrantsStand` and `StatusFlow` of
`Payment`, `OneAccountPerPhone` of `Auth` and `ReplyAnnounced` of `Report`.

## 5. Fairness

- `Booking`: the clock, `ExpireStale` and `PromptReviews` weakly. The jobs run daily, and their
  conditions stay true until they are met, so a missed day costs a day.
- `Payment`: strong fairness of the minute job's steps (it runs every minute whatever stopped it,
  QPay answers some call about each invoice, a worker lives long enough to finish one). Nothing
  is assumed of customers, polls or callbacks.
- `Outbox`: weak for `Enqueue`, for a claim by some sender (every worker sweeps each minute), for
  a sender's own next step and for time. None for stopping or failing, so each may happen every
  time.
- `Auth`: a client that was given a session's id polls every two seconds until it has an answer, so
  polls of such a session and what follows them are strongly fair, a call that began ends, and time
  passes. Nothing is assumed of verify.mn's callback or of the text. A session whose creation failed
  or whose answer was lost is polled by nobody, stays PENDING, and `SessionsEnd` says nothing of it.
- `Listing`, `Chat` and `Report` have no liveness: an owner, a moderator, a reader or an admin may
  always do nothing.

## 6. Proofs

Checked by TLAPS for every number of accounts, listings, rows, calls and ticks; the only
assumptions are the named ASSUMEs on constants (naturals, some of them not zero, nulls that are not
ids). None relates two numbers an admin sets: a category's window may be shorter than the days a
deleted account's listings stay.

- `BookingProofs`: the inductive invariant is well-typedness with `BusyMatchesAccepted` and
  `NoDoubleBooking` together: that no day is sold twice follows only because the BOOKED rows
  mirror the accepted bookings, which is what accept's guard reads. `OnePendingRequest`,
  `ProviderOwnsListing` (with the fact that a request in flight was asked of the listing's owner)
  and `StatusFlow` follow separately. `CalendarImplemented` maps accept to `Reserve`, cancel and
  deletions to `Release`, everything else to a stutter. `NoticesOnce` needs to know that only
  stamped bookings were announced; `ThreadHoldsTheDeal` that a row's listing has an owner, so that
  no step goes unwritten, and that only accepted bookings are reminded and prompted.
  `RivalsClosed` speaks of days both ranges contain, accept's guard compares their ends: that the
  two agree needs what create's checks saw of the columns (`DealsMeant`: the first day is not after
  the last, nobody books from himself). So does `DealingsImplemented`: a booking that is over had its
  first day, so that cancel's guard keeps it.
- `PaymentProofs`: `RowsWritten` (a row carries a line), `ChecksBacked` (what a check in flight
  learnt from QPay is still true: paid money does not go away) and the three properties;
  `PaidMeansGranted` leaves out the rows a lost answer's catch has overwritten (section 8). Without
  `ChecksBacked` a settlement by an old answer could not be judged. `PlanPaidFor` and
  `PlacementPaidFor` bound an end in time by a sum over payments. The sum is written as the number of
  pairs of a payment and one of its units, so that a settlement adds the pairs of its line to
  its own account or listing and to nothing else (`SettleUnits`), and no induction over sets is
  needed. Inductive is only the conjunction with `CopiesPaidFor`: an owner's copy of a listing, which
  a later save writes back, promises no more days than were paid. `PaymentsImplementTill` maps a
  settlement to `Sell`, an upstream payment to `TakeMoney`, and the rest to pricing or a stutter.
- `OutboxProofs`: `JobsPlaced`, `JobsKnow`, `RowsKnow`, `ClaimsKnow` say how far each call and each
  row has got and that a recorded position was served; two calls on a row means that the older
  claim ran out. `RepeatsBounded` is a counting argument: what was told of a notification, plus the
  calls that may still tell it, is at most the attempts counted on the row (`TellsCounted`, and
  `PushesCounted` for pushes); it needs that a plan names nobody twice, so that a call that has
  passed a notification does not come back to it (`PlansDistinct`). `DeliveryImplemented` puts
  these together: nothing is told of an event that is not on disk (`OnDisk`), a store is `Tell`, a
  push is `Ring`, and a deletion is `Finish` because of `JobsKnow`.
- `AuthProofs`: `Proofs` (a row that is VERIFIED, a call that saw it so, and a registration in
  flight go back to a text) gives the refinement of `OneTimeProof`; `Access` (tokens, their
  holders and devices go back to spent sessions) gives `AccessProved`.
- `ListingProofs`: what a call's copy is worth. As long as nothing else changed its listing, a
  call's copy is the row, and what it will write was let through by a reviewer, or was counted by
  the quota when it takes a slot (`Apt`; the invariants speak of the listings in `Undisturbed`, the
  others are the finding of section 8). That gives `LiveIsReviewed` and `RevisionBesidePublished`.
  The quota needs that one call of an owner at a time counts behind the lock of the users row
  (`OneLock`) and that the room it saw is still there when it writes (`Room`). `WithinQuotaHolds` is
  about the listings that passed the quota: not those an approval brought back, those a late renewal
  brought back, and those that changed under a call's copy. `OwnershipImplemented`
  needs that a call's copy agrees with the row on the owner, or names an account that is gone, which
  the foreign key lets no save write back (`OwnersInv`).
- `ChatProofs`: every step either leaves the threads alone or is one of four moves of one thread
  (begin, append, mark, cascade; lemma `Moves`), and each property is shown for the moves. The
  counter follows from counting the unread messages of an appended and of a marked thread,
  the summaries from what the first message of a set becomes when the thread grows.
  `DealingsImplemented` follows from the types, which keep both people of a thread alive, and from
  `ThreadStands`: an answer is not taken back.
- `ReportProofs`: what a request in flight has read stays good enough: a review once earned is
  earned until one of the two goes (`EarnedInv`), a ruling on its way to `Close` has taken the
  subject down, a report keeps its id. That gives the four properties, and `ReplyAnnounced`.

## 7. Only model-checked

Liveness, which is out of the prover's reach: `RequestsClose` and `FinishedIsPrompted` of `Booking`,
`MoneyLands`, `InvoiceCloses` and `PlacementEnds` of `Payment`, `StoredIsSettled` of `Outbox` and
`SessionsEnd` of `Auth`. Every safety property that a passing run checks is proved as well. The two
properties of section 8 that a run refutes are of course not.

## 8. Findings

Shown by a run:

- `outbox_skipped`: a retry resumes at a position of a list that may come in another order, and
  then skips an account.
- `listing_refused`: an owner's save of a copy loaded before a rejection or take-down writes
  APPROVED back, and the listing is live again. The same save can undo an approval, a paid
  placement or a removal.

Seen while modelling, reachable in the models, without a run of their own:

- A request whose check (`booking.service.ts:261`) ran before an accept and whose insert ran after
  it stays PENDING on taken days; accept closes rivals that are already there. It can only be
  declined or expire; no day is sold twice.
- An invoice QPay issued whose answer was lost has no id the sweep could ask about
  (`payment.service.ts:329`), although the schema says the sweep can still settle it
  (`migrations/1760500000000-schema.ts:470`).
- `createInvoice`'s catch (`payment.service.ts:150`) says "QPay never issued it, so it can never be
  paid" and cancels without a condition. It is also reached when the save (142) committed and its
  answer was lost: the row is then known, its owner may reopen and pay it, and a settled row becomes
  CANCELLED while its grant stays (it is not granted again). `PaidMeansGranted` leaves out such rows.
- A renewal that loads a listing still running takes no lock and asks no quota (`post.service.ts:510-521`).
  When the window closes before its save, the slot is free for a moment, another listing may take it,
  and the save brings the first one back without "the quota create does" (514): the owner is over plan. `WithinQuota` leaves out such listings (`late`, `revived`).
- A chat shows its messages by `date_created` (`chat.service.ts:199`), the time their transaction
  began. A cancellation or a decline that waited for the booking's row is shown before the
  acceptance or request it followed, although "the
  thread reads as the deal's history" (`chat.service.ts:65-66`). `ThreadHoldsTheDeal` counts the steps, and
  `RowTellsThread` sums up the thread in the order of the commits; neither speaks of what is shown
  first, and `first_reply_at` may be older than `first_customer_at`.
- Two admins who rule at once, one to take down and one to keep: the subject is down, while its
  reports may be DISMISSED and their reporters hear nothing (`report.service.ts:141`).

## 9. Not modelled

See "components" in `PROJECT.json`: single-row updates and reads, statistics, photos, categories,
sockets, clients and deployment are left out for the reason given there. Companies, the marks of
readers and the Redis counters are planned (section 2); until then every job is modelled as if
its claim excluded nobody, which is the weaker assumption, but for the sweep of invoices: there is
one at a time, though its claim's time to live lets a slow one overlap the next. Each of them adds one step per call and
little that two actors could get wrong together, except a company's edit beside its verification,
which is listed as a hazard. Hazards without a property are listed with the reason.
