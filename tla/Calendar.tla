----------------------------- MODULE Calendar ------------------------------
(***************************************************************************)
(* What the booking component promises about a listing's days, and nothing *)
(* else: a day of a listing is held by at most one booking, a booking      *)
(* takes all its days in one step and gives them all back in one step.     *)
(***************************************************************************)
EXTENDS Integers

CONSTANTS Posts, Bookings, Days

VARIABLE held   \* <<post, day, booking>>

CalendarTypeOK == held \subseteq Posts \X Days \X Bookings

HeldBy(b) == {h \in held : h[3] = b}
Free(p, d) == \A h \in held : ~(h[1] = p /\ h[2] = d)

CalendarInit == held = {}

\* b takes the days first..last of one listing, all of them free.
Reserve(b, p, first, last) ==
  LET stay == {d \in Days : first <= d /\ d <= last} IN
    /\ HeldBy(b) = {}
    /\ \A d \in stay : Free(p, d)
    /\ held' = held \cup {<<p, d, b>> : d \in stay}

\* Some bookings end: everything they held is free again.
Release(B) == held' = {h \in held : h[3] \notin B}

CalendarNext ==
  \/ \E b \in Bookings, p \in Posts, f \in Days, l \in Days : Reserve(b, p, f, l)
  \/ \E B \in SUBSET Bookings : Release(B)

CalendarSpec == CalendarInit /\ [][CalendarNext]_held
=============================================================================
