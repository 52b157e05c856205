----------------------------- MODULE MCBooking -----------------------------
(* Instances of Booking for TLC. *)
EXTENDS Booking, TLC

Range1(f, l) == [first |-> f, last |-> l]

\* Two ranges that meet on day 1, one that meets only the second of them, one too long.
MCSpans == {Range1(0, 1), Range1(1, 2), Range1(2, 2), Range1(0, 2)}

\* Ranges that end before the last day, so that every job has a day to run on.
JobSpans == {Range1(0, 0), Range1(0, 1), Range1(1, 1)}

Symmetry == Permutations(Users) \cup Permutations(Bookings)
=============================================================================
