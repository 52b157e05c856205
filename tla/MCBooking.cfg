SPECIFICATION Spec
CONSTANTS
  Users = {u1, u2, u3}
  Posts = {p1}
  Bookings = {b1, b2}
  Spans <- MCSpans
  MaxRangeDays = 2
  MaxDay = 2
  MaxBlocks = 1
  NoUser = NoUser
  NoDeal = NoDeal
SYMMETRY Symmetry
INVARIANTS
  BusyMatchesAccepted
  ProviderOwnsListing
  NoticesOnce
  ThreadHoldsTheDeal
  NoDoubleBooking
PROPERTIES
  RivalsClosed
  ImplementsCalendar
  ImplementsDealings
CHECK_DEADLOCK FALSE
