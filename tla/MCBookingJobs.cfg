SPECIFICATION FairSpec
CONSTANTS
  Users = {u1, u2}
  Posts = {p1}
  Bookings = {b1, b2}
  Spans <- JobSpans
  MaxRangeDays = 2
  MaxDay = 2
  MaxBlocks = 0
  NoUser = NoUser
  NoDeal = NoDeal
PROPERTIES
  RequestsClose
  FinishedIsPrompted
CHECK_DEADLOCK FALSE
