SPECIFICATION ChatSpec
CONSTANTS
  Shop = u1
  Users = {u1, u2}
  Posts = {p1}
  Owner <- MCOwner
  Callers = {c1, c2}
  MaxTime = 1
  MaxMessages = 3
  Unread = Unread
  Never = Never
  NoLast = NoLast
  NoThread = NoThread
  NoKey = NoKey
SYMMETRY Symmetry
CHECK_DEADLOCK FALSE
INVARIANTS
  CountersMatch
  RowTellsThread
  NothingUnreadBelow
PROPERTIES
  ThreadStands
  ImplementsDealings
