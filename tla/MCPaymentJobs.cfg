SPECIFICATION FairSpec
CONSTANTS
  Users = {u1}
  Posts = {p1}
  Payments = {i1}
  Checkers = {k0}
  Sweeper = k0
  Editors = {e1}
  Kinds = {"FEATURED"}
  Units = {1}
  Windows = {2}
  Month = 2
  Ttl = 1
  LateFor = 2
  PendingFor = 3
  SweepLimit = 1
  Grace = 1
  MaxTime = 2
  MaxPaid = 1
  NoPost = NoPost
  NoLine = NoLine
  Idle = Idle
  NoEdit = NoEdit
CHECK_DEADLOCK FALSE
INVARIANTS PlacementPaidFor
PROPERTIES MoneyLands InvoiceCloses PlacementEnds
