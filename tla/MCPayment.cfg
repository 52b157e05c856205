SPECIFICATION Spec
CONSTANTS
  Users = {u1}
  Posts = {p1}
  Payments = {i1, i2}
  Checkers = {k0, k1}
  Sweeper = k0
  Editors = {}
  Kinds = {"PLAN"}
  Units = {2}
  Windows = {3}
  Month = 2
  Ttl = 1
  LateFor = 2
  PendingFor = 3
  SweepLimit = 2
  Grace = 1
  MaxTime = 1
  MaxPaid = 2
  NoPost = NoPost
  NoLine = NoLine
  Idle = Idle
  NoEdit = NoEdit
SYMMETRY Ids
CHECK_DEADLOCK FALSE
INVARIANTS GrantedWasPaid PaidMeansGranted PlanPaidFor
PROPERTIES ImplementsTill
