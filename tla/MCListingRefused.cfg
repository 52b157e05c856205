SPECIFICATION Spec
CONSTANTS
  Users = {u1}
  Posts = {p1, p2}
  Contents = {x, y}
  Callers = {c1, c2}
  Limit = 1
  Window = 2
  Grace = 1
  Proof = 1
  MaxTime = 4
  MaxRejected = 1
  MaxDeeds = 3
  NoUser = NoUser
  NoPost = NoPost
  NoContent = NoContent
SYMMETRY Interchangeable
CHECK_DEADLOCK FALSE
INVARIANTS RefusedStaysDown
