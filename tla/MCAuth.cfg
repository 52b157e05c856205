SPECIFICATION Spec
CONSTANTS
  Phones = {p1, p2}
  Devices = {d1}
  Users = {u1, u2}
  Sessions = {s1, s2}
  Tokens = {t1, t2}
  Callers = {c1, c2}
  NoPhone = NoPhone
  NoDevice = NoDevice
  NoUser = NoUser
  NoSession = NoSession
CHECK_DEADLOCK FALSE
INVARIANTS TypeOK AccessProved
PROPERTIES ImplementsOneTimeProof
SYMMETRY Interchangeable
