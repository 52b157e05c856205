SPECIFICATION FairSpec
CONSTANTS
  Phones = {p1}
  Devices = {d1}
  Users = {u1}
  Sessions = {s1}
  Tokens = {t1, t2}
  Callers = {c1, c2}
  NoPhone = NoPhone
  NoDevice = NoDevice
  NoUser = NoUser
  NoSession = NoSession
CHECK_DEADLOCK FALSE
PROPERTIES SessionsEnd
