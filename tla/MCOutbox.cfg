SPECIFICATION FairSpec
CONSTANTS
  n1 = n1
  n2 = n2
  Events = {e1}
  Notes = {n1, n2}
  Folding = {n2}
  Lists <- AnyOrder
  Senders = {w1, w2}
  MaxAttempts = 2
  Lease = 1
  Retention = 2
  NoClaim = NoClaim
  Idle = Idle
CHECK_DEADLOCK FALSE
INVARIANTS RepeatsBounded NobodySkipped OneSenderInTime
PROPERTIES StoredIsSettled ImplementsDelivery
