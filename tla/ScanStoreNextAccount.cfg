SPECIFICATION Spec
CONSTANTS
  p1 = p1
  p2 = p2
  a = a
  b = b
  Photos = {p1, p2}
  Accounts = {a, b}
  Nobody = Nobody
  MaxQueue = 1
  Retention = 0
  MaxWrites = 2
  MaxFaults = 1
  MaxLaunches = 2
  MaxTime = 1
CHECK_DEADLOCK FALSE
SYMMETRY Symmetry
INVARIANTS
  OwnQueueOnly
