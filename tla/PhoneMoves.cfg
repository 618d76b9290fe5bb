SPECIFICATION PartsSpec
CONSTANTS
  p1 = p1
  p2 = p2
  a = a
  b = b
  q1 = q1
  q2 = q2
  Photos = {p1, p2}
  Accounts = {a, b}
  Nobody = Nobody
  MaxQueue = 1
  Retention = 0
  MaxWrites = 1
  MaxFaults = 1
  MaxMishaps = 1
  MaxLaunches = 2
  MaxTime = 1
  MaxSession = 2
  MaxVersion = 1
  MaxInstalls = 2
  Calls = {"me", "c"}
  None = None
  SignIns = {q1, q2}
  Claims <- MCClaims
  Lower <- MCLower
  OldUsers <- MCOldUsers
  Allowlist = {"a"}
  Ttls = {2}
  Interval = 2
  MaxStale = 1
  MaxKid = 2
  MaxSeconds = 5
CHECK_DEADLOCK FALSE
INVARIANTS
  JobsHaveTheirPhotos
  QueuesStayApart
  SignedOutIsEmpty
  SignedInHoldsItsTokens
PROPERTIES
  OldInstallNeverSpeaks
  ConflictIsReal
  FetchesApart
SYMMETRY Symmetry
CONSTRAINTS
  OneEnded
  OneRotation
