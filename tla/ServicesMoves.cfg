SPECIFICATION PartsSpec
CONSTANTS
  None = None
  Failed = Failed
  Bad = Bad
  Valid <- MCValid
  Ten <- MCTen
  Candidates = {1, 2, 3}
  Readings <- MCReadings
  Records <- MCRecords
  Limit = 2
  c1 = c1
  c2 = c2
  o1 = o1
  o2 = o2
  Calls = {c1, c2}
  Operators = {o1, o2}
  Tables <- MCTables
  Allowed <- MCAllowed
  DefaultModel <- MCDefaultModel
  Amounts = {1, 2}
  Default <- MCDefault
  Ttl = 1
  MaxStale = 2
  MaxSeconds = 2
  MaxWrites = 2
  Dials = {"model"}
  Cost <- MCCost
  Ceiling = 3
  Pcts = {60}
  Jobs = {o1, o2}
  Steps <- MCSteps
  RawDays = 0
  DailyDays = 1
  SpendDays = 0
  BatchSize = 1
  MaxBatches = 2
  Attempts = 2
  Settles = 2
  MaxDay = 1
  Requests = {c1, c2}
  Books = {"b"}
  MaxBooks = 1
  Models = {"gpt", "claude"}
  Provider <- MCProvider
  Price <- MCPrice
  Files <- MCFiles
  Proofs <- MCProofs
  Replying <- MCReplying
  Tokens = {0, 1}
  MaxBytes = 1
  MaxPixels = 1
  RequestCap = 2
  Slots = 1
  Estimate = 3
  Timeout = 2
  Grace = 2
  MaxRetries = 2
  Delays = {1}
  TurnstileRequired = TRUE
  AttestationRequired = FALSE
  NonceTtl = 1
  MaxTime = 4
  MaxSwitches = 1
CHECK_DEADLOCK FALSE
INVARIANTS
  NeverAnotherBook
  ShownAgrees
  TakesEffectInTime
  PairAnswered
  RowsCountOnce
  AlertsOnce
  CrossedIsClaimed
  
  SpendFollowsTheBill
  LeaseOutlivesCall
SYMMETRY Symmetry
