SPECIFICATION Spec
CONSTANTS
    u1 = u1
    u2 = u2
    r1 = r1
    r2 = r2
    r3 = r3
    NoRequest = NoRequest
    Users = {u1}
    Requests = {r1, r2}
    userOf <- OneUser
    Premium = {}
    Enhanced = {}
    DailyLimit <- Two
    NoMatchCeiling <- One
    GlobalLimit = 5
    Ceiling = 4
    Est = 2
    Costs <- Prices
    Timeout = 1
    Grace = 1
    ZeroThreshold = 1
    ThrottleOn = TRUE
    Replies <- AllReplies
    MaxFaults = 3
INVARIANTS
    OneCallPerUser
    UnitsExact
    SettledExact
SYMMETRY RequestSymmetry
CHECK_DEADLOCK FALSE
