SPECIFICATION FairSpec
CONSTANTS
    u1 = u1
    u2 = u2
    r1 = r1
    r2 = r2
    r3 = r3
    NoRequest = NoRequest
    Users = {u1}
    Requests = {r1, r2, r3}
    userOf <- OneUser
    Premium = {u1}
    Enhanced = {r1, r2, r3}
    DailyLimit <- Three
    NoMatchCeiling <- One
    GlobalLimit = 5
    Ceiling = 4
    Est = 2
    Costs <- OnePrice
    Timeout = 1
    Grace = 1
    ZeroThreshold = 2
    ThrottleOn = TRUE
    Replies <- ZeroReplies
    MaxFaults = 1
INVARIANTS
    OneWarningPerWindow
PROPERTIES
    RequestsEnd
CHECK_DEADLOCK FALSE
