SPECIFICATION Spec
CONSTANTS
    u1 = u1
    u2 = u2
    r1 = r1
    r2 = r2
    r3 = r3
    NoRequest = NoRequest
    Users = {u1, u2}
    Requests = {r1, r2, r3}
    userOf <- TwoUsers
    Premium = {u2}
    Enhanced = {}
    DailyLimit <- One
    NoMatchCeiling <- Zero
    GlobalLimit = 3
    Ceiling = 3
    Est = 2
    Costs <- Prices
    Timeout = 1
    Grace = 1
    ZeroThreshold = 1
    ThrottleOn = TRUE
    Replies <- FewReplies
    MaxFaults = 1
INVARIANTS
    AnswersBounded
CHECK_DEADLOCK FALSE
