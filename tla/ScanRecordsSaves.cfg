SPECIFICATION CrossedSpec
CONSTANTS
    q1 = q1
    q2 = q2
    q3 = q3
    q4 = q4
    pA = pA
    pB = pB
    pC = pC
    Nobody = Nobody
    NoRow = NoRow
    Requests = {q1, q2, q3, q4}
    Photos = {pA, pB}
    Enhanced = {q3, q4}
    MaxPerUser = 1
    Correcting = {}
    Purging = FALSE
    MaxAge = 0
    MaxFaults = 0
PROPERTIES
    SavesEnd
    CapRestored
CHECK_DEADLOCK FALSE
