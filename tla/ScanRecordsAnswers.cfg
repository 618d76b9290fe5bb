SPECIFICATION Spec
CONSTANTS
    q1 = q1
    q2 = q2
    q3 = q3
    q4 = q4
    pA = pA
    pB = pB
    pC = pC
    Nobody = Nobody
    NoRow = NoRow
    Requests = {q1, q2, q3}
    Photos = {pA}
    Enhanced = {q3}
    MaxPerUser = 1
    Correcting = {q1, q2, q3}
    Purging = TRUE
    MaxAge = 2
    MaxFaults = 1
INVARIANTS
    EnrichmentFits
    CountedOnce
SYMMETRY Symmetry
CHECK_DEADLOCK FALSE
