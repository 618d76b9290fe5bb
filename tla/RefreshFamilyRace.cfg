SPECIFICATION Spec
CONSTANTS
    q1 = q1
    q2 = q2
    q3 = q3
    q4 = q4
    q5 = q5
    t1 = t1
    t2 = t2
    t3 = t3
    t4 = t4
    t5 = t5
    NoToken = NoToken
    Requests = {q1, q2, q3, q4}
    Tokens = {t1, t2, t3, t4, t5}
    Legacy = {t1}
INVARIANTS
    OneLivePerFamily
    TwinsKeepTheSession
PROPERTIES
    KeepsPromise
SYMMETRY Symmetry
CHECK_DEADLOCK FALSE
