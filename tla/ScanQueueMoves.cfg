SPECIFICATION FairSpec
CONSTANTS
    p1 = p1
    p2 = p2
    p3 = p3
    h1 = h1
    h2 = h2
    NoPhoto = NoPhoto
    Photos = {p1, p2}
    Hands = {h1, h2}
    MaxAttempts = 2
    MaxBusy = 1
    MaxPasses = 2
    Drops = TRUE
    Relaunches = TRUE
    StaleBanners = FALSE
INVARIANTS
    OneRunPerPhoto
    BooksNotStranded
PROPERTIES
    LateAnswersDropped
    NothingPostedSignedOut
    QueueMoves
CHECK_DEADLOCK FALSE
