CONSTANTS
    Belief      = {b1, b2, b3}
    Key         = {k1}
    MultiValued = {k1}
    NoBelief    = NoBelief
    NoFact      = NoFact
    NoView      = NoView
    Time       <- MCTime
    Confidence <- MCConfidence
    Epsilon     = 1
    Poller      = {p1, p2}
    BatchSize   = 2
    Stuck       = {b1}
    Unreliable  = TRUE

SPECIFICATION ScreeningSpec

PROPERTIES
    ImplementsStore
    OldestFirst
    FetchedIsScreened

CHECK_DEADLOCK FALSE
