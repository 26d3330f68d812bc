CONSTANTS
    Belief      = {b1, b2}
    Key         = {k1}
    MultiValued = {k1}
    NoBelief    = NoBelief
    NoFact      = NoFact
    NoView      = NoView
    Time       <- MCTime
    Confidence <- MCConfidence
    Epsilon     = 1
    Poller      = {p1}
    BatchSize   = 2
    Stuck       = {}
    Unreliable  = FALSE

SPECIFICATION ScreeningSpec

PROPERTY PollerScreens

CHECK_DEADLOCK FALSE
