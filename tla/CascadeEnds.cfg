CONSTANTS
    Belief      = {b1, b2}
    Key         = {k1}
    MultiValued = {k1}
    NoBelief    = NoBelief
    NoFact      = NoFact
    Time       <- MCTime
    Confidence <- MCConfidence
    Epsilon     = 1
    MaxCascades = 1

SPECIFICATION ContainmentSpec

PROPERTY CascadeEnds

CHECK_DEADLOCK FALSE
