CONSTANTS
    Belief      = {b1, b2, b3, b4}
    Old         = b1
    Key         = {k1}
    MultiValued = {k1}
    NoBelief    = NoBelief
    NoFact      = NoFact
    Time       <- MCTime
    Confidence <- MCConfidence
    Epsilon     = 0
    w1 = w1  w2 = w2
    Writer     <- MCWriter
    MaxBeliefs <- MCMaxBeliefs
    Quota       = 1
    Throttle    = 1
    MaxDerived  = 2
    MaxInferences = 1
    Limit       = 1
    Nearest     = 2
    MaxRecalls  = 2

SPECIFICATION IntakeSpec

CHECK_DEADLOCK FALSE

INVARIANTS
    Overshoot
    NoSilentLoss
    InfluenceVetted
    OneUnlogged

PROPERTIES
    CrowdedOut
    ThrottledForGood
