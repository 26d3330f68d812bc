CONSTANTS
    Belief      = {b1, b2, b3}
    Key         = {k1}
    MultiValued = {k1}
    NoBelief    = NoBelief
    NoFact      = NoFact
    Time       <- MCTime
    Confidence <- MCConfidence
    Epsilon     = 1
    MaxCascades = 1

SPECIFICATION ContainmentSafety

INVARIANTS
    StillAdmitted
    SearchComplete
    Contained

SYMMETRY BeliefSymmetry

CHECK_DEADLOCK FALSE
