CONSTANTS
    Belief      = {b1, b2, b3}
    Key         = {k1}
    MultiValued = {}
    NoBelief    = NoBelief
    NoFact      = NoFact
    Time       <- TwoTimes
    Confidence <- MCConfidence
    Epsilon     = 1
    MaxCascades = 1

SPECIFICATION ContainmentSafety

INVARIANT CascadeCompletes
CONSTRAINT NoReviews
SYMMETRY BeliefSymmetry

CHECK_DEADLOCK FALSE
