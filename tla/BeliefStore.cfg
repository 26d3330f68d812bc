CONSTANTS
    Belief      = {b1, b2, b3}
    Key         = {k1, k2}
    MultiValued = {k2}
    NoBelief    = NoBelief
    NoFact      = NoFact
    Time       <- MCTime
    Confidence <- MCConfidence
    Epsilon     = 1

SPECIFICATION Spec
SYMMETRY BeliefSymmetry

INVARIANTS
    TypeOK
    Lifecycle
    Vetted
    ReviewQueueExact
    SupersessionExplained

PROPERTIES
    RecordsKept
    ImplementsBoundary

CHECK_DEADLOCK FALSE
