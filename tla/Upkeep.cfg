CONSTANTS
    b1 = b1  b2 = b2  b3 = b3  b4 = b4  b5 = b5
    Belief       <- MCBelief
    Old          <- MCOld
    Key           = {k1}
    MultiValued   = {}
    NoBelief      = NoBelief
    NoFact        = NoFact
    Time         <- MCTime
    Confidence   <- MCConfidence
    Epsilon       = 0
    Text          = {x, y}
    MaxHeld       = 1
    MaxPasses     = 1
    MaxChainDepth = 2
    Window        = 1
    Day           = 2
    Raised       = Raised

SPECIFICATION AuditSpec
SYMMETRY TextSymmetry

CHECK_DEADLOCK FALSE

INVARIANTS
    UpkeepTypeOK
    QuarantineBoundary
    SupersessionJustified
    PastReconstructed
    AnswersTrue

PROPERTIES
    SupersededIsFinal
