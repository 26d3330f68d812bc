CONSTANTS
    Time       <- MCTime
    Confidence <- MCConfidence
    Epsilon    = 1
    Outcomes <- MCOutcomes
    Vectors  <- MCVectors
    Transactional = TRUE
    Predicate     = {p1, p2}
    Seeds         = 2
    Corpus        = 3

SPECIFICATION JudgingSpec

CHECK_DEADLOCK FALSE

INVARIANTS
    FailuresContained
    QuarantineGrounded
    ThresholdsFit
    EvaluationSound
    NoComeback
