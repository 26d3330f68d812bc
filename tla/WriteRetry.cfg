CONSTANTS
    b1 = b1
    b2 = b2
    b3 = b3
    ingest = ingest
    correction = correction
    Belief      = {b1, b2, b3}
    Writer      = {ingest, correction}
    Corrector   = {correction}
    Batch      <- MCBatch
    Time       <- MCTime
    Confidence <- MCConfidence
    Key         = {k1}
    MultiValued = {}
    NoBelief    = NoBelief
    NoFact      = NoFact
    Epsilon     = 1
    MaxAttempts = 3

SPECIFICATION RetrySpec

INVARIANTS
    AnswersHonest

PROPERTIES
    ImplementsStore
    EveryCallAnswers

CHECK_DEADLOCK FALSE
