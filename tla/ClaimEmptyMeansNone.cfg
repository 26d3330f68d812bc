CONSTANTS
    Reviewer    = {r1, r2, r3}
    Row         = {q1}
    Occurrence  = {e1, e2}
    Second      = 2
    MaxTime     = 4
    MaxRestarts = 1
    Backup      = {k1, k2}
    MaxMoment   = 2
    Role        = {role}
    Fixture     = {check}
    Index       = {index1, index2}
    TTL         = {ttl}
    t1 = t1  t2 = t2
    Tenants    <- MCTenants
    Amount      = {0, 1, 3, 5, 10, 15}
    Window      = 24
    Baseline    = 168
    BurstSize   = 3
    MinContradictions = 5
    MinCluster  = 5

SPECIFICATION OversightSpec

CHECK_DEADLOCK FALSE

INVARIANT
    EmptyMeansNone
