\* Critical messages alone can fill the queue, the other classes cannot, so
\* a push at total capacity finds a latest value, a best-effort message or
\* nothing to evict.
CONSTANTS
    TotalCapacity = 3
    CriticalCapacity = 3
    LatestCapacity = 2
    BestEffortCapacity = 1
    NoKey = NoKey
    Scopes = {s1, s2}
    Keys = {k1, k2}
    MaxPushes = 5
SPECIFICATION Spec
INVARIANTS
    TypeOK
    Bounded
    LatestSynchronised
    PendingIsNewest
PROPERTIES
    OldestGivesWay
    PromiseSpec
CHECK_DEADLOCK FALSE
