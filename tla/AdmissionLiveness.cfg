\* Two leases and one ticket under two resizes; clients may vanish at any point
\* and only time and the polls of others remain.
CONSTANTS
    QueueEnabled = TRUE
    MaxDepth = 2
    TicketTtl = 2
    OfferTtl = 1
    HeartbeatTimeout = 1
    ReconnectGrace = 1
    NoTarget = NoTarget
    NoKey = NoKey
    Principals = {p1, p2}
    Keys = {k1}
    Allocations = {0, 1, 2}
    MaxTickets = 1
    MaxLeases = 2
    MaxRevision = 3
SPECIFICATION FairSpec
PROPERTIES
    PromisesEnd
    TargetApplied
CHECK_DEADLOCK FALSE
