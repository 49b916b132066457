\* A connection asks for admission twice and is lost.
CONSTANTS
    QueueEnabled = TRUE
    MaxDepth = 1
    TicketTtl = 1
    OfferTtl = 1
    HeartbeatTimeout = 1
    ReconnectGrace = 1
    NoTarget = NoTarget
    NoKey = NoKey
    Connections = {c1, c2, c3}
    Principals = {p1, p2}
    Keys = {k1, k2}
    Allocations = {0, 1, 2}
    MaxConnections = 2
    MaxTickets = 1
    MaxLeases = 3
    MaxRevision = 3
    Absent = Absent
    Anonymous = Anonymous
    Gone = Gone
SPECIFICATION CoreSpec
INVARIANT
    LossReleasesLeases
CHECK_DEADLOCK FALSE
