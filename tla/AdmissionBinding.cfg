\* Two principals over three connections, so that one has two at a time and
\* one comes back; the allocation shrinks below what is held and grows again.
CONSTANTS
    QueueEnabled = TRUE
    MaxDepth = 1
    TicketTtl = 1
    OfferTtl = 1
    HeartbeatTimeout = 1
    ReconnectGrace = 1
    NoTarget = NoTarget
    NoKey = NoKey
    Connections = {c1, c2, c3}
    Principals = {p1, p2}
    Keys = {k1, k2}
    Allocations = {0, 1, 2}
    MaxConnections = 2
    MaxTickets = 2
    MaxLeases = 3
    MaxRevision = 3
    Absent = Absent
    Anonymous = Anonymous
    Gone = Gone
SPECIFICATION CoreSpec
INVARIANTS
    HeldLeasesInUse
    MembersWithinAllocation
    LeasesAccountedFor
SYMMETRY CoreSymmetry
CHECK_DEADLOCK FALSE
