\* Allocations grow, shrink and pause; two principals compete for the slots
\* and share the keys; every timeout can strike.
CONSTANTS
    QueueEnabled = TRUE
    MaxDepth = 2
    TicketTtl = 2
    OfferTtl = 1
    HeartbeatTimeout = 1
    ReconnectGrace = 1
    NoTarget = NoTarget
    NoKey = NoKey
    Principals = {p1, p2}
    Keys = {k1, k2}
    Allocations = {0, 1, 2}
    MaxTickets = 3
    MaxLeases = 2
    MaxRevision = 3
SPECIFICATION Spec
INVARIANTS
    WithinAllocation
    WorkConserving
    QueueViewsAgree
    FirstComeFirstServed
    OnePlacePerPrincipal
    SlotCountedOnce
PROPERTIES
    PromisesKept
    ReleasedForGood
    DrainsToTarget
SYMMETRY JoinSymmetry
CHECK_DEADLOCK FALSE
