\* Two connections on one space: one publishes, moves and leaves, the other's
\* peer vanishes or misbehaves; either may read too slowly.
CONSTANTS
    Connections = {1, 2}
    Spaces = {x1}
    Gone = Gone
    WriteCapacity = 2
    CriticalCapacity = 1
    MaxTasks = 2
    Actors = {1}
    Frail = {2}
    MaxEntities = 2
    MaxMoves = 1
SPECIFICATION LifecycleFairSpec
INVARIANTS
    MirrorsAgree
    ArrivalsAnnounced
    DeparturesAnnounced
PROPERTY ClosedUnlessCutOff
CHECK_DEADLOCK FALSE
