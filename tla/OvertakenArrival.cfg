\* Two connections on one space, and notifications handled in tasks of their
\* own: the arrival of an entity is announced after its departure.
CONSTANTS
    Connections = {1, 2}
    Spaces = {x1}
    Gone = Gone
    WriteCapacity = 2
    CriticalCapacity = 3
    MaxTasks = 2
    Actors = {1}
    Frail = {2}
    MaxEntities = 2
    MaxMoves = 1
SPECIFICATION LifecycleSpec
CHECK_DEADLOCK FALSE
INVARIANT NoGhosts
