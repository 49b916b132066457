\* Room for one critical message only, and two connections on one space: the
\* core cuts off the one that reads too slowly, and its connection stays open.
CONSTANTS
    Connections = {1, 2}
    Spaces = {x1}
    Gone = Gone
    WriteCapacity = 2
    CriticalCapacity = 1
    MaxTasks = 2
    Actors = {1}
    Frail = {2}
    MaxEntities = 2
    MaxMoves = 1
SPECIFICATION LifecycleFairSpec
CHECK_DEADLOCK FALSE
PROPERTY ClosedInTheEnd
