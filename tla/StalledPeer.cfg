\* A peer that stays connected and stops reading: the writer never gets its
\* envelope out, the reader waits for the writer, and nobody closes.
CONSTANTS
    Connections = {1, 2}
    Spaces = {x1}
    Gone = Gone
    WriteCapacity = 2
    CriticalCapacity = 3
    MaxTasks = 2
    Actors = {1}
    Frail = {2}
    MaxEntities = 2
    MaxMoves = 1
SPECIFICATION LifecycleFairSpec
CHECK_DEADLOCK FALSE
PROPERTY ClosedWhoeverReads
