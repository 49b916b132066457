\* Owners that publish latest state and reliable events about what they own into
\* each other's queues, with room for a single critical message, while spaces are
\* left, transitioned, advanced and removed.
CONSTANTS
    TotalCapacity = 2
    CriticalCapacity = 1
    LatestCapacity = 1
    BestEffortCapacity = 0
    NoKey = NoKey
    NoParent = NoParent
    NoEntity = NoEntity
    Writers = {1, 2}
    Listeners = {1, 2}
    MaxConnections = 2
    MaxSubscriptions = 2
    MaxOwned = 1
    MaxSpaces = 2
    MaxSpaceHistory = 2
    MaxEntities = 1
    Channels = {"events", "moves"}
    CriticalChannels = {"events"}
    LatestChannels = {"moves"}
    StatefulChannels = {"moves"}
    DurableChannels = {}
    RelayChannels = {"events", "moves"}
    MaxPayload = 1
    MaxStateEntries = 1
    MaxStateBytes = 1
    MaxSequenceKeys = 2
    MaxEmissions = 1
    JournalCapacity = 0
    SpaceIds = {x1, x2}
    MaxConnectionIds = 2
    MaxEntityIds = 2
    MaxEpoch = 2
    MaxSequence = 2
    Components = {1}
    Sizes = {1}
    MaxEmitted = 0
SPECIFICATION SessionSpec
INVARIANTS
    QueuedInScope
    StoredInScope
SYMMETRY SpaceSymmetry
CHECK_DEADLOCK FALSE
