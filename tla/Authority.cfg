\* A policy of the deployment that accepts, transforms or replaces a request by
\* up to two messages, on a durable reliable and a stateful latest-value channel.
CONSTANTS
    TotalCapacity = 2
    CriticalCapacity = 1
    LatestCapacity = 1
    BestEffortCapacity = 0
    NoKey = NoKey
    NoParent = NoParent
    NoEntity = NoEntity
    Writers = {1, 2}
    Listeners = {2}
    MaxConnections = 2
    MaxSubscriptions = 2
    MaxOwned = 1
    MaxSpaces = 1
    MaxSpaceHistory = 1
    MaxEntities = 1
    Channels = {"events", "moves"}
    CriticalChannels = {"events"}
    LatestChannels = {"moves"}
    StatefulChannels = {"moves"}
    DurableChannels = {"events"}
    RelayChannels = {}
    MaxPayload = 1
    MaxStateEntries = 1
    MaxStateBytes = 2
    MaxSequenceKeys = 2
    MaxEmissions = 2
    JournalCapacity = 2
    SpaceIds = {x1}
    MaxConnectionIds = 2
    MaxEntityIds = 0
    MaxEpoch = 1
    MaxSequence = 2
    Components = {1}
    Sizes = {1}
    MaxEmitted = 2
SPECIFICATION SessionSpec
INVARIANT StoredInScope
PROPERTY JournaledOnce
CHECK_DEADLOCK FALSE
