\* One connection, a space anchored in another, and transitions.
CONSTANTS
    TotalCapacity = 1
    CriticalCapacity = 1
    LatestCapacity = 0
    BestEffortCapacity = 0
    NoKey = NoKey
    NoParent = NoParent
    NoEntity = NoEntity
    Writers = {1}
    Listeners = {1}
    MaxConnections = 1
    MaxSubscriptions = 2
    MaxOwned = 2
    MaxSpaces = 2
    MaxSpaceHistory = 2
    MaxEntities = 2
    Channels = {}
    CriticalChannels = {}
    LatestChannels = {}
    StatefulChannels = {}
    DurableChannels = {}
    RelayChannels = {}
    MaxPayload = 1
    MaxStateEntries = 1
    MaxStateBytes = 1
    MaxSequenceKeys = 1
    MaxEmissions = 1
    JournalCapacity = 0
    SpaceIds = {x1, x2}
    MaxConnectionIds = 1
    MaxEntityIds = 2
    MaxEpoch = 2
    MaxSequence = 0
    Components = {}
    Sizes = {}
    MaxEmitted = 0
SPECIFICATION SessionSpec
INVARIANT AnchorsInParent
CHECK_DEADLOCK FALSE
