\* One owner on a durable RelayOwned channel, moving between two spaces.
CONSTANTS
    TotalCapacity = 1
    CriticalCapacity = 1
    LatestCapacity = 0
    BestEffortCapacity = 1
    NoKey = NoKey
    NoParent = NoParent
    NoEntity = NoEntity
    Writers = {1}
    Listeners = {1}
    MaxConnections = 1
    MaxSubscriptions = 2
    MaxOwned = 2
    MaxSpaces = 2
    MaxSpaceHistory = 2
    MaxEntities = 2
    Channels = {"moves"}
    CriticalChannels = {}
    LatestChannels = {}
    StatefulChannels = {}
    DurableChannels = {"moves"}
    RelayChannels = {"moves"}
    MaxPayload = 1
    MaxStateEntries = 1
    MaxStateBytes = 1
    MaxSequenceKeys = 1
    MaxEmissions = 1
    JournalCapacity = 2
    SpaceIds = {x1, x2}
    MaxConnectionIds = 1
    MaxEntityIds = 1
    MaxEpoch = 2
    MaxSequence = 2
    Components = {}
    Sizes = {1}
    MaxEmitted = 0
SPECIFICATION SessionSpec
INVARIANT JournalMovesForward
CHECK_DEADLOCK FALSE
