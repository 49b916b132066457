\* The graph of spaces and entities without traffic: chains of anchored spaces
\* two deep, anchors that move, owners that vanish.
CONSTANTS
    TotalCapacity = 1
    CriticalCapacity = 1
    LatestCapacity = 0
    BestEffortCapacity = 0
    NoKey = NoKey
    NoParent = NoParent
    NoEntity = NoEntity
    Writers = {1, 2}
    Listeners = {1, 2}
    MaxConnections = 2
    MaxSubscriptions = 2
    MaxOwned = 2
    MaxSpaces = 3
    MaxSpaceHistory = 3
    MaxEntities = 2
    Channels = {}
    CriticalChannels = {}
    LatestChannels = {}
    StatefulChannels = {}
    DurableChannels = {}
    RelayChannels = {}
    MaxPayload = 1
    MaxStateEntries = 1
    MaxStateBytes = 1
    MaxSequenceKeys = 1
    MaxEmissions = 1
    JournalCapacity = 0
    SpaceIds = {x1, x2, x3}
    MaxConnectionIds = 2
    MaxEntityIds = 2
    MaxEpoch = 2
    MaxSequence = 0
    Components = {}
    Sizes = {}
    MaxEmitted = 0
SPECIFICATION SessionSpec
INVARIANTS
    ViewsAgree
    NothingDangles
PROPERTY EpochsAdvance
SYMMETRY SpaceSymmetry
CHECK_DEADLOCK FALSE
