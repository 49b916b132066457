\* Three requests, sound or not, from either client, and what two others have for it.
CONSTANTS
    Limit = 3
    ClientEnvelopes <- AllEnvelopes
    MaxRequests = 3
    SnapshotSizes = {0, 4}
    PolicyMessages <- Emitted
    Places <- Elsewhere
    ProviderReplies <- Replies
    MaxNotices = 2
    WithCoordinator = TRUE
SPECIFICATION Spec
INVARIANTS
    FailsOnlyUnchecked
    AnswersArriveIntact
    HandshakeFirst
CHECK_DEADLOCK FALSE
