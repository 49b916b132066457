\* A writer gives up over what nobody held to the rules of the wire: here a listing
\* larger than a payload, asked for by the client that is cut off for it.
CONSTANTS
    Limit = 3
    ClientEnvelopes <- AllEnvelopes
    MaxRequests = 3
    SnapshotSizes = {0, 4}
    PolicyMessages <- Emitted
    Places <- Elsewhere
    ProviderReplies <- Replies
    MaxNotices = 2
    WithCoordinator = TRUE
SPECIFICATION Spec
INVARIANTS
    WriterNeverFails
CHECK_DEADLOCK FALSE
