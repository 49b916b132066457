\* Three frames, cut anywhere; every reader, every place to drop a future.
CONSTANTS
    Lengths <- ShortFrames
    PrefixSize = 2
    Readers = {"quic server", "webtransport server", "quic client",
               "webtransport client", "browser"}
SPECIFICATION Spec
INVARIANTS
    Accounted
    InOrder
CHECK_DEADLOCK FALSE
