\* One server's stream: a frame in two pieces with a datagram between them.
CONSTANTS
    Lengths <- ShortFrames
    PrefixSize = 2
    Readers = {"quic server"}
SPECIFICATION Spec
INVARIANT Reliable
CHECK_DEADLOCK FALSE
