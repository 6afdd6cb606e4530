\* write_stall: a framed kernel left unflushed when an In event disarms Out.
CONSTANTS
    Kernel = {"k1", "k2", "k3"}
    Payload <- MC_Payload
    ByteBase = 4
    HdrSize = 2
    PeerTraffic = TRUE
SPECIFICATION Spec
PROPERTY SentIsReceived
\* Once every kernel is sent and read, nothing is left to do.
CHECK_DEADLOCK FALSE
