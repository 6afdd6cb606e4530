\* framing: legacy socket framing end to end, with the peer also sending.
CONSTANTS
    Kernel = {"k1", "k2", "k3"}
    Payload <- MC_Payload
    ByteBase = 4
    HdrSize = 2
    PeerTraffic = TRUE
SPECIFICATION Spec
INVARIANT PeerReceivesSent
PROPERTY WrittenIsReceived
\* Once every kernel is sent and read, nothing is left to do.
CHECK_DEADLOCK FALSE
