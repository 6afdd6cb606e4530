CONSTANTS
    MaxBytes = 4
    PBufSize = 2
    PartialWrites = TRUE
SPECIFICATION Spec
INVARIANT ReceivedIsPrefix
