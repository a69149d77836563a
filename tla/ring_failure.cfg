SPECIFICATION Spec
CONSTANTS
    s1 = s1
    s2 = s2
    Streams = {s1}
    Mixes <- UploadOnly
    Chunks <- Lengths
    Inflight = 2
    PoolSize = 2
    MaxFaults = 0
    MaxRingFaults = 1
INVARIANTS
    AckedBodyWritten
CHECK_DEADLOCK FALSE
