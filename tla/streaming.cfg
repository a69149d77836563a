SPECIFICATION FairSpec
CONSTANTS
    s1 = s1
    s2 = s2
    Streams = {s1, s2}
    Mixes <- PairMixes
    Chunks <- Lengths
    Inflight = 2
    PoolSize = 3
    MaxFaults = 1
    MaxRingFaults = 1
INVARIANTS
    AckMeansWritten
    ReceivesItsData
    BuffersOwned
PROPERTIES
    StreamsFinish
CONSTRAINT RingOrFault
CHECK_DEADLOCK FALSE
