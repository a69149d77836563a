SPECIFICATION FairSpec
CONSTANTS
    Requests = {r1, r2}
    Keys = {k1}
    ShardOf <- OneShard
    Threads = 1
    MaxSlots = 3
    MaxWorkers = 2
    IdleTimeout = 3
    Grace = 0
    MaxTime = 0
    MaxCrashes = 0
    MaxDirChanges = 1
    MaxShutdowns = 0
PROPERTIES RequestsAnswered StaleWorkerReplaced
