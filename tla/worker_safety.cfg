SPECIFICATION Spec
CONSTANTS
    Requests = {r1, r2}
    Keys = {k1}
    ShardOf <- OneShard
    Threads = 1
    MaxSlots = 3
    MaxWorkers = 2
    IdleTimeout = 1
    Grace = 1
    MaxTime = 1
    MaxCrashes = 1
    MaxDirChanges = 1
    MaxShutdowns = 1
CHECK_DEADLOCK FALSE
SYMMETRY RequestSymmetry
CONSTRAINT CrashOrShutdown
INVARIANTS SingleFlight OneWorkerPerKey RetiredNotRouted BlockedOnlyBySweep
PROPERTIES GraceRespected FreshWorkerNotSwept
