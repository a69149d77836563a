SPECIFICATION Spec
CONSTANTS
    k1 = k1
    k2 = k2
    d1 = d1
    r1 = r1
    r2 = r2
    Turn <- InOrder
    Root = Root
    Requests = {r1, r2}
    Keys = {k1, k2}
    Dirs = {d1}
    Up <- Tree
    InitFiles <- Lengths
    InitDirs = {d1}
    Calls <- AllCalls
    Builds = {TRUE, FALSE}
    CopyMax = 2
    Threads = 2
    Second = 2
    MaxTime = 2
    MaxFaults = 1
INVARIANTS
    UndisturbedWriteExact
    UndisturbedReadExact
    AppendsSerialized
    RefusedLeavesNoTrace
