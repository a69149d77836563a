SPECIFICATION FairSpec
CONSTANTS
    na = na
    nam = nam
    nmpu = nmpu
    Names = {na, nam, nmpu}
    FileRank <- ByteFileRank
    DirRank <- ByteDirRank
    MpuDir = nmpu
    InitFiles <- TreeFiles
    InitDirs <- TreeDirs
    Calls <- AllCalls
    MaxChanges = 2
    MaxFaults = 1
INVARIANTS
    StableKeysListed
PROPERTIES
    ListedInOrder
    ListingEnds
CHECK_DEADLOCK FALSE
