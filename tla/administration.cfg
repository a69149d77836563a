SPECIFICATION Spec
CONSTANTS
    u1 = u1
    g1 = g1
    b1 = b1
    b2 = b2
    Admins = {a1, a2}
    Users = {u1}
    Groups = {g1}
    GroupsOf <- InGroup
    Buckets = {b1, b2}
    Commands <- AllCommands
    InitBuckets <- Start1
    Caller = u1
    MaxCommands = 3
    MaxFaults = 1
SYMMETRY AdminSymmetry
INVARIANTS
    StaleIndexGrantsNothing
    SteadyGrantsVisible
    CleanupComplete
CHECK_DEADLOCK FALSE
