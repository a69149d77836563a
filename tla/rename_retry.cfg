SPECIFICATION Spec
CONSTANTS
    r1 = r1
    r2 = r2
    r3 = r3
    t1 = t1
    t2 = t2
    Requests = {r1, r2, r3}
    Tokens = {t1, t2}
    MaxName = 2
    Operations <- ThreeOperations
    MaxEntries = 1
    Ttl = 1
    MaxTime = 1
    MaxFaults = 1
    MaxForeign = 1
SYMMETRY RequestSymmetry
INVARIANTS
    ReplaySound
    RenamedOnce
PROPERTIES
    NoReplaceSafe
CHECK_DEADLOCK FALSE
