SPECIFICATION Spec
CONSTANTS
    r1 = r1
    r2 = r2
    r3 = r3
    r4 = r4
    Requests = {r1, r2, r3, r4}
    MaxPart = 2
    Lens = {1, 2}
    Lists = {0, 2}
    NoReplace = {FALSE}
    Kinds = {"put", "complete"}
    SameFs = {TRUE}
    Threads = 2
    MaxFaults = 1
    MaxForeign = 0
CONSTRAINT TwoAtATime
SYMMETRY RequestSymmetry
INVARIANTS
    AckedPartsListed
    
    DirectDisjoint
    
CHECK_DEADLOCK FALSE
