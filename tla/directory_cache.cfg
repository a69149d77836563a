SPECIFICATION Spec
CONSTANTS
    l1 = l1
    l2 = l2
    l3 = l3
    l4 = l4
    k1 = k1
    k2 = k2
    Lookups = {l1, l2, l3, l4}
    Keys = {k1, k2}
    MaxValue = 1
    PositiveTtl = 2
    NegativeTtl = 1
    Cap = 1
    ReplyTime = 1
    MaxTime = 3
    MaxChanges = 1
SYMMETRY LookupSymmetry
INVARIANTS
    SingleFlight
    NoRedundantFetch
PROPERTIES
    AnswersFresh
CHECK_DEADLOCK FALSE
