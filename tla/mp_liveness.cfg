SPECIFICATION FairSpec
CONSTANTS
    r1 = r1
    r2 = r2
    r3 = r3
    r4 = r4
    Requests = {r1, r2, r3, r4}
    MaxPart = 2
    Lens = {1}
    Lists = {2}
    NoReplace = {TRUE}
    Kinds = {"copy", "complete", "abort"}
    SameFs = {TRUE, FALSE}
    Threads = 2
    MaxFaults = 1
    MaxForeign = 1
CONSTRAINT InRoles
PROPERTIES
    RequestsAnswered
    NoReplaceRespected
CHECK_DEADLOCK FALSE
