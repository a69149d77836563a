SPECIFICATION Spec
CONSTANTS
    u1 = u1
    u2 = u2
    s1 = s1
    b1 = b1
    b2 = b2
    ip1 = ip1
    Requests = {r1, r2}
    Users = {u1, u2}
    Sids = {s1, s2}
    Buckets = {b1, b2}
    Ips = {ip1}
    Loopback = Loopback
    Ports = {p1}
    InitGrants <- Granted
    Calls <- AllCalls
    PerIp = 1
    MaxActive = 1
    SessionTtl = 1
    MaxWorkers = 2
    MaxChanges = 1
    MaxTime = 1
    NoKey = NoKey
    NoBucket = NoBucket
    NoUser = NoUser
    NoPort = NoPort
SYMMETRY RequestSymmetry
INVARIANTS
    SlotsExact
    PerformedAsOwner
    SessionScope
PROPERTIES
    Admitted
CHECK_DEADLOCK FALSE
