SPECIFICATION Spec
CONSTANTS
    c1 = c1
    c2 = c2
    c3 = c3
    p1 = p1
    p2 = p2
    r1 = r1
    r2 = r2
    s1 = s1
    s2 = s2
    a1 = a1
    a2 = a2
    a3 = a3
    none = none
    null = null
    None = none
    NullResult = null
    Conns = {c1, c2}
    Peers = {p1, p2}
    PeerOf <- PeerPerConn
    SkipReplay = {c2}
    ReqIds = {r1}
    Methods <- Opening
    Sessions = {s1, s2}
    NewResults = {s1, s2}
    LoadResults <- NullOnly
    Switches <- NoId
    AskIds = {}
    Permissions = {}
    Blocked = {}
    StrayIds = {}
    MaxAsks = 1
    MaxStdin = 2
    MaxBroadcasts = 2
INVARIANTS
    CachedSessionIsCanonical
    SubscribersSeeTheLog
SYMMETRY SessionSymmetry
CHECK_DEADLOCK FALSE
