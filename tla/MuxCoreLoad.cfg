SPECIFICATION Spec
CONSTANTS
    c1 = c1
    c2 = c2
    c3 = c3
    p1 = p1
    p2 = p2
    r1 = r1
    r2 = r2
    s1 = s1
    s2 = s2
    a1 = a1
    a2 = a2
    a3 = a3
    none = none
    null = null
    None = none
    NullResult = null
    Conns = {c1, c2}
    Peers = {p1, p2}
    PeerOf <- PeerPerConn
    SkipReplay = {}
    ReqIds = {r1, r2}
    Methods <- Handshaking
    Sessions = {s1, s2}
    NewResults = {s1}
    LoadResults <- NoId
    Switches = {}
    AskIds = {}
    Permissions = {}
    Blocked = {}
    StrayIds = {}
    MaxAsks = 1
    MaxStdin = 3
    MaxBroadcasts = 0
INVARIANTS
    CachedSessionIsCanonical
CHECK_DEADLOCK FALSE
