SPECIFICATION FairSpec
CONSTANTS
    c1 = c1
    c2 = c2
    c3 = c3
    p1 = p1
    p2 = p2
    r1 = r1
    r2 = r2
    s1 = s1
    s2 = s2
    a1 = a1
    a2 = a2
    a3 = a3
    none = none
    null = null
    None = none
    NullResult = null
    Conns = {c1, c2, c3}
    Peers = {p1, p2}
    PeerOf <- PeerReusedOf3
    SkipReplay = {}
    ReqIds = {r1}
    Methods <- Leaving
    Sessions = {}
    NewResults = {}
    LoadResults = {}
    Switches = {}
    AskIds = {a1, a2}
    Permissions = {}
    Blocked = {a2}
    StrayIds = {a3}
    MaxAsks = 1
    MaxStdin = 1
    MaxBroadcasts = 0
PROPERTIES
    NobodyLeftBehind
CHECK_DEADLOCK FALSE
