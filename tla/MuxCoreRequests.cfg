SPECIFICATION Spec
CONSTANTS
    c1 = c1
    c2 = c2
    c3 = c3
    p1 = p1
    p2 = p2
    r1 = r1
    r2 = r2
    s1 = s1
    s2 = s2
    a1 = a1
    a2 = a2
    a3 = a3
    none = none
    null = null
    None = none
    NullResult = null
    Conns = {c1, c2}
    Peers = {p1, p2}
    PeerOf <- PeerPerConn
    SkipReplay = {}
    ReqIds = {r1}
    Methods <- Routing
    Sessions = {}
    NewResults = {}
    LoadResults = {}
    Switches = {}
    AskIds = {a1, a2}
    Permissions = {a1, a2}
    Blocked = {}
    StrayIds = {}
    MaxAsks = 1
    MaxStdin = 2
    MaxBroadcasts = 1
INVARIANTS
    AnswersAreTheirOwn
    NoRequestForgotten
    OnePromptAtTheAgent
    OneReplyPerAsk
    OpenAsksAnswerable
    PermissionsAreOpen
PROPERTIES
    ImplementsMuxService
SYMMETRY AskSymmetry
CHECK_DEADLOCK FALSE
