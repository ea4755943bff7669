SPECIFICATION MCSpec
CONSTANTS
    c1 = c1
    c2 = c2
    p1 = p1
    p2 = p2
    m1 = m1
    Conns = {c1, c2}
    Peers = {p1, p2}
    PeerChoices <- SameOrDistinct
    MuxIds = {m1}
    Actors = {1, 2}
    MUX_QUEUE_CAPACITY = 1
    STDOUT_CAPACITY = 1
    PIPE_CAPACITY = 1
    ReadsWhileWriting = TRUE
    MaxLines = 2
    ListStdout = 2
INVARIANTS
    TypesOK
    
    RegistryPointsToTheLiving
    
    ListingIsTheAnswer
PROPERTIES
    JoinAnswered
    SnapshotEnds
    AbandonedAgentEnds
    ListingEnds
CHECK_DEADLOCK FALSE
