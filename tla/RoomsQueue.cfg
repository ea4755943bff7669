SPECIFICATION Spec
CONSTANTS
    p1 = p1
    p2 = p2
    s1 = s1
    s2 = s2
    a1 = a1
    a2 = a2
    none = none
    None = none
    Peers = {p1}
    Sessions = {s1}
    AskIds = {a1}
    Controls <- Queueing
    ClientSessions <- OnlyS1
    Switches = {}
    EmitSegmentFrames = TRUE
    MAX_MUX_QUEUE_PROMPTS = 2
    MaxFrames = 11
    MaxStdin = 4
INVARIANTS
    TypeOK
    TurnsAlternate
    QueueWaitsForTheTurn
    QueueIsFifo
    ItemLifecycle
    
CHECK_DEADLOCK FALSE
