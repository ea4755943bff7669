SPECIFICATION Spec
CONSTANTS
    p1 = p1
    p2 = p2
    s1 = s1
    s2 = s2
    a1 = a1
    a2 = a2
    none = none
    None = none
    Peers = {p1}
    Sessions = {s1, s2}
    AskIds = {}
    Controls <- Rotating
    ClientSessions <- NoSession
    Switches = {}
    EmitSegmentFrames = TRUE
    MAX_MUX_QUEUE_PROMPTS = 2
    MaxFrames = 7
    MaxStdin = 3
INVARIANTS
    EmptyRoomIsUnlisted
CHECK_DEADLOCK FALSE
