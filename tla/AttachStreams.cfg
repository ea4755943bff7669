SPECIFICATION MCSpec
CONSTANTS
    Tears = {"record", "part", "character"}
    MaxSeq = 5
    MaxTears = 2
    MaxRuns = 2
    AgentLines = {"raw"}
    MaxSegments = 1
    MaxConns = 2
    MaxAttaches = 1
INVARIANTS
    StreamsTypeOK
    SeqsIncrease
    OnlyTheTornIsLost
    StreamMeetsLive
    PendingReachesTheClient
CHECK_DEADLOCK FALSE
