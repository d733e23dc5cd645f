SPECIFICATION FairSpec
CONSTANTS
    plain = plain
    guarded = guarded
    handoff = handoff
    unknown = unknown
    Workers = {w1}
    Calls = {plain, guarded, handoff, unknown}
    Guarded = {guarded}
    Unregistered = {unknown}
    Handoffs = {handoff}
    Replies <- Mixed
    MaxTurns = 2
    GateMax = 1
    StopAfterTool = FALSE
    MaxCounter = 14
    MaxTokens = 1
    Attempts = {1, 2}
    NoCall = NoCall
    NoCheckpoint = NoCheckpoint
    Closed = Closed
CHECK_DEADLOCK FALSE
INVARIANTS ApprovedFirst AlwaysRecoverable
PROPERTIES  EngineEnds
