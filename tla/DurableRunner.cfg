SPECIFICATION Spec
CONSTANTS
    plain = plain
    guarded = guarded
    handoff = handoff
    unknown = unknown
    Workers = {w1, w2}
    Calls = {guarded, plain}
    Guarded = {guarded}
    Unregistered = {}
    Handoffs = {}
    Replies <- GuardedOnly
    MaxTurns = 1
    GateMax = 0
    StopAfterTool = TRUE
    MaxCounter = 9
    MaxTokens = 2
    Attempts = {1, 2}
    NoCall = NoCall
    NoCheckpoint = NoCheckpoint
    Closed = Closed
SYMMETRY Symmetry
CHECK_DEADLOCK FALSE
INVARIANTS AtMostOnce WriteAhead
PROPERTIES Quarantined LedgerSteps
