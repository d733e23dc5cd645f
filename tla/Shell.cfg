SPECIFICATION FairSpec
CONSTANTS
    Plans <- MCPlans
    Jobs = {1, 2}
    Pids = {11, 12}
INVARIANTS NoStrays
PROPERTIES CommandsEnd
CHECK_DEADLOCK FALSE
