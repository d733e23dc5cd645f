\* The same runs: compacting a history that holds a handoff.
SPECIFICATION Spec
CONSTANTS
    None = None
    TextTokens = 1
    LongTokens = 3
    SummaryTokens = 1
    Configs <- MCConfigs
    Policy <- MCPolicy
    Overhead = 1
    Ids = {1, 2}
    MaxCalls = 2
    MaxBlocks = 1
    MaxRetries = 1
    AdvisedRetries = 1
    Reprobe = 1
    ErrorLimit = 1
    MaxResumes = 1
    Children = 1
    MaxRuns = 2
    MaxSteering = 1
    MaxSpills = 1
CHECK_DEADLOCK FALSE
INVARIANT CompactionKeepsPairs
