\* Runs of each owner, two messages in one conversation.
SPECIFICATION FairSpec
CONSTANTS
    None = None
    TextTokens = 1
    LongTokens = 3
    SummaryTokens = 1
    Configs <- MCConfigs
    Policy <- MCPolicy
    Overhead = 1
    Ids = {1, 2}
    MaxCalls = 2
    MaxBlocks = 1
    MaxRetries = 1
    AdvisedRetries = 1
    Reprobe = 1
    ErrorLimit = 1
    MaxResumes = 1
    Children = 2
    MaxRuns = 2
    MaxSteering = 1
    MaxSpills = 1
CHECK_DEADLOCK FALSE
INVARIANTS HistoryWhole ToolsSafe SpillsAlive AnswersLast
PROPERTIES RunEnds
