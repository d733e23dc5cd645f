SPECIFICATION FairSpec
CONSTANTS
    a = a  b = b  c = c
    Tasks = {a, b}
    Messages = {m}
    Root = Root  Driver = Driver  NoTask = NoTask  NoTx = NoTx
    MaxConcurrency = 1  MaxDepth = 2  MaxTasks = 2
    Budget = 1  MaxUsage = 2
    Sessions <- Driven
CHECK_DEADLOCK FALSE
INVARIANTS ExecutesInTurn
PROPERTIES Settles ShutdownEnds
