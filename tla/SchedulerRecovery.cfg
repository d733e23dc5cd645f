SPECIFICATION Spec
CONSTANTS
    a = a  b = b  c = c
    Tasks = {a}
    Messages = {m}
    Root = Root  Driver = Driver  NoTask = NoTask  NoTx = NoTx
    MaxConcurrency = 1  MaxDepth = 2  MaxTasks = 2
    Budget = 1  MaxUsage = 2
    Sessions <- Recovered
CHECK_DEADLOCK FALSE
INVARIANTS  NoReplay DeliveredOnce SteeringKept
