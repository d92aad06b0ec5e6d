CONSTANTS
    Workers = {w1, w2}
    Clients = {a, b}
    MaxTasks = 3
SPECIFICATION FairSpec
INVARIANTS OneWorkerPerTask NoStrandedTask ShutdownDrains AtMostOneMissed
PROPERTIES EarlyTasksFinish CaughtAllReturns
CHECK_DEADLOCK FALSE
