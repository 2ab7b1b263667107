SPECIFICATION FairSpec
CONSTANTS
    MaxDrivers = 2
    MaxTasks = 3
    ZeroTasks = {"ignored", "query", "end"}
INVARIANTS
    InStep
CHECK_DEADLOCK FALSE
