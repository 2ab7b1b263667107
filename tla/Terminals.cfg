SPECIFICATION TerminalsSpec
CONSTANTS
    MaxDrivers = 2
    MaxTasks = 3
    ZeroTasks = {"ignored"}
    Lines <- SomeLines
    MaxCommands = 3
    MaxLines = 2
    Items = 2
    PipeCap = 1
    EchoClients = {"anna", "boris", "carol"}
    Port <- OnePort
    MaxTyped <- FewTyped
    Root = "root"
    Content <- Tree
    Unreadable = {"lost"}
    Rows = 2
INVARIANTS
    InStep
    AvailableIsFree
    NothingLeft
    OwnEndsOnly
    NeighbourReads
    AnswersInStep
    CursorInSight
PROPERTIES
    CommandEnds
    TaskEnds
    QuitEnds
    LineEnds
CHECK_DEADLOCK FALSE
