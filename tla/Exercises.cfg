SPECIFICATION ExercisesSpec
CONSTANTS
    Names = {"ivan", "anna"}
    Data = {"one", "two"}
    Capacity = 3
    Cells = {c1, c2, c3}
    NULL = NULL
    Empty = ""
    Customers = {"first", "second"}
    Shelves = {"left", "right"}
    Stock = 1
    Package = 1
    Needs = {2}
    MaxStored = 2
    Pairs = {"posix shm", "sysv shm", "posix mq", "sysv mq"}
    MaxKills = 2
INVARIANTS
    WellLinked
    NothingLost
    EachReadsOther
PROPERTIES
    ImplementsDirectory
    ShopCloses
CHECK_DEADLOCK FALSE
