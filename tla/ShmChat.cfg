SPECIFICATION FairSpec
CONSTANTS
    talker = talker
    reader = reader
    TalkerActs = 1
    Clients <- TwoClients
    Slot <- TwoSlots
    MaxActs <- OneActs
    Leavers <- OneClient
    MaxTokens = 1
    WildJoin = TRUE
INVARIANTS
    TextStays
    ReadsSomething
    SemaphoresKept
PROPERTIES
    RequestsGoOn
    NewcomerServed
    BroadcastEnds
CHECK_DEADLOCK FALSE
