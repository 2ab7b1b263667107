SPECIFICATION FairSpec
CONSTANTS
    talker = talker
    reader = reader
    TalkerActs = 1
    Clients <- OneClient
    Slot <- TwoSlots
    MaxActs <- OneActs
    Leavers <- OneClient
    MaxTokens = 2
    WildJoin = FALSE
PROPERTIES
    LeavesWhenAsked
CHECK_DEADLOCK FALSE
