SPECIFICATION FairSpec
CONSTANTS
    talker = talker
    reader = reader
    other = other
    TalkerLines = 2
    Clients <- TwoClients
    MaxLines <- OneTalks
    Leavers <- TwoClients
    Killable = {}
    Cap = 4
    WildJoin = FALSE
PROPERTIES LeavesWhenAsked
CHECK_DEADLOCK FALSE
