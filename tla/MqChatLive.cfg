SPECIFICATION FairSpec
CONSTANTS
    talker = talker
    reader = reader
    other = other
    TalkerLines = 0
    Clients <- TwoClients
    MaxLines <- OneTalks
    Leavers <- TwoClients
    Killable = {}
    Cap = 11
    WildJoin = FALSE
PROPERTIES LeavesWhenAsked JoinSeen StopsOrStarves
CHECK_DEADLOCK FALSE
