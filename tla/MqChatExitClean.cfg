SPECIFICATION Spec
CONSTANTS
    talker = talker
    reader = reader
    other = other
    TalkerLines = 1
    Clients <- TwoClients
    MaxLines <- OneTalks
    Leavers <- TwoClients
    Killable = {}
    Cap = 5
    WildJoin = FALSE
INVARIANTS ExitIsClean
CHECK_DEADLOCK FALSE
