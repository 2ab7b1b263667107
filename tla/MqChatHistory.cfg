SPECIFICATION Spec
CONSTANTS
    talker = talker
    reader = reader
    other = other
    TalkerLines = 3
    Clients <- TwoClients
    MaxLines <- OneTalks
    Leavers = {}
    Killable = {}
    Cap = 6
    WildJoin = FALSE
INVARIANTS NoGapAfterJoin
CHECK_DEADLOCK FALSE
