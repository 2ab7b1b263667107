SPECIFICATION Spec
CONSTANTS
    talker = talker
    reader = reader
    other = other
    TalkerLines = 1
    Clients <- TwoClients
    MaxLines <- OneTalks
    Leavers <- TwoClients
    Killable <- OneReader
    Cap = 5
    WildJoin = TRUE
INVARIANTS OnlineCount LeaveFound ClientLeaveFound MembersKnowEachOther StopsWhenEmpty
CHECK_DEADLOCK FALSE
