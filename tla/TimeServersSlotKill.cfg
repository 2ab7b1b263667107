SPECIFICATION FairSpec
CONSTANTS
    a = a  b = b  c = c  h1 = h1  h2 = h2
    kill = kill  pill = pill  tcpKill = tcpKill  t1 = t1
    Clients <- TwoClients
    Kill = kill
    Patient = TRUE
    SendsFail = FALSE
    Last = 2
    Handlers <- TwoHandlers
    QueueCap = 2
    Pill = pill
    TcpClients <- OneTcp
    TcpKill = tcpKill
    MaxFds = 1
    Servers <- OnlySlots
INVARIANTS
    GracefulStop
CHECK_DEADLOCK FALSE
