CONSTANTS
    Conns = {c1, c2}
    Clients = {k1}
    ServerFdStart = 10
    ClientFdStart = 20
    None = None
SPECIFICATION FairSpec
INVARIANTS
    StoppedClean
    FdLeadsToConn
PROPERTIES
    StopReturns
    DisconnectedHandlerEnds
CHECK_DEADLOCK FALSE
