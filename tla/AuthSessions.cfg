CONSTANTS
    A = A
    B = B
    C = C
    a1 = a1
    a2 = a2
    b1 = b1
    b2 = b2
    c1 = c1
    Devices = {A, B, C}
    Handlers = {a1, b1, b2, c1}
    Clients = {}
    Dialers = {a1, c1}
    Acceptors = {b1, b2}
    Peer <- TwoPeers
    DeviceOf <- TwoHomes
    FdOf <- TwoFds
    InitialSeq = 0
    MaxSeq = 1
    Breakable = {a1}
    None = None
SPECIFICATION SessionFairSpec
INVARIANTS
    OneStart
PROPERTY ExchangeEnds
CHECK_DEADLOCK FALSE
