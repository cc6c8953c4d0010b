CONSTANTS
    A = A
    B = B
    a1 = a1
    b1 = b1
    m1 = m1
    m2 = m2
    dm = dm
    pk = pk
    m3 = m3
    other = other
    Devices = {B}
    Handlers = {m1, m2, m3}
    Clients = {dm, pk, other}
    Dialers = {}
    Acceptors = {}
    Peer <- Peers
    DeviceOf <- MsgHomes
    FdOf <- Fds
    InitialSeq = 0
    MaxSeq = 1
    Breakable = {}
    MsgHandlers = {m1, m2, m3}
    Users = {dm, other}
    Pairers = {dm}
    GroupOf <- Prefixes
    PakeEnd <- PakeOf
    MaxTries <- Tries
    None = None
SPECIFICATION DmFairSpec
INVARIANTS
    PinProved
    KeyAgreement
    GrantHolds
    GrantedStays
PROPERTY PairingEnds
CHECK_DEADLOCK FALSE
