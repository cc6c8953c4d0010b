CONSTANTS
    Frames = {f1}
    Publishers = {p1, p2}
    s1 = s1
    s2 = s2
    Services = {s1, s2}
    BitsOf <- Bits
    Modules = {1, 2}
    Ports = {9001, 9002}
    MaxAnnounced = 2
    MaxMonitors = 2
    None = None
SPECIFICATION FairSpec
INVARIANTS
    UpTogether
PROPERTIES
    CallsReturn
    ReaderEnds
CHECK_DEADLOCK FALSE
