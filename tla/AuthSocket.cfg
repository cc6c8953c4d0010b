CONSTANTS
    Callers = {p1, p2}
    ClientFdStart = 20
    MaxDials = 2
    None = None
    channel = channel
    sdk = sdk
    meta = meta
    HeadLen = 2
    MaxLen = 5
    BufSize = 6
    ChannelModules = {channel}
    MetaModules = {meta}
    Streams <- SmallStreams
SPECIFICATION FairSocketSpec
INVARIANTS
    OneReader
    CallbacksInOrder
    ReportedIsGone
    InOrder
    Blame
PROPERTIES
    CallsReturn
    PacketsArrive
CHECK_DEADLOCK FALSE
