CONSTANTS
    o1 = o1
    o2 = o2
    o3 = o3
    Openers = {o1, o2, o3}
    ChannelOpeners = {}
    Acceptors = {}
    Closers = {c1}
    Leavers = {l1}
    MaxJoins = 2
    RequestOf <- JoinRequestOf
    LinkTypeOf <- JoinLinkTypeOf
    Wifi = "wifi"
    ServerFdStart = 10
    ClientFdStart = 20
    InitialAuthId = 1
    None = None
SPECIFICATION FairBusSpec
INVARIANTS
    ClientManagerConnected
    MatchedHasManager
    SuccessIsOwn
PROPERTIES
    CallsReturn
    FailureIsTold
CHECK_DEADLOCK FALSE
