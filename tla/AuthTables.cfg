CONSTANTS
    o1 = o1
    Openers = {o1}
    ChannelOpeners = {h1}
    Acceptors = {s1}
    Closers = {c1, c2}
    RequestOf <- OneRequestOf
    LinkTypeOf <- OneLinkTypeOf
    Wifi = "wifi"
    ServerFdStart = 10
    ClientFdStart = 20
    InitialAuthId = 1
    None = None
SPECIFICATION Spec
INVARIANTS
    TablesAgree
    ManagersMapped
    FinishedForgotten
PROPERTY TableSpec
SYMMETRY Symmetric
CHECK_DEADLOCK FALSE
