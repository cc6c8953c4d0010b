CONSTANTS
    Inits = {i1}
    Deinits = {d1}
    Servers = {}
    Clients = {c1}
    None = None
SPECIFICATION FairSpec
PROPERTY CallsReturn
CHECK_DEADLOCK FALSE
