CONSTANTS
    Inits = {i1, i2}
    Deinits = {d1}
    Servers = {s1}
    Clients = {c1}
    None = None
SPECIFICATION Spec
INVARIANTS
    LayersAgree
PROPERTY NeverReplaced
CHECK_DEADLOCK FALSE
