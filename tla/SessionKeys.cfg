CONSTANTS
    AuthIds = {a1, a2}
    MaxIndex = 4
    MaxSets = 4
SPECIFICATION Spec
INVARIANTS
    Ascending
    DecryptsOwn
CHECK_DEADLOCK FALSE
