SPECIFICATION Spec
CONSTANTS
    Keys = {k1}
    Clients = {c1, c2}
    MaxLoads = 2
    Panics = TRUE
    NoKey = nokey
INVARIANTS
    FuturesAreLoading
CHECK_DEADLOCK FALSE
