SPECIFICATION FairSpec
CONSTANTS
    Keys = {k1}
    Clients = {c1, c2, c3}
    MaxLoads = 3
    Panics = TRUE
    NoKey = nokey
INVARIANTS
    ReferencesExact
    NoUseAfterRelease
    OneLoadPerKey
PROPERTIES
    WaitersWake
CHECK_DEADLOCK FALSE
