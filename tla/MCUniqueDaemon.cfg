SPECIFICATION FairSpec
CONSTANTS
    Nodes = {n1, n2}
    Lease = 2
    MaxTime = 5
    MaxToken = 3
    MaxFaults = 1
INVARIANTS
    AtMostOneLive
PROPERTIES
    NoStealing
    ReleasedAfterTask
    LockComesBack
CHECK_DEADLOCK FALSE
