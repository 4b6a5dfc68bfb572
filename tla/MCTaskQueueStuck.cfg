SPECIFICATION FairSpec
CONSTANTS
    n1 = n1  n2 = n2  w1 = w1  w2 = w2  None = none
    Workers = {w1}
    Nodes = {n1, n2}
    Deployment <- Alone
    MaxTask = 2
    Unsupported = {}
    Limit = 1
    Lease = 2
    MaxStage = 0
    MayStop = {}
    MaxMishaps = 1
    MaxLost = 0
    MaxCrashes = 0
PROPERTIES
    QueuedIsPopped
CHECK_DEADLOCK FALSE
