SPECIFICATION FairSpec
CONSTANTS
    n1 = n1  n2 = n2  w1 = w1  w2 = w2  None = none
    Workers = {w1, w2}
    Nodes = {n1, n2}
    Deployment <- Postgres
    MaxTask = 3
    Unsupported = {2}
    Limit = 2
    Lease = 2
    MaxStage = 0
    MayStop = {n2}
    MaxMishaps = 0
    MaxLost = 0
    MaxCrashes = 0
PROPERTIES
    QueuedIsFinished
    StopEnds
CHECK_DEADLOCK FALSE
