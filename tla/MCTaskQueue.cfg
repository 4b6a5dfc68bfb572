SPECIFICATION Spec
CONSTANTS
    n1 = n1  n2 = n2  w1 = w1  w2 = w2  None = none
    Workers = {w1, w2}
    Nodes = {n1, n2}
    Deployment <- Both
    MaxTask = 2
    Unsupported = {}
    Limit = 1
    Lease = 2
    MaxStage = 1
    MayStop = {n2}
    MaxMishaps = 1
    MaxLost = 1
    MaxCrashes = 1
INVARIANTS
    QueueInv
    PromptPingsKeepLease
PROPERTIES
    FinalStatusStays
    StageNeverGoesBack
CHECK_DEADLOCK FALSE
