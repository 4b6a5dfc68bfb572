SPECIFICATION MCSpec
CONSTANTS
    o1 = o1  k1 = k1
    Objects = {o1, o2}
    Keys = {k1, k2}
    Txs = {t1, t2}
    Readers = {r1}
    MaxEvent = 3
    MaxTime = 1
    Loop = loop
    NoKey = nokey
    Nobody = nobody
INVARIANTS
    LogReplaysToTable
    CacheIsExact
    ReadYourWrites
PROPERTIES
    EveryWriteIsCached
