SPECIFICATION MCFairSpec
CONSTANTS
    Calls = {c1, c2, c3}
    Keys = {k1, k2}
    MaxEntries = 1
    Ttl = 1
    MaxVersion = 2
    NoCall = NoCall
INVARIANTS
    TypeOK
    OneLoaderPerKey
    NoOrphans
    MonotonicReads
    StoreCurrent
PROPERTIES
    EveryCallReturns
CHECK_DEADLOCK FALSE
