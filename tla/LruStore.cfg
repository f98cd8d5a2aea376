SPECIFICATION MCSpec
CONSTANTS
    MaxEntries = 2
    StoredKeys = {k1, k2, k3}
    StoredValues = {1, 2}
    Ttls = {0, 1, 2}
    MaxTime = 3
INVARIANTS
    RecentlyUsedSurvive
    OrderedByUse
