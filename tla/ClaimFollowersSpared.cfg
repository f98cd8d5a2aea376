SPECIFICATION MCSpec
CONSTANTS
    Calls = {c1, c2, c3}
    Keys = {k1, k2}
    MaxEntries = 1
    Ttl = 1
    MaxVersion = 1
    NoCall = NoCall
PROPERTIES
    FollowersSpared
CHECK_DEADLOCK FALSE
