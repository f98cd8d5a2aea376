SPECIFICATION MCFairSpec
CONSTANTS
    Calls = {c1, c2}
    FailureThreshold = 0
    ResetSeconds = 2
    BaseDelay = 1
    MaxDelay = 2
    JitterPercent = 100
    MaxExponent = 1
    Configurations <- MCPatient
    ErrorStatuses <- MCErrorStatuses
    RetryHeaders <- MCRetryHeaders
INVARIANTS
    IInv
    WaitsBounded
PROPERTIES
    EveryCallReturns
CHECK_DEADLOCK FALSE
