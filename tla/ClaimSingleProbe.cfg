SPECIFICATION MCSpec
CONSTANTS
    Calls = {c1, c2, c3, c4}
    FailureThreshold = 2
    ResetSeconds = 2
    BaseDelay = 1
    MaxDelay = 2
    JitterPercent = 0
    MaxExponent = 1
    Configurations <- MCConfigurations
    ErrorStatuses = {503}
    RetryHeaders = {3}
PROPERTIES
    SingleProbe
CHECK_DEADLOCK FALSE
