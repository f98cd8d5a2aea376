SPECIFICATION MCFairSpec
CONSTANTS
    Requests = {1, 2}
    Enrichment = {"cast", "watch"}
    Deployments <- MCDeployments
    FailureThreshold = 2
    ResetSeconds = 1
INVARIANTS
    TypeOK
    NoTaskOutlivesRequest
    PartialIsHonest
    RefusalsNeedFaults
PROPERTIES
    EveryRequestEnds
CHECK_DEADLOCK FALSE
