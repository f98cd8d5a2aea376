SPECIFICATION MCFairSpec
CONSTANTS
    Calls = {1, 2, 3}
    FailureThreshold = 2
    ResetSeconds = 1
    Clients = {p}
    Movies = {"Alien", "Heat"}
    Regions = {"US", "IN"}
    DefaultRegion = "US"
    Served <- MCServed
    MaxRequests = 1
    Ttls = {0, 900}
    MaxTrouble = 3
    PatientClient = p
INVARIANTS
    HonestReplies
PROPERTIES
    Recovery
    UntaggedHaveCause
