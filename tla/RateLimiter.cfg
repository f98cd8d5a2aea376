SPECIFICATION MCSpec
CONSTANTS
    Clients = {c1, c2}
    MaxRequests = 2
    WindowSeconds = 2
    TicksPerSecond = 2
    MaxTime = 6
    MaxAdmissions = 3
SYMMETRY ClientSymmetry
INVARIANTS
    TypeOK
    QuotaHeld
    RefusalsEarned
    HintHonoured
CHECK_DEADLOCK FALSE
