SPECIFICATION FairSpec
CONSTANTS
    j1 = j1
    j2 = j2
    w1 = w1
    w2 = w2
    Job = {j1}
    Worker = {w1, w2}
    MaxAttempts = 2
    MaxClaims = 2
    MaxDefers = 0
    MaxCrashes = 0
    Poison = {}
    ViewFaults = TRUE
    Panics = FALSE
    Upgrades = TRUE
CHECK_DEADLOCK FALSE
PROPERTIES
    PendingJobRuns
