SPECIFICATION Spec
CONSTANTS
    j1 = j1
    j2 = j2
    w1 = w1
    w2 = w2
    Job = {j1, j2}
    Worker = {w1, w2}
    MaxAttempts = 2
    MaxClaims = 2
    MaxDefers = 1
    MaxCrashes = 1
    Poison = {j2}
    ViewFaults = TRUE
    Panics = TRUE
    Upgrades = TRUE
SYMMETRY Workers
CHECK_DEADLOCK FALSE
INVARIANTS
    TypeOK
    StreamFolds
    SettlementFenced
    RowFollowsStream
    AttemptBudget
    SkippedAckIsOwned
PROPERTIES
    NoResurrection
    RefinesLifecycle
