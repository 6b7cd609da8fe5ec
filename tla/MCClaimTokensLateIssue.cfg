SPECIFICATION Spec
CONSTANTS
    j1 = j1
    j2 = j2
    c1 = c1
    c2 = c2
    k1 = k1
    k2 = k2
    k3 = k3
    None = None
    Job = {j1}
    Caller = {c1, c2}
    Token = {k1, k2, k3}
    MaxActive = 2
    MaxClaims = 2
    Unreadable = {}
    MaxInstant = 3
SYMMETRY Symmetric
CHECK_DEADLOCK FALSE
PROPERTIES
    IssueSparesOwner
