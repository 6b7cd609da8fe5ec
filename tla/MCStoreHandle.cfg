SPECIFICATION FairSpec
CONSTANTS
    c1 = c1
    s1 = s1
    s2 = s2
    t1 = t1
    t2 = t2
    t3 = t3
    None = None
    Cell = {c1}
    Store = {s1, s2}
    Thread = {t1, t2, t3}
INVARIANTS
    ClosedIsDrained
    DestroyedOnce
    HandleIsAlive
    OpenIsRegistered
PROPERTIES
    CloseReturns
    EngineReleased
