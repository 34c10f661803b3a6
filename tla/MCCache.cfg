CONSTANTS
    Team = {t1, t2}
    t1 = t1
    t2 = t2
    c1 = c1
    c2 = c2
    c3 = c3
    Task = {c1, c2, c3}
    Ask <- MCAsk
    Text <- MCText
    NoText = "none"
    Vector <- MCVector
    MaxEntries = 2
    Ttl = 1
    ThrNum = 9
    ThrDen = 10
    MaxTime = 1
    MaxActive = 2
SPECIFICATION CacheSpec
SYMMETRY MCSymmetry
INVARIANTS CacheTypeOK HitSound IndexKeepsLive
PROPERTIES ClosestServed DisableRespected
CHECK_DEADLOCK FALSE
