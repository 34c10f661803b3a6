CONSTANTS
    c1 = c1
    c2 = c2
    k1 = k1
    k2 = k2
    t = t
    o = o
    Caller = {c1, c2}
    IdOf <- MCIdOf
    Limit <- MCLimit
    Window <- MCWindow
    MaxLag = 1
    MaxTime = 2
    MaxRequests = 3
    MaxFaults = 1
SPECIFICATION LimiterSpec
INVARIANTS LimiterTypeOK WithinLimit BurstExplained 
SYMMETRY MCSymmetry
CHECK_DEADLOCK FALSE
