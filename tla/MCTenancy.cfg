CONSTANTS
    Org = {o1, o2}
    Team = {t1, t2, t3}
    Key = {k1, k2, k3}
    Slug = {s1, s2}
    Caller = {c1, c2}
    MaxTime = 1
SPECIFICATION TenancySpec
SYMMETRY MCSymmetry
INVARIANTS TenancyTypeOK
PROPERTIES DeadKeysStayDead TenantIsolation BootstrapCloses
CHECK_DEADLOCK FALSE
