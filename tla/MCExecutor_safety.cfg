CONSTANTS
    Provider = {p1, p2}
    Request = {r1, r2}
    FailureThreshold = 2
    CooldownTicks = 2
    HalfOpenTrials = 1
    MaxRetries = 1
    BaseDelay = 1
    MaxDelay = 2
    MaxFailover = 1
    DeadlineTicks = 3
    MaxModels = 2
SPECIFICATION ExecSpec
SYMMETRY MCSymmetry
INVARIANTS BreakerSound TrialsRespected
PROPERTIES KeepsBreakerContract
