CONSTANTS
    Provider = {p1, p2, p3, p4}
    Request = {r1}
    FailureThreshold = 1
    CooldownTicks = 1
    HalfOpenTrials = 1
    MaxRetries = 1
    BaseDelay = 1
    MaxDelay = 1
    MaxFailover = 2
    DeadlineTicks = 5
    MaxModels = 1
SPECIFICATION FairExecSpec
INVARIANTS ExecTypeOK CallsBounded OneLateCall
PROPERTIES RequestsEnd FailoverNeverReturns
