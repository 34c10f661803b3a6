CONSTANTS
    Provider = {p1}
    Request = {r1, r2}
    FailureThreshold = 1
    CooldownTicks = 1
    HalfOpenTrials = 1
    MaxRetries = 0
    BaseDelay = 1
    MaxDelay = 1
    MaxFailover = 0
    DeadlineTicks = 2
    MaxModels = 1
SPECIFICATION FairExecSpec
PROPERTIES BlockedProviderIsRetried
