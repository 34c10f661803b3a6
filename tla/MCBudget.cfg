CONSTANTS
    Request = {r1, r2}
    MaxInFlight = 2
    Limit = {2}
    Cost = {0, 1, 2}
    Actual = {1}
    Policy = {"BLOCK", "WARN"}
    Action = {"BLOCK", "DOWNGRADE"}
    MaxPeriod = 2
    MaxAdmin = 3
    MaxSpent = 3
    MaxLeft = 1
SPECIFICATION LedgerSpec
SYMMETRY MCSymmetry
INVARIANTS LedgerTypeOK LedgerAccurate OverspendExplained UsageNeverInvented
CHECK_DEADLOCK FALSE
