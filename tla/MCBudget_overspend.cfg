CONSTANTS
    Request = {r1, r2, r3}
    MaxInFlight = 2
    Limit = {2}
    Cost = {1}
    Actual = {1}
    Policy = {"BLOCK"}
    Action = {"BLOCK"}
    MaxPeriod = 1
    MaxAdmin = 1
    MaxSpent = 4
    MaxLeft = 0
SPECIFICATION LedgerSpec
INVARIANTS NoOverspend
