CONSTANTS
    Request = {r1}
    MaxInFlight = 1
    Limit = {2}
    Cost = {1, 2}
    Actual = {1}
    Policy = {"DOWNGRADE"}
    Action = {"DOWNGRADE"}
    MaxPeriod = 2
    MaxAdmin = 1
    MaxSpent = 3
    MaxLeft = 0
SPECIFICATION FairLedgerSpec
PROPERTIES ExpiredIsRolledOver
CHECK_DEADLOCK FALSE
