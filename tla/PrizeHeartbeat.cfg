SPECIFICATION PrizeHeartbeatSpec
CONSTANTS
    MaxRows = 2
    Payouts = {1, 2, 3}
    Recoverable = {}
    Deposit = deposit
    Amounts = {0, 1, 2, 3, 4, 5}
    Faults = {}
    Workers = {w1}
    Pool = 5
    PrizeCount = 2
    MaxEntries = 3
    DrawPage = 3
    Duration = TRUE
    Holds = FALSE
INVARIANT WinnersStay
CHECK_DEADLOCK FALSE
