SPECIFICATION MCSpec
CONSTANTS
    c1 = c1  c2 = c2  c3 = c3
    Claims = {c1, c2, c3}
    OpenClaims = {c2, c3}
    Payers = {w1, w2}
    Amount <- MCAmount
    Window = 2
    MaxPayoutCount = 1
    MaxPayoutLuna = 2
    DailyWindow = 3
    DailyMaxPayoutCount = 2
    DailyMaxPayoutLuna = 3
    SpotWindow = 2
    SpotMaxPayoutCount = 2
    SpotMaxPayoutLuna = 4
    MaxAutomaticPayoutLuna = 2
    Capacity = 4
    RewardPool = 7
    LifetimePercent = 50
    PermitTicks = 1
    RowsFail = FALSE
    Releases = {c3}
    MaxRows = 3
    Payouts <- MCEntries
    Recoverable = {}
    Deposit = deposit
    Amounts <- MCAmounts
    Faults = {"crash", "send_error", "lost_response", "exec_failure"}
    Workers = {w1, w2}
    Pool = 5
    PrizeCount = 2
    MaxEntries = 3
    DrawPage = 3
    Duration = TRUE
    Holds = TRUE
INVARIANTS PayoutLimitsKept WinnersStay PoolPaidExactly
PROPERTY PrizeImplementsOutbox
CHECK_DEADLOCK FALSE
