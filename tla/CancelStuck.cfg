CONSTANTS
    Payouts = {c1, c2, "creation_fee", "platform_fee", "refund", "remainder"}
    Recoverable = {"creation_fee"}
    Deposit = Deposit
    Claims = {c1, c2}
    MaxRows = 6
    Amounts = {1, 2, 3, 4, 5, 6}
    Faults = {}
    TotalValue = 4
    CreationFee = 1
    CancellationFee = 1
    MaxTotalClaims = 2
    Duration = TRUE
    PageLimit = 6
    DepositValues = {6}
    MaxDeposits = 1
    Requests = {"publish", "cancel"}
SPECIFICATION SpotFairSpec
CHECK_DEADLOCK FALSE
PROPERTIES CancellationEnds
