CONSTANTS
    Payouts = {c1, "creation_fee", "platform_fee", "refund", "remainder"}
    Recoverable = {"creation_fee"}
    Deposit = Deposit
    Claims = {c1}
    MaxRows = 7
    Amounts = {1, 2, 3, 4, 5}
    Faults = {}
    TotalValue = 4
    CreationFee = 1
    CancellationFee = 1
    MaxTotalClaims = 2
    Duration = FALSE
    PageLimit = 3
    DepositValues = {5}
    MaxDeposits = 2
    Requests = {"publish", "cancel"}
SPECIFICATION SpotSpec
CHECK_DEADLOCK FALSE
INVARIANTS CancelledIsSquare
