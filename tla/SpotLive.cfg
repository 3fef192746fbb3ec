CONSTANTS
    Payouts <- MCPayouts
    Recoverable <- MCRecoverable
    Deposit = Deposit
    Claims = {c1}
    MaxRows = 6
    Amounts = {1, 2, 3, 4, 5, 6, 7, 8}
    Faults = {"crash", "send_error", "lost_response", "slow_deposit"}
    TotalValue = 4
    CreationFee = 1
    CancellationFee = 1
    MaxTotalClaims = 2
    Duration = FALSE
    PageLimit = 6
    DepositValues = {5}
    MaxDeposits = 1
    Requests = {"publish", "cancel", "end", "ban"}
SPECIFICATION MCSpec
CHECK_DEADLOCK FALSE
INVARIANT EitherReturnFits
PROPERTIES IntentsResolve CalmMoneyReturns ImplementsOutbox
