CONSTANTS
    Payouts <- MCPayouts
    Recoverable <- MCRecoverable
    Deposit = Deposit
    c1 = c1
    c2 = c2
    Claims = {c1, c2}
    MaxRows = 7
    Amounts = {1, 2, 3, 4, 5, 6, 7, 8}
    Faults = {"crash", "send_error", "lost_response", "exec_failure", "slow_deposit", "rpc_error"}
    TotalValue = 4
    CreationFee = 1
    CancellationFee = 1
    MaxTotalClaims = 2
    Duration = FALSE
    PageLimit = 7
    DepositValues = {2, 3, 5, 6}
    MaxDeposits = 2
    Requests = {"publish", "cancel", "end", "ban"}
SPECIFICATION MCSpec
CHECK_DEADLOCK FALSE
INVARIANTS SpotTypeOK NoOvercommit MoneyIsSquare RefundSentOnce PublishedIsFunded
PROPERTIES EndsForGood ImplementsEscrow
