CONSTANTS
    claim = claim
    MaxRows = 4
    Payouts <- MCPayouts
    Recoverable <- MCRecoverable
    Deposit = Deposit
    Amounts = {1, 2}
    Faults = {"crash", "send_error", "lost_response", "exec_failure", "slow_deposit"}
SPECIFICATION MCSpec
CHECK_DEADLOCK FALSE
INVARIANTS UniqueActiveIntent LedgerMatchesChain
PROPERTIES FinalRowsStay PaysOnce
