----------------------------- MODULE MCSpotLive -----------------------------
(***************************************************************************)
(* One Standard Spot with one claim, for everything people may ask of it.  *)
(* A calm Spot meets no failure but a slow deposit; in the other every     *)
(* answer of the helper may be lost and the process may stop.              *)
(***************************************************************************)
EXTENDS SpotLedger

MCPayouts == Claims \cup SpotSlots
MCRecoverable == {"creation_fee"}

VARIABLE calm

Calm == INSTANCE SpotLedger WITH Faults <- {"slow_deposit"}, DepositValues <- {3, 5}, MaxDeposits <- 2

MCInit == SpotInit /\ calm \in BOOLEAN

MCSpec ==
    /\ MCInit
    /\ [][IF calm THEN Calm!SpotNext /\ UNCHANGED calm ELSE SpotNext /\ UNCHANGED calm]_<<vars, calm>>
    /\ SpotFairness

\* A Spot whose send was lost waits for an administrator: its money is not promised.
CalmMoneyReturns == calm => MoneyReturns
=============================================================================
