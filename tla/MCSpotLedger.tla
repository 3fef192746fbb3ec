---------------------------- MODULE MCSpotLedger ----------------------------
(***************************************************************************)
(* Standard Spots of 4 Luna with a creation fee of 1 and a cancellation    *)
(* fee of 1, in five scenarios that differ in what people ask for and in   *)
(* what fails.  The scenario is chosen at the start; the properties are    *)
(* those of SpotLedger, under constants that cover every scenario.         *)
(***************************************************************************)
EXTENDS SpotLedger

CONSTANTS c1, c2

MCPayouts == Claims \cup SpotSlots
MCRecoverable == {"creation_fee"}

VARIABLE scenario

\* A funded Spot with two claims is cancelled.
Cancelling == INSTANCE SpotLedger WITH
    Requests <- {"publish", "cancel"}, Faults <- {"crash", "lost_response", "exec_failure"},
    DepositValues <- {5}

\* Its period ends and the remainder goes back.
Ending == INSTANCE SpotLedger WITH
    Requests <- {"publish", "end"},
    Faults <- {"crash", "lost_response", "exec_failure", "rpc_error"},
    DepositValues <- {5, 6}, MaxDeposits <- 1

\* Two duration claims wait for one reward.
Waiting == INSTANCE SpotLedger WITH
    Requests <- {"publish", "end"}, Faults <- {"crash", "exec_failure"},
    DepositValues <- {5}, Duration <- TRUE, MaxTotalClaims <- 1

\* A draft is funded in two deposits, published or cancelled.
Funding == INSTANCE SpotLedger WITH
    Requests <- {"publish", "cancel"}, Faults <- {"slow_deposit", "exec_failure", "rpc_error"},
    DepositValues <- {2, 3, 6}

\* A Spot with one claim is banned and swept.
Banning == INSTANCE SpotLedger WITH
    Requests <- {"publish", "cancel", "ban"}, Faults <- {"crash", "send_error", "exec_failure"},
    DepositValues <- {5}

ClaimedAtMost(S) == \A c \in Claims \ S : claim'[c] = "none"

ScenarioStep ==
    \/ scenario = "cancelling" /\ Cancelling!SpotNext
    \/ scenario = "ending" /\ Ending!SpotNext /\ count' =< 6
    \/ scenario = "waiting" /\ Waiting!SpotNext
    \/ scenario = "funding" /\ Funding!SpotNext /\ ClaimedAtMost({}) /\ count' =< 6
    \/ scenario = "banning" /\ Banning!SpotNext /\ ClaimedAtMost({c1})

MCInit ==
    SpotInit /\ scenario \in {"cancelling", "ending", "waiting", "funding", "banning"}

MCSpec == MCInit /\ [][ScenarioStep /\ UNCHANGED scenario]_<<vars, scenario>>
=============================================================================
