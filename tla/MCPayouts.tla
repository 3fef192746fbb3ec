----------------------------- MODULE MCPayouts ------------------------------
(***************************************************************************)
(* The two ways a payout is decided: claims behind the payout throttle,    *)
(* and the prizes of a draw.  They share no state, so a behaviour is about *)
(* one of them, chosen at the start, and the other one rests.              *)
(***************************************************************************)
EXTENDS PayoutThrottle, Prizedraw

CONSTANTS c1, c2, c3

VARIABLE part

MCAmount == [c \in Claims |-> IF c = c1 THEN 1 ELSE 2]
MCEntries == 1 .. 3
MCAmounts == 0 .. Pool

\* Workers that are at different claims, whose payouts may fail on chain.
Failing == INSTANCE PayoutThrottle WITH RowsFail <- TRUE

MCInit ==
    /\ part \in {"throttle", "throttle failing", "prizes"}
    /\ ThrottleInit /\ PrizeInit

MCNext ==
    /\ \/ /\ \/ part = "throttle" /\ ThrottleNext
             \/ part = "throttle failing" /\ Failing!ThrottleNext /\ OneEach'
          /\ InTime'
          /\ UNCHANGED prizeVars
       \/ part = "prizes" /\ PrizeNext /\ UNCHANGED throttleVars
    /\ UNCHANGED part

MCSpec == MCInit /\ [][MCNext]_<<throttleVars, prizeVars, part>>
=============================================================================
