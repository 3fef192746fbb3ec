--------------------------- MODULE MCTransOutbox ---------------------------
(***************************************************************************)
(* One claim's reward and one creation fee of 2 Luna, with room for a      *)
(* retry of each, beside deposits that are due 2 and pay 2, less or        *)
(* nothing.  Every action is TransOutbox's own.                            *)
(***************************************************************************)
EXTENDS TransOutbox

CONSTANT claim

MCPayouts == {claim, "creation_fee"}
MCRecoverable == {"creation_fee"}

MCNext ==
    \/ \E s \in Payouts : CreateIntent(s, 2)
    \/ \E v \in Amounts \cup {0} : InsertDeposit(2, v)
    \/ \E t \in TransIds :
          OutboxSend(t) \/ OutboxChain(t) \/ OutboxRefresh(t) \/ RecoverIntent(t)
    \/ Crash

MCSpec == OutboxInit /\ [][MCNext]_outboxVars
=============================================================================
