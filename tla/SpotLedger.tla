----------------------------- MODULE SpotLedger -----------------------------
(***************************************************************************)
(* The money of one Standard Spot: its deposits, creation fee, claim       *)
(* rewards, cancellation, end-of-Spot remainder and moderation sweep, as   *)
(* the HTTP routes, the settlement loop, the transaction refresher and the *)
(* administrator run them concurrently over the transaction outbox.        *)
(*                                                                         *)
(* Every SQLite transaction is one step: SQLite has a single writer, and a *)
(* deferred transaction whose reads went stale fails instead of writing.   *)
(* What a coroutine read before an await and uses after it is part of its  *)
(* state (cancel, payout, remainder, sweep).                               *)
(***************************************************************************)
EXTENDS TransOutbox, FiniteSetsExt

CONSTANTS
    Claims,            \* claim attempts; a claim is also its reward's slot
    TotalValue,        \* SPOT_TOTAL_VALUE
    CreationFee,       \* snapshotted creation fee
    CancellationFee,   \* snapshotted cancellation policy
    MaxTotalClaims,    \* SPOT_MAX_TOTAL_CLAIMS
    Duration,          \* TRUE when SPOT_CLAIM_DURATION > 0
    PageLimit,         \* db_access.MAX_LIMIT
    DepositValues,     \* what a creator may report and send
    MaxDeposits,       \* bound on the deposits a creator reports
    Requests           \* what people ask for: a subset of RequestKinds

SpotSlots == {"creation_fee", "platform_fee", "refund", "remainder"}
RequestKinds == {"publish", "cancel", "end", "ban"}

ASSUME SpotAssumption ==
    /\ Payouts = Claims \cup SpotSlots
    /\ Claims \cap SpotSlots = {}
    /\ Recoverable = {"creation_fee"}
    /\ TotalValue \in Nat \ {0}
    /\ CreationFee \in Nat \ {0}
    /\ CancellationFee \in Nat
    /\ MaxTotalClaims \in Nat \ {0}
    /\ Duration \in BOOLEAN
    /\ PageLimit \in Nat \ {0}
    /\ DepositValues \subseteq Nat \ {0}
    /\ MaxDeposits \in Nat
    /\ Requests \subseteq RequestKinds

VARIABLES
    status,      \* SPOT_STATUS
    cancelling,  \* SPOT_CANCELLATION_STARTED_AT is not NULL
    ended,       \* the public entry period is over
    settled,     \* the remainder-settled marker of APP_METADATA
    claim,       \* CLAIM_STATUS, "none" before the claim exists
    guard,       \* the row of the cancellation guard table
    ban,         \* the state of the ban record
    cancel,      \* the coroutine holding the Spot's cancellation lock
    payout,      \* claims some coroutine has decided to pay
    remainder,   \* the settlement loop inside settle_spot_remainder_if_ready
    sweep        \* the row a banned-Spot sweep is sending, 0 for none

spotVars == <<status, cancelling, ended, settled, claim, guard, ban>>
workVars == <<cancel, payout, remainder, sweep>>
vars == <<outboxVars, spotVars, workVars>>

NoCancel == [pc |-> "idle", legs |-> FALSE, proven |-> FALSE, fee |-> 0, refund |-> 0, row |-> 0]
NoRemainder == [pc |-> "idle", amount |-> 0]

CancelPcs == {"idle", "checked", "leased", "planned", "fee_sending", "refund",
              "refund_sending", "release", "block"}

Cancellations == [pc : CancelPcs, legs : BOOLEAN, proven : BOOLEAN,
                  fee : Nat, refund : Nat, row : 0 .. MaxRows]

SpotTypeOK ==
    /\ TypeOK
    /\ status \in {"draft", "published", "completed", "cancelled", "banned"}
    /\ cancelling \in BOOLEAN /\ ended \in BOOLEAN /\ settled \in BOOLEAN
    /\ claim \in [Claims -> {"none", "pending", "success", "failed"}]
    /\ guard \in {"none", "processing", "blocked_failed", "blocked_ambiguous"}
    /\ ban \in {"none", "pending_sweep", "blocked", "swept"}
    /\ cancel \in Cancellations
    /\ payout \subseteq Claims
    /\ remainder \in [pc : {"idle", "prepared", "checked"}, amount : Nat]
    /\ sweep \in 0 .. MaxRows

SpotInit ==
    /\ OutboxInit
    /\ status = "draft" /\ cancelling = FALSE /\ ended = FALSE /\ settled = FALSE
    /\ claim = [c \in Claims |-> "none"]
    /\ guard = "none" /\ ban = "none"
    /\ cancel = NoCancel /\ payout = {} /\ remainder = NoRemainder /\ sweep = 0

-----------------------------------------------------------------------------
(* Reading the ledger.  tab is the table read, rows the rows of it.         *)

AmountOf(tab, rows, slots, sts) ==
    SumFunctionOnSet([t \in TransIds |-> tab[t].amount],
                     {t \in rows : tab[t].slot \in slots /\ tab[t].status \in sts})

ConfirmedIn(tab, rows, slots) == AmountOf(tab, rows, slots, {"confirmed"})

(* get_transactions_by_spot: the newest PageLimit rows.                     *)
Page == {t \in 1 .. count : t + PageLimit > count}

PendingIn(rows, slots) == \E t \in rows : trans[t].slot \in slots /\ trans[t].status = "pending"

Minus(a, b) == IF a > b THEN a - b ELSE 0

(* get_confirmed_spot_deposit_total sums in SQL, without the page.          *)
DepositTotal == ConfirmedIn(trans, TransIds, {Deposit})

Required == TotalValue + CreationFee

Funded == DepositTotal >= Required

Reward == TotalValue \div MaxTotalClaims

SuccessesIn(cl) == Cardinality({c \in Claims : cl[c] = "success"})

CapacityReached == SuccessesIn(claim) >= MaxTotalClaims

Unpaid == {c \in Claims : claim[c] = "success" /\ ~HasNonFailed(c)}

HasConfirmed(s) == \E t \in TransIds : trans[t].slot = s /\ trans[t].status = "confirmed"

-----------------------------------------------------------------------------
(* Funding and publishing *)

(* record_spot_deposit_transaction: one pending deposit at a time, and what *)
(* is recorded never exceeds what is due.                                   *)
RecordDeposit(reported, v) ==
    /\ status = "draft"
    /\ ~cancelling
    /\ ~PendingIn(TransIds, {Deposit})
    /\ ~Funded
    /\ Cardinality({t \in 1 .. count : trans[t].slot = Deposit}) < MaxDeposits
    /\ InsertDeposit(Min({reported, Required - DepositTotal}), v)
    /\ UNCHANGED <<spotVars, workVars>>

(* Mutant of SubmitCreationFee: the fee is taken before the deposit. *)
SubmitCreationFeeUnfunded ==
    /\ status \in {"draft", "published", "completed"}
    /\ ~cancelling
    /\ CreateIntent("creation_fee", CreationFee)
    /\ UNCHANGED <<spotVars, workVars>>

(* submit_spot_creation_fee_transaction; its intent transaction repeats the *)
(* checks.                                                                  *)
SubmitCreationFee ==
    /\ status \in {"draft", "published", "completed"}
    /\ ~cancelling
    /\ Funded
    /\ CreateIntent("creation_fee", CreationFee)
    /\ UNCHANGED <<spotVars, workVars>>

(* Mutants of Publish: it does not look at the cancellation marker, or is   *)
(* content with a creation fee that is only on its way.                     *)
PublishWhileCancelling ==
    /\ "publish" \in Requests
    /\ status = "draft"
    /\ Funded
    /\ HasConfirmed("creation_fee")
    /\ status' = "published"
    /\ UNCHANGED <<outboxVars, cancelling, ended, settled, claim, guard, ban, workVars>>

PublishBeforeFee ==
    /\ "publish" \in Requests
    /\ status = "draft"
    /\ ~cancelling
    /\ Funded
    /\ HasNonFailed("creation_fee")
    /\ status' = "published"
    /\ UNCHANGED <<outboxVars, cancelling, ended, settled, claim, guard, ban, workVars>>

(* The publish route: can_publish_spot and publish_spot in one transaction. *)
Publish ==
    /\ "publish" \in Requests
    /\ status = "draft"
    /\ ~cancelling
    /\ Funded
    /\ HasConfirmed("creation_fee")
    /\ status' = "published"
    /\ UNCHANGED <<outboxVars, cancelling, ended, settled, claim, guard, ban, workVars>>

(* starts_at + ends_at passes.                                              *)
PeriodEnds ==
    /\ "end" \in Requests
    /\ status = "published"
    /\ ~ended
    /\ ended' = TRUE
    /\ UNCHANGED <<outboxVars, status, cancelling, settled, claim, guard, ban, workVars>>

-----------------------------------------------------------------------------
(* Claims *)

(* get_claim_rule_check *)
CanClaim == status = "published" /\ ~ended /\ ~cancelling /\ ~CapacityReached

(* create_claim_attempt: the rules, then the insert, which a trigger also   *)
(* refuses once cancellation has started.  An immediate claim is promoted   *)
(* in the same transaction; a duration claim waits.                         *)
CreateClaim(c) ==
    /\ claim[c] = "none"
    /\ CanClaim
    /\ claim' = [claim EXCEPT ![c] = IF Duration THEN "pending" ELSE "success"]
    /\ UNCHANGED <<outboxVars, status, cancelling, ended, settled, guard, ban, workVars>>

(* fail_pending_standard_duration_claims_if_capacity_full *)
FailPendingIfFull(cl) ==
    [c \in Claims |->
        IF cl[c] = "pending" /\ SuccessesIn(cl) >= MaxTotalClaims THEN "failed" ELSE cl[c]]

(* Mutant of Promote: the UPDATE does not count the successes. *)
PromoteUnchecked(c) == [claim EXCEPT ![c] = "success"]

(* promote_pending_claim_to_success_if_capacity_available; taking the last  *)
(* reward fails the other pending claims in the same transaction.           *)
Promote(c) ==
    IF CapacityReached THEN [claim EXCEPT ![c] = "failed"]
                       ELSE FailPendingIfFull([claim EXCEPT ![c] = "success"])

(* refresh_claim_status_from_conditions, from the settlement loop or the    *)
(* claimant's refresh and heartbeat routes: the waiting time has passed.    *)
PromoteClaim(c) ==
    /\ claim[c] = "pending"
    /\ claim' = Promote(c)
    /\ UNCHANGED <<outboxVars, status, cancelling, ended, settled, guard, ban, workVars>>

(* The claimant went silent or left the radius for too long.                *)
FailClaim(c) ==
    /\ claim[c] = "pending"
    /\ claim' = [claim EXCEPT ![c] = "failed"]
    /\ UNCHANGED <<outboxVars, status, cancelling, ended, settled, guard, ban, workVars>>

(* payout_standard_claim_if_ready reads on one connection ...               *)
BeginPayout(c) ==
    /\ c \in Unpaid
    /\ c \notin payout
    /\ payout' = payout \cup {c}
    /\ UNCHANGED <<outboxVars, spotVars, cancel, remainder, sweep>>

(* Mutant of SubmitPayout: the payout is not guarded against a ban. *)
SubmitPayoutUnguarded(c) ==
    /\ c \in payout
    /\ payout' = payout \ {c}
    /\ CreateIntent(c, Reward) \/ (HasNonFailed(c) /\ UNCHANGED outboxVars)
    /\ UNCHANGED <<spotVars, cancel, remainder, sweep>>

(* ... and sends on another: _guarded_create_claim_transaction refuses a    *)
(* banned Spot, the unique index a second active payout.                    *)
SubmitPayout(c) ==
    /\ c \in payout
    /\ payout' = payout \ {c}
    /\ \/ status # "banned" /\ CreateIntent(c, Reward)
       \/ (status = "banned" \/ HasNonFailed(c)) /\ UNCHANGED outboxVars
    /\ UNCHANGED <<spotVars, cancel, remainder, sweep>>

-----------------------------------------------------------------------------
(* Cancellation: guarded_submit_spot_cancellation_transactions, under the   *)
(* per-Spot lock of one process, called by the route and by                 *)
(* retry_pending_spot_cancellations.                                        *)

CancelSlots == {"refund", "platform_fee"}

FailedLegs(slots) == {t \in Page : trans[t].slot \in slots /\ trans[t].status = "failed"}

(* _single_retryable_failed_refund *)
RetryableRefund(t) ==
    /\ FailedLegs({"refund"}) = {t}
    /\ FailedLegs({"platform_fee"}) = {}
    /\ \A u \in Page : trans[u].slot = "refund" => u = t

(* The first reads: the failed legs, and whether the chain proves the one   *)
(* failed refund failed (unproven when the RPC cannot be asked).            *)
CancelCheck ==
    /\ cancel.pc = "idle"
    /\ status \in {"draft", "published"}
    /\ "cancel" \in Requests \/ cancelling
    /\ \E proven \in BOOLEAN :
          /\ proven => \E t \in Page : RetryableRefund(t) /\ chain[t] = "rejected"
          /\ ~proven => \/ "rpc_error" \in Faults
                        \/ ~\E t \in Page : RetryableRefund(t) /\ chain[t] = "rejected"
          /\ cancel' = [NoCancel EXCEPT !.pc = "checked", !.proven = proven,
                                       !.legs = FailedLegs(CancelSlots) # {}]
    /\ UNCHANGED <<outboxVars, spotVars, payout, remainder, sweep>>

(* Mutant of CancelLease: failed legs do not block the next pass. *)
CancelLeaseIgnoresLegs ==
    /\ cancel.pc = "checked"
    /\ IF guard = "none"
       THEN cancel' = [NoCancel EXCEPT !.pc = "leased"] /\ guard' = "processing"
       ELSE cancel' = NoCancel /\ UNCHANGED guard
    /\ UNCHANGED <<outboxVars, status, cancelling, ended, settled, claim, ban,
                   payout, remainder, sweep>>

(* The guard row decides on what was read before: acquire the lease, block  *)
(* until the failure is proven, or give up.                                 *)
CancelLease ==
    /\ cancel.pc = "checked"
    /\ LET free == guard = "none" \/ (guard = "blocked_failed" /\ cancel.proven)
       IN  IF ~free
           THEN cancel' = NoCancel /\ UNCHANGED guard
           ELSE IF cancel.legs /\ ~cancel.proven
           THEN cancel' = NoCancel /\ guard' = "blocked_failed"
           ELSE cancel' = [NoCancel EXCEPT !.pc = "leased"] /\ guard' = "processing"
    /\ UNCHANGED <<outboxVars, status, cancelling, ended, settled, claim, ban,
                   payout, remainder, sweep>>

(* The checks of submit_spot_cancellation_transactions that raise.          *)
NotCancellable ==
    \/ status \notin {"draft", "published"}
    \/ status = "published" /\ CapacityReached
    \/ status = "draft" /\ \A t \in Page : trans[t].slot # Deposit

(* Mutant of MustDefer: a pending deposit is not waited for. *)
MustDeferIgnoresDeposits ==
    \/ status = "published" /\ Unpaid # {}
    \/ PendingIn(Page, Claims \cup CancelSlots \cup {"creation_fee"})

(* The reasons to wait.                                                     *)
MustDefer ==
    \/ status = "published" /\ Unpaid # {}
    \/ status = "draft" /\ PendingIn(Page, {Deposit})
    \/ PendingIn(Page, Claims \cup CancelSlots \cup {"creation_fee"})

Remaining(tab) ==
    Minus(ConfirmedIn(tab, Page, {Deposit}),
          ConfirmedIn(tab, Page, Claims \cup {"creation_fee"}))

(* Mutant of FeeDue: the fee is not capped by what is left. *)
FeeDueUncapped == Minus(CancellationFee, ConfirmedIn(trans, Page, {"platform_fee"}))

FeeDue == Minus(Min({CancellationFee, Remaining(trans)}), ConfirmedIn(trans, Page, {"platform_fee"}))

RefundDue ==
    Minus(Minus(Remaining(trans), Min({CancellationFee, Remaining(trans)})),
          ConfirmedIn(trans, Page, {"refund"}))

(* The BEGIN IMMEDIATE transaction: mark the Spot, then wait, finish, or    *)
(* plan the two sends.                                                      *)
CancelPrepare ==
    /\ cancel.pc = "leased"
    /\ \/ /\ NotCancellable
          /\ cancel' = [cancel EXCEPT !.pc = "release"]
          /\ UNCHANGED <<cancelling, status>>
       \/ /\ ~NotCancellable
          /\ cancelling' = TRUE
          /\ \/ /\ MustDefer
                /\ cancel' = [cancel EXCEPT !.pc = "release"]
                /\ UNCHANGED status
             \/ /\ ~MustDefer
                /\ FeeDue + RefundDue = 0
                /\ status' = "cancelled"
                /\ cancel' = [cancel EXCEPT !.pc = "release"]
             \/ /\ ~MustDefer
                /\ FeeDue + RefundDue > 0
                /\ cancel' = [cancel EXCEPT !.pc = "planned", !.fee = FeeDue, !.refund = RefundDue]
                /\ UNCHANGED status
    /\ UNCHANGED <<outboxVars, ended, settled, claim, guard, ban, payout, remainder, sweep>>

(* The refund address cannot be resolved: wait.                             *)
CancelResolveFails ==
    /\ "rpc_error" \in Faults
    /\ cancel.pc = "planned"
    /\ cancel.refund > 0
    /\ cancel' = [cancel EXCEPT !.pc = "release"]
    /\ UNCHANGED <<outboxVars, spotVars, payout, remainder, sweep>>

(* One leg: nothing to send, an active leg already recorded (the unique     *)
(* index refuses the insert and the pass ends), or an intent.               *)
CancelSend(slot, amount, next, sending) ==
    \/ /\ amount = 0 \/ HasNonFailed(slot)
       /\ cancel' = [cancel EXCEPT !.pc = IF amount = 0 THEN next ELSE "release"]
       /\ UNCHANGED outboxVars
    \/ /\ amount > 0
       /\ CreateIntent(slot, amount)
       /\ cancel' = [cancel EXCEPT !.pc = sending, !.row = count + 1]

CancelFee ==
    /\ cancel.pc = "planned"
    /\ CancelSend("platform_fee", cancel.fee, "refund", "fee_sending")
    /\ UNCHANGED <<spotVars, payout, remainder, sweep>>

CancelRefund ==
    /\ cancel.pc = "refund"
    /\ CancelSend("refund", cancel.refund, "release", "refund_sending")
    /\ UNCHANGED <<spotVars, payout, remainder, sweep>>

(* Mutants of CancelSent: an ambiguous send ends like a recorded one, or    *)
(* its intent is marked failed.                                             *)
CancelSentReleases ==
    /\ cancel.pc \in {"fee_sending", "refund_sending"}
    /\ sender[cancel.row] = "idle"
    /\ cancel' = [cancel EXCEPT !.row = 0,
                    !.pc = IF cancel.pc = "fee_sending" THEN "refund" ELSE "release"]
    /\ UNCHANGED <<outboxVars, spotVars, payout, remainder, sweep>>

CancelSentFailsIntent ==
    /\ cancel.pc \in {"fee_sending", "refund_sending"}
    /\ sender[cancel.row] = "idle"
    /\ trans[cancel.row].hash = "local"
    /\ SetStatus(cancel.row, "failed")
    /\ cancel' = [cancel EXCEPT !.row = 0, !.pc = "release"]
    /\ UNCHANGED <<spotVars, payout, remainder, sweep>>

(* _submit_recorded_chain_send returned, or raised and left its intent.     *)
CancelSent ==
    /\ cancel.pc \in {"fee_sending", "refund_sending"}
    /\ sender[cancel.row] = "idle"
    /\ cancel' = [cancel EXCEPT !.row = 0,
                    !.pc = IF trans[cancel.row].hash = "local" THEN "block"
                           ELSE IF cancel.pc = "fee_sending" THEN "refund" ELSE "release"]
    /\ UNCHANGED <<outboxVars, spotVars, payout, remainder, sweep>>

(* Mutant of CancelEnd: the lease is never released. *)
CancelEndKeepsLease ==
    /\ cancel.pc \in {"release", "block"}
    /\ cancel' = NoCancel
    /\ UNCHANGED <<outboxVars, spotVars, payout, remainder, sweep>>

(* _release_guard, or _block_guard after an ambiguous send.                 *)
CancelEnd ==
    /\ cancel.pc \in {"release", "block"}
    /\ guard' = IF cancel.pc = "release" THEN "none" ELSE "blocked_ambiguous"
    /\ cancel' = NoCancel
    /\ UNCHANGED <<outboxVars, status, cancelling, ended, settled, claim, ban,
                   payout, remainder, sweep>>

-----------------------------------------------------------------------------
(* The remainder: settle_spot_remainder_if_ready *)

(* Mutants of RemainderReady: unpaid rewards or unfinished duration claims  *)
(* are forgotten, or only a full Spot is ready.                             *)
RemainderReadyUnpaid ==
    /\ ~settled /\ ~cancelling
    /\ status = "completed" \/ (status = "published" /\ (ended \/ CapacityReached))
    /\ ~PendingIn(Page, Claims \cup {Deposit, "creation_fee", "remainder"})
    /\ ConfirmedIn(trans, Page, {"creation_fee"}) >= CreationFee

RemainderReadyWhenFull ==
    /\ ~settled /\ ~cancelling
    /\ status = "completed" \/ (status = "published" /\ CapacityReached)
    /\ \A c \in Claims : claim[c] = "success" => HasConfirmed(c)
    /\ ~PendingIn(Page, Claims \cup {Deposit, "creation_fee", "remainder"})

(* The conditions on which a pass goes on; every other early return leaves  *)
(* the Spot as it is.                                                       *)
RemainderReady ==
    /\ ~settled
    /\ ~cancelling
    /\ status = "completed" \/ (status = "published" /\ (ended \/ CapacityReached))
    /\ \A c \in Claims : claim[c] # "pending"
    /\ \A c \in Claims : claim[c] = "success" => HasConfirmed(c)
    /\ ~PendingIn(Page, Claims \cup {Deposit, "creation_fee", "remainder"})
    /\ ConfirmedIn(trans, Page, {"creation_fee"}) >= CreationFee

(* Mutant of RemainderDue: it is taken from the Spot's value, not from what *)
(* was deposited.                                                           *)
RemainderDueOfValue == Minus(TotalValue, ConfirmedIn(trans, Page, Claims \cup {"remainder"}))

RemainderDue ==
    Minus(ConfirmedIn(trans, Page, {Deposit}),
          ConfirmedIn(trans, Page, Claims \cup {"creation_fee", "remainder"}))

(* Its transaction completes the Spot and either records that nothing is    *)
(* left or leaves the loop with an amount to send.                          *)
RemainderPrepare ==
    /\ remainder.pc = "idle"
    /\ RemainderReady
    /\ status' = "completed"
    /\ settled' = (RemainderDue = 0)
    /\ remainder' = IF RemainderDue = 0 THEN NoRemainder
                    ELSE [pc |-> "prepared", amount |-> RemainderDue]
    /\ UNCHANGED <<outboxVars, cancelling, ended, claim, guard, ban, cancel, payout, sweep>>

(* submit_spot_remainder_refund_transaction reads the status ...            *)
RemainderCheck ==
    /\ remainder.pc = "prepared"
    /\ remainder' = IF status = "completed" THEN [remainder EXCEPT !.pc = "checked"]
                                            ELSE NoRemainder
    /\ UNCHANGED <<outboxVars, spotVars, cancel, payout, sweep>>

RemainderResolveFails ==
    /\ "rpc_error" \in Faults
    /\ remainder.pc = "prepared"
    /\ remainder' = NoRemainder
    /\ UNCHANGED <<outboxVars, spotVars, cancel, payout, sweep>>

(* ... and creates the intent in a later transaction, which only looks for  *)
(* another active remainder.                                                *)
RemainderSubmit ==
    /\ remainder.pc = "checked"
    /\ remainder' = NoRemainder
    /\ IF HasNonFailed("remainder") THEN UNCHANGED outboxVars
                                    ELSE CreateIntent("remainder", remainder.amount)
    /\ UNCHANGED <<spotVars, cancel, payout, sweep>>

-----------------------------------------------------------------------------
(* Moderation: ban_spot and attempt_banned_spot_sweep *)

(* _fail_claims_without_committed_payout *)
FailUncommitted ==
    [c \in Claims |-> IF claim[c] = "none" \/ HasNonFailed(c) THEN claim[c] ELSE "failed"]

(* Mutant of BanSpot: a cancellation in progress does not refuse the ban. *)
BanSpotWhileCancelling ==
    /\ "ban" \in Requests
    /\ status # "cancelled"
    /\ status' = "banned"
    /\ ban' = "pending_sweep"
    /\ UNCHANGED <<outboxVars, cancelling, ended, settled, claim, guard, workVars>>

(* A second ban only reopens the sweep.                                     *)
BanSpot ==
    /\ "ban" \in Requests
    /\ status # "cancelled"
    /\ status = "banned" \/ ~cancelling
    /\ status' = "banned"
    /\ ban' = "pending_sweep"
    /\ claim' = FailUncommitted
    /\ UNCHANGED <<outboxVars, cancelling, ended, settled, guard, workVars>>

(* Mutant of Unswept: the sweep itself is not counted as spent. *)
UnsweptIgnoresSweep ==
    Minus(ConfirmedIn(trans, Page, {Deposit}),
          ConfirmedIn(trans, Page, Payouts \ {"platform_fee"}))

Unswept == Minus(ConfirmedIn(trans, Page, {Deposit}), ConfirmedIn(trans, Page, Payouts))

(* reconcile_banned_spot_sweeps visits the records that are not swept.      *)
SweepOpen ==
    /\ status = "banned"
    /\ ban \in {"pending_sweep", "blocked"}

(* Mutant of SweepReview: pending rows do not delay the final mark. *)
SweepReviewEarly ==
    /\ SweepOpen
    /\ Unswept = 0
    /\ ban' = "swept"
    /\ UNCHANGED <<outboxVars, status, cancelling, ended, settled, claim, guard, workVars>>

(* The outcomes that send nothing: wait for pending rows, record that the   *)
(* balance is gone, or stop at an unexpected platform fee.                  *)
SweepReview ==
    /\ SweepOpen
    /\ \/ PendingIn(Page, Slots)
       \/ Unswept = 0
       \/ \E t \in Page : trans[t].slot = "platform_fee" /\ trans[t].status # "failed"
    /\ ban' = IF PendingIn(Page, Slots) THEN "pending_sweep"
              ELSE IF Unswept = 0 THEN "swept" ELSE "blocked"
    /\ UNCHANGED <<outboxVars, status, cancelling, ended, settled, claim, guard, workVars>>

(* Mutant of SweepSubmit: rewards on their way are swept as well. *)
SweepSubmitIgnoresPending ==
    /\ SweepOpen
    /\ Unswept > 0
    /\ CreateIntent("platform_fee", Unswept)
    /\ sweep = 0
    /\ sweep' = count + 1
    /\ UNCHANGED <<spotVars, cancel, payout, remainder>>

(* _create_ban_sweep_transaction rechecks everything inside its transaction.*)
SweepSubmit ==
    /\ SweepOpen
    /\ ~PendingIn(Page, Slots)
    /\ Unswept > 0
    /\ CreateIntent("platform_fee", Unswept)
    /\ sweep = 0
    /\ sweep' = count + 1
    /\ UNCHANGED <<spotVars, cancel, payout, remainder>>

SweepSent ==
    /\ sweep # 0
    /\ sender[sweep] = "idle"
    /\ ban' = IF trans[sweep].hash = "local" THEN "blocked" ELSE "pending_sweep"
    /\ sweep' = 0
    /\ UNCHANGED <<outboxVars, status, cancelling, ended, settled, claim, guard,
                   cancel, payout, remainder>>

-----------------------------------------------------------------------------
(* The refresher *)

(* Mutant of FinalizesCancellation: the amounts are not compared. *)
FinalizesWhenLegsFinal(tab) ==
    /\ status \in {"draft", "published"}
    /\ \E t \in Page : tab[t].slot \in CancelSlots
    /\ \A t \in Page : tab[t].slot \in CancelSlots => tab[t].status # "pending"

(* _finalize_cancelled_spot_if_ready, inside mark_trans_as_confirmed and    *)
(* mark_trans_as_failed: both legs are final and cover what was left.       *)
FinalizesCancellation(tab) ==
    /\ status \in {"draft", "published"}
    /\ \E t \in Page : tab[t].slot \in CancelSlots
    /\ \A t \in Page : tab[t].slot \in CancelSlots => tab[t].status # "pending"
    /\ ConfirmedIn(tab, Page, CancelSlots) >= Remaining(tab)

(* One row of check_pending_transactions.  Only the rejection of a sender   *)
(* does not look at the cancellation.                                       *)
RefreshRow(t) ==
    /\ OutboxRefresh(t)
    /\ status' = IF ~RejectSender(t) /\ FinalizesCancellation(trans') THEN "cancelled" ELSE status
    /\ UNCHANGED <<cancelling, ended, settled, claim, guard, ban, workVars>>

RecoverRow(t) == RecoverIntent(t) /\ UNCHANGED <<spotVars, workVars>>

SendRow(t) == OutboxSend(t) /\ UNCHANGED <<spotVars, workVars>>

ChainRow(t) == OutboxChain(t) /\ UNCHANGED <<spotVars, workVars>>

(* The process stops: every coroutine is lost, every committed row stays,   *)
(* the guard row of a cancellation that held the lease included.            *)
SpotCrash ==
    /\ "crash" \in Faults
    /\ sender' = [t \in TransIds |-> "idle"]
    /\ cancel' = NoCancel /\ payout' = {} /\ remainder' = NoRemainder /\ sweep' = 0
    /\ UNCHANGED <<trans, count, chain, moved, spotVars>>

CancelStep ==
    \/ CancelCheck \/ CancelLease \/ CancelPrepare \/ CancelResolveFails
    \/ CancelFee \/ CancelRefund \/ CancelSent \/ CancelEnd

RemainderStep ==
    RemainderPrepare \/ RemainderCheck \/ RemainderResolveFails \/ RemainderSubmit

BanStep == BanSpot \/ SweepReview \/ SweepSubmit \/ SweepSent

SpotNext ==
    \/ \E a \in DepositValues, v \in DepositValues \cup {0} : RecordDeposit(a, v)
    \/ SubmitCreationFee \/ Publish \/ PeriodEnds
    \/ \E c \in Claims :
          CreateClaim(c) \/ PromoteClaim(c) \/ FailClaim(c) \/ BeginPayout(c) \/ SubmitPayout(c)
    \/ CancelStep \/ RemainderStep \/ BanStep
    \/ \E t \in TransIds : RefreshRow(t) \/ RecoverRow(t) \/ SendRow(t) \/ ChainRow(t)
    \/ SpotCrash

SpotSpec == SpotInit /\ [][SpotNext]_vars

(***************************************************************************)
(* Fairness: the settlement loop runs every pass (durations, payouts,      *)
(* remainders, cancellations), the refresher polls and submits creation    *)
(* fees and sweeps, coroutines go on, the chain includes transactions.     *)
(* People owe nothing: publishing, claiming, cancelling, banning.          *)
(***************************************************************************)
SpotFairness ==
    /\ WF_vars(SubmitCreationFee)
    /\ \A c \in Claims :
          /\ WF_vars(PromoteClaim(c) \/ FailClaim(c))
          /\ WF_vars(BeginPayout(c))
          /\ WF_vars(SubmitPayout(c))
    /\ WF_vars(cancelling /\ CancelCheck)
    /\ WF_vars(CancelLease \/ CancelPrepare \/ CancelFee \/ CancelRefund \/ CancelSent \/ CancelEnd)
    /\ WF_vars(RemainderPrepare)
    /\ WF_vars(RemainderCheck \/ RemainderSubmit)
    /\ WF_vars(SweepReview) /\ WF_vars(SweepSubmit) /\ WF_vars(SweepSent)
    /\ \A t \in TransIds :
          /\ WF_vars((BroadcastOk(t) \/ RecordHash(t)) /\ UNCHANGED <<spotVars, workVars>>)
          /\ WF_vars(ChainExecutes(t) /\ UNCHANGED <<spotVars, workVars>>)
          /\ WF_vars(RefreshRow(t))
          /\ WF_vars(RecoverRow(t))

SpotFairSpec == SpotSpec /\ SpotFairness

-----------------------------------------------------------------------------
(* Properties *)

Committed == AmountOf(trans, TransIds, Payouts, {"pending", "confirmed"})

Spent == ConfirmedIn(trans, TransIds, Payouts)

(* The Spot never commits itself to pay out more than its confirmed         *)
(* deposits: rewards, fees, refund, remainder and sweep are decided by      *)
(* different coroutines, each from the rows it read.                        *)
NoOvercommit == Committed <= DepositTotal

(* A cancelled Spot has returned or spent every confirmed Luna and owes no  *)
(* reward: submit_spot_cancellation_transactions and                        *)
(* _finalize_cancelled_spot_if_ready close it only then.                    *)
CancelledIsSquare ==
    status = "cancelled" =>
        /\ Spent = DepositTotal
        /\ \A c \in Claims : claim[c] = "success" => HasConfirmed(c)

(* The remainder-settled marker takes the Spot out of the settlement queue  *)
(* for good, so nothing may be left when it is set.                         *)
SettledIsSquare ==
    settled =>
        /\ Spent = DepositTotal
        /\ \A c \in Claims : claim[c] \notin {"pending"} /\ (claim[c] = "success" => HasConfirmed(c))

(* A cancellation send whose outcome is unknown keeps the guard row: no     *)
(* later pass may plan a refund while it could still reach the chain.       *)
AmbiguousSendKeepsGuard ==
    \A t \in TransIds :
        /\ trans[t].slot \in CancelSlots
        /\ status # "banned"
        /\ IsLocalIntent(t)
        => guard \in {"processing", "blocked_ambiguous"}

(* A failed cancellation leg is sent again at most once, however its        *)
(* failure races the reads of the next pass.                                *)
LegsRetriedOnce ==
    status # "banned" =>
        \A s \in CancelSlots : Cardinality({t \in TransIds : trans[t].slot = s}) <= 2

(* A Spot is public only with every deposit resolved, its value and its     *)
(* creation fee confirmed, whatever the creator reports while it publishes. *)
PublishedIsFunded ==
    status \in {"published", "completed"} =>
        /\ Funded
        /\ HasConfirmed("creation_fee")
        /\ ~PendingIn(TransIds, {Deposit})

(* A ban record leaves the reconciliation queue only with nothing left.     *)
SweptIsSquare ==
    ban = "swept" => Spent = DepositTotal /\ ~PendingIn(TransIds, Slots)

(* Cancellation never sends a refund while a successful claim has no active *)
(* reward transaction.                                                      *)
RefundLeavesRewards ==
    status # "banned" /\ HasNonFailed("refund") => Unpaid = {}

(* The creator's remainder refund and the moderation sweep are never both   *)
(* committed.                                                               *)
NoCompetingReturns == ~(HasNonFailed("remainder") /\ HasNonFailed("platform_fee"))

(* The window between the status read of a remainder refund and its intent  *)
(* costs at most one of the two returns: with the remainder or with the     *)
(* sweep alone, everything committed is covered, rewards and fee included,  *)
(* and until a ban all of it is.                                            *)
EitherReturnFits ==
    /\ status # "banned" => NoOvercommit
    /\ \A s \in {"remainder", "platform_fee"} :
          AmountOf(trans, TransIds, Payouts \ {s}, {"pending", "confirmed"}) =< DepositTotal

(* However a Spot ends, its creator, its claimants and the platform have    *)
(* received exactly what was deposited.                                     *)
MoneyIsSquare == CancelledIsSquare /\ SettledIsSquare /\ SweptIsSquare

(* A cancellation leg goes out again only when the failure of the previous  *)
(* one is known, and then once.                                             *)
RefundSentOnce == AmbiguousSendKeepsGuard /\ LegsRetriedOnce

(* The life of a Spot goes one way, and no retry, crash or late             *)
(* confirmation moves it back.                                              *)
Lifecycle ==
    [][/\ status' # status => <<status, status'>> \in
             {<<"draft", "published">>, <<"draft", "cancelled">>, <<"draft", "banned">>,
              <<"published", "completed">>, <<"published", "cancelled">>,
              <<"published", "banned">>, <<"completed", "banned">>}
       /\ cancelling => cancelling' /\ status' \in {status, "cancelled"}
       /\ settled => settled'
       /\ status' = "cancelled" => cancelling']_vars

(* A ban stops rewards at once, also those a coroutine had already decided  *)
(* to pay: no claim gets a first payout row after it.                       *)
BannedStopsPayouts ==
    [][status = "banned" =>
         \A c \in Claims : ~HasNonFailed(c) => ~HasNonFailed(c)']_vars

(* Together: what has ended stays ended, and nobody is paid out of it.      *)
EndsForGood == Lifecycle /\ BannedStopsPayouts

(* What the chain has paid out for the Spot, also by sends whose answer was *)
(* lost and whose rows are still local intents.                             *)
PaidOut ==
    SumFunctionOnSet(moved, {t \in TransIds : trans[t].slot \in Payouts /\ chain[t] = "executed"})

Ended == status = "cancelled" \/ settled \/ ban = "swept"

Escrow == INSTANCE SpotEscrow WITH
    received <- DepositTotal, promised <- Committed, paid <- PaidOut, closed <- Ended

(* Whatever the routes, the settlement loop, the refresher and moderation   *)
(* decide at the same time, and whatever fails: the Spot's money is an      *)
(* escrow account, down to what the chain really executes.                  *)
ImplementsEscrow == Escrow!Spec

(* The outbox's own guarantees hold of the composition. *)
ImplementsOutbox == OutboxSpec

(* A deposit reported for the Spot paid another address: its row stays      *)
(* pending, and whatever waits for pending deposits waits with it.          *)
DepositAstray == \E t \in TransIds : Misdirected(t)

(* Without failures every cancellation ends, also one that had to wait for  *)
(* deposits, rewards or fees.                                               *)
CancellationEnds == cancelling ~> status = "cancelled" \/ DepositAstray

(* Without failures a Spot whose period is over returns its remainder.      *)
RemainderReturned ==
    (status = "published" /\ ended) ~> (settled \/ cancelling \/ status = "banned")

(* Without failures a banned Spot is swept.                                 *)
BanSwept == status = "banned" ~> ban = "swept" \/ DepositAstray

(* A top-up recorded for the Spot's own Nimiq Pay account, which            *)
(* record_spot_deposit_transaction compares and no other, funds the Spot    *)
(* once it has paid what was due, whatever address Nimiq Pay sent it from.  *)
TopUpsCount ==
    \A t \in TransIds :
        /\ trans[t].slot = Deposit
        /\ chain[t] = "executed"
        /\ moved[t] > 0 /\ moved[t] >= trans[t].amount
        => trans[t].status # "failed"

(* Whatever ends a Spot, its money goes back without anybody's help, and    *)
(* only a draft can be held up by a deposit that went astray.               *)
MoneyReturns == CancellationEnds /\ RemainderReturned /\ BanSwept
=============================================================================
