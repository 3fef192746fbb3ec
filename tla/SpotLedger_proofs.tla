-------------------------- MODULE SpotLedger_proofs --------------------------
(***************************************************************************)
(* Proofs about the money of one Standard Spot, for any claims, values,    *)
(* fees, deposits, requests and failures and any number of rows.  A Luna   *)
(* amount may be any natural number: Unbounded says so of the constant     *)
(* that bounds the amounts of a run.                                       *)
(***************************************************************************)
EXTENDS SpotLedger, TransOutbox_proofs, SumTheorems

Unbounded == Nat \subseteq Amounts

(* No Spot has more rows than db_access.MAX_LIMIT: a page is the table.     *)
WholePage == MaxRows =< PageLimit

-----------------------------------------------------------------------------
(* What the sums over the table are. *)

Rowset(tab, rows, slots, sts) == {t \in rows : tab[t].slot \in slots /\ tab[t].status \in sts}

AmountColumn(tab) == [t \in TransIds |-> tab[t].amount]

(* AmountOf is the sum of the amounts of the selected rows. *)
LEMMA AmountOfIsSum ==
    ASSUME NEW tab, NEW rows, NEW slots, NEW sts
    PROVE  AmountOf(tab, rows, slots, sts) = Sum(AmountColumn(tab), Rowset(tab, rows, slots, sts))
BY DEF AmountOf, Sum, AmountColumn, Rowset

LEMMA RowsFinite ==
    ASSUME NEW rows, rows \subseteq TransIds
    PROVE  IsFiniteSet(rows)
<1>1. IsFiniteSet(TransIds)
    BY OutboxAssumption, FS_Interval DEF TransIds
<1> QED BY <1>1, FS_Subset

LEMMA AmountsAreNat == \A a \in Amounts \cup {0} : a \in Nat
BY OutboxAssumption

LEMMA AmountNat ==
    ASSUME NEW tab \in [TransIds -> Rows], NEW rows, rows \subseteq TransIds, NEW slots, NEW sts
    PROVE  /\ AmountOf(tab, rows, slots, sts) \in Nat
           /\ IsFiniteSet(Rowset(tab, rows, slots, sts))
           /\ \A t \in TransIds : AmountColumn(tab)[t] \in Nat /\ AmountColumn(tab)[t] = tab[t].amount
<1>1. ASSUME NEW t \in TransIds
      PROVE  AmountColumn(tab)[t] \in Nat /\ AmountColumn(tab)[t] = tab[t].amount
    <2>1. tab[t] \in Rows
        OBVIOUS
    <2>3. tab[t].amount \in Amounts \cup {0}
        BY <2>1 DEF Rows
    <2>2. tab[t].amount \in Nat
        BY <2>3, AmountsAreNat
    <2> QED BY <2>2 DEF AmountColumn
<1>2. IsFiniteSet(Rowset(tab, rows, slots, sts)) /\ Rowset(tab, rows, slots, sts) \subseteq TransIds
    BY RowsFinite DEF Rowset
<1>3. Sum(AmountColumn(tab), Rowset(tab, rows, slots, sts)) \in Nat
    BY <1>1, <1>2, SumType
<1> QED BY <1>1, <1>2, <1>3, AmountOfIsSum

(* Tables that agree on the selected rows have the same sum. *)
LEMMA AmountSame ==
    ASSUME NEW tab \in [TransIds -> Rows], NEW tab2 \in [TransIds -> Rows],
           NEW rows, rows \subseteq TransIds, NEW slots, NEW sts,
           Rowset(tab, rows, slots, sts) = Rowset(tab2, rows, slots, sts),
           \A t \in Rowset(tab, rows, slots, sts) : tab[t].amount = tab2[t].amount
    PROVE  AmountOf(tab, rows, slots, sts) = AmountOf(tab2, rows, slots, sts)
<1> DEFINE S == Rowset(tab, rows, slots, sts)
<1>0. IsFiniteSet(S)
    BY AmountNat
<1>1. S \subseteq TransIds
    BY DEF Rowset
<1>2. \A t \in S : AmountColumn(tab)[t] \in Nat /\ AmountColumn(tab2)[t] = AmountColumn(tab)[t]
    BY <1>1, AmountNat
<1> HIDE DEF S
<1>3. Sum(AmountColumn(tab), S) = Sum(AmountColumn(tab2), S)
    BY <1>0, <1>2, SumSame
<1> QED BY <1>3, AmountOfIsSum DEF S

LEMMA MinOfTwo ==
    ASSUME NEW a \in Int, NEW b \in Int
    PROVE  Min({a, b}) = IF a =< b THEN a ELSE b
<1>1. Min({a, b}) \in {a, b} /\ \A y \in {a, b} : Min({a, b}) =< y
    <2>1. \E x \in {a, b} : \A y \in {a, b} : x =< y
        OBVIOUS
    <2> QED BY <2>1 DEF Min
<1> QED BY <1>1

LEMMA MinusNat ==
    ASSUME NEW a \in Nat, NEW b \in Nat
    PROVE  Minus(a, b) \in Nat /\ Minus(a, b) =< a
BY DEF Minus

LEMMA PageRows == TypeOK => Page \subseteq TransIds /\ count \in Nat /\ 1 .. count \subseteq TransIds
BY OutboxAssumption DEF TypeOK, Page, TransIds

-----------------------------------------------------------------------------
(* Every quantity the Spot computes is a natural number. *)
LEMMA Quantities ==
    ASSUME SpotTypeOK
    PROVE  /\ DepositTotal \in Nat /\ Required \in Nat /\ Reward \in Nat
           /\ FeeDue \in Nat /\ RefundDue \in Nat /\ RemainderDue \in Nat /\ Unswept \in Nat
<1>0. trans \in [TransIds -> Rows] /\ Page \subseteq TransIds
    BY PageRows DEF SpotTypeOK, TypeOK
<1>1. ASSUME NEW rows, rows \subseteq TransIds, NEW slots
      PROVE  ConfirmedIn(trans, rows, slots) \in Nat
    BY <1>0, <1>1, AmountNat DEF ConfirmedIn
<1>2. DepositTotal \in Nat /\ Required \in Nat
    BY <1>1, SpotAssumption DEF DepositTotal, Required
<1>3. Reward \in Nat
    BY SpotAssumption DEF Reward
<1>4. Remaining(trans) \in Nat
    BY <1>0, <1>1, MinusNat DEF Remaining
<1>5. Min({CancellationFee, Remaining(trans)}) \in Nat
    BY <1>4, SpotAssumption, MinOfTwo
<1>6. FeeDue \in Nat
    BY <1>0, <1>1, <1>5, MinusNat DEF FeeDue
<1>7. RefundDue \in Nat
    BY <1>0, <1>1, <1>4, <1>5, MinusNat DEF RefundDue
<1>8. RemainderDue \in Nat /\ Unswept \in Nat
    BY <1>0, <1>1, MinusNat DEF RemainderDue, Unswept
<1> QED BY <1>2, <1>3, <1>6, <1>7, <1>8

-----------------------------------------------------------------------------
(* The Spot uses the outbox and nothing else writes its table: every step   *)
(* of a Spot is one of the outbox or leaves the outbox as it is.            *)
LEMMA OutboxStep ==
    ASSUME Unbounded, SpotTypeOK, [SpotNext]_vars
    PROVE  [OutboxNext]_outboxVars
<1>1. ASSUME NEW s \in Payouts, NEW a \in Nat, CreateIntent(s, a) PROVE OutboxNext
    BY <1>1 DEF OutboxNext, Unbounded
<1>2. SpotSlots \subseteq Payouts /\ Claims \subseteq Payouts /\ DepositValues \subseteq Nat
    BY SpotAssumption
<1>3. ASSUME NEW a \in DepositValues, NEW v \in DepositValues \cup {0}, RecordDeposit(a, v)
      PROVE  OutboxNext
    <2> DEFINE d == Min({a, Required - DepositTotal})
    <2>1. DepositTotal < Required
        BY <1>3, Quantities DEF RecordDeposit, Funded
    <2>2. Required - DepositTotal \in Nat
        BY <2>1, Quantities
    <2>3. d \in Nat
        BY <1>2, <2>2, MinOfTwo
    <2>4. InsertDeposit(d, v)
        BY <1>3 DEF RecordDeposit
    <2>5. v \in Nat
        BY <1>2
    <2> HIDE DEF d
    <2> QED BY <2>3, <2>4, <2>5 DEF OutboxNext, Unbounded
<1>4. CASE SubmitCreationFee
    BY <1>1, <1>2, <1>4, SpotAssumption DEF SubmitCreationFee, SpotSlots
<1>5. CASE Publish \/ PeriodEnds
    BY <1>5 DEF Publish, PeriodEnds
<1>6. ASSUME NEW c \in Claims,
             CreateClaim(c) \/ PromoteClaim(c) \/ FailClaim(c) \/ BeginPayout(c)
      PROVE  UNCHANGED outboxVars
    BY <1>6 DEF CreateClaim, PromoteClaim, FailClaim, BeginPayout
<1>7. ASSUME NEW c \in Claims, SubmitPayout(c) PROVE [OutboxNext]_outboxVars
    BY <1>1, <1>2, <1>7, Quantities DEF SubmitPayout
<1>8. CASE CancelStep
    <2>0. cancel.fee \in Nat /\ cancel.refund \in Nat
        BY DEF SpotTypeOK, Cancellations
    <2>1. CASE CancelFee
        BY <1>1, <1>2, <2>0, <2>1 DEF CancelFee, CancelSend, SpotSlots
    <2>2. CASE CancelRefund
        BY <1>1, <1>2, <2>0, <2>2 DEF CancelRefund, CancelSend, SpotSlots
    <2>3. CASE CancelCheck \/ CancelLease \/ CancelPrepare \/ CancelResolveFails
                 \/ CancelSent \/ CancelEnd
        BY <2>3 DEF CancelCheck, CancelLease, CancelPrepare, CancelResolveFails, CancelSent, CancelEnd
    <2> QED BY <1>8, <2>1, <2>2, <2>3 DEF CancelStep
<1>9. CASE RemainderStep
    <2>0. remainder.amount \in Nat
        BY DEF SpotTypeOK
    <2>1. CASE RemainderSubmit
        BY <1>1, <1>2, <2>0, <2>1 DEF RemainderSubmit, SpotSlots
    <2>2. CASE RemainderPrepare \/ RemainderCheck \/ RemainderResolveFails
        BY <2>2 DEF RemainderPrepare, RemainderCheck, RemainderResolveFails
    <2> QED BY <1>9, <2>1, <2>2 DEF RemainderStep
<1>10. CASE BanStep
    <2>1. CASE SweepSubmit
        BY <1>1, <1>2, <2>1, Quantities DEF SweepSubmit, SpotSlots
    <2>2. CASE BanSpot \/ SweepReview \/ SweepSent
        BY <2>2 DEF BanSpot, SweepReview, SweepSent
    <2> QED BY <1>10, <2>1, <2>2 DEF BanStep
<1>11. ASSUME NEW t \in TransIds, RefreshRow(t) \/ RecoverRow(t) \/ SendRow(t) \/ ChainRow(t)
       PROVE  OutboxNext
    BY <1>11 DEF RefreshRow, RecoverRow, SendRow, ChainRow, OutboxNext
<1>12. CASE SpotCrash
    <2>1. sender \in [TransIds -> {"idle", "sending", "returned"}]
        BY DEF SpotTypeOK, TypeOK
    <2>2. CASE \E t \in TransIds : sender[t] # "idle"
        BY <1>12, <2>2 DEF SpotCrash, Crash, OutboxNext
    <2>3. CASE \A t \in TransIds : sender[t] = "idle"
        BY <1>12, <2>1, <2>3 DEF SpotCrash, outboxVars
    <2> QED BY <2>2, <2>3
<1>13. CASE UNCHANGED vars
    BY <1>13 DEF vars
<1> QED BY <1>3, <1>4, <1>5, <1>6, <1>7, <1>8, <1>9, <1>10, <1>11, <1>12, <1>13 DEF SpotNext

(* What the cancelling coroutine writes to its record. *)
LEMMA NoCancelType == NoCancel \in Cancellations
<1>0. 0 \in 0 .. MaxRows
    BY OutboxAssumption
<1> QED BY <1>0 DEF Cancellations, NoCancel, CancelPcs

LEMMA CancelMoves ==
    ASSUME NEW c \in Cancellations, NEW p \in CancelPcs
    PROVE  [c EXCEPT !.pc = p] \in Cancellations
BY DEF Cancellations

LEMMA CancelReads ==
    ASSUME NEW c \in Cancellations, NEW p \in CancelPcs, NEW b \in BOOLEAN, NEW d \in BOOLEAN
    PROVE  [c EXCEPT !.pc = p, !.proven = b, !.legs = d] \in Cancellations
BY DEF Cancellations

LEMMA CancelPlans ==
    ASSUME NEW c \in Cancellations, NEW p \in CancelPcs, NEW a \in Nat, NEW b \in Nat
    PROVE  [c EXCEPT !.pc = p, !.fee = a, !.refund = b] \in Cancellations
BY DEF Cancellations

LEMMA CancelSends ==
    ASSUME NEW c \in Cancellations, NEW p \in CancelPcs, NEW r \in 0 .. MaxRows
    PROVE  /\ [c EXCEPT !.pc = p, !.row = r] \in Cancellations
           /\ [c EXCEPT !.row = r, !.pc = p] \in Cancellations
BY DEF Cancellations

(* What the cancelling coroutine reads and plans has its types. *)
LEMMA CancelTypeStep ==
    ASSUME SpotTypeOK, CancelStep
    PROVE  cancel' \in Cancellations
<1>0. cancel \in Cancellations
    BY DEF SpotTypeOK
<1>1. CASE CancelCheck
    <2>1. PICK b \in BOOLEAN :
            cancel' = [NoCancel EXCEPT !.pc = "checked", !.proven = b,
                                       !.legs = FailedLegs(CancelSlots) # {}]
        BY <1>1, Zenon DEF CancelCheck
    <2>2. "checked" \in CancelPcs /\ (FailedLegs(CancelSlots) # {}) \in BOOLEAN
        BY DEF CancelPcs
    <2>3. NoCancel \in Cancellations
        BY NoCancelType
    <2> QED BY <2>1, <2>2, <2>3, CancelReads, Zenon
<1>2. CASE CancelLease
    <2>1. cancel' \in {NoCancel, [NoCancel EXCEPT !.pc = "leased"]}
        BY <1>2, Zenon DEF CancelLease
    <2>2. "leased" \in CancelPcs
        BY DEF CancelPcs
    <2>3. NoCancel \in Cancellations
        BY NoCancelType
    <2> QED BY <2>1, <2>2, <2>3, CancelMoves, Zenon
<1>3. CASE CancelPrepare
    <2>1. \/ cancel' = [cancel EXCEPT !.pc = "release"]
          \/ cancel' = [cancel EXCEPT !.pc = "planned", !.fee = FeeDue, !.refund = RefundDue]
        BY <1>3, Zenon DEF CancelPrepare
    <2>2. "planned" \in CancelPcs /\ "release" \in CancelPcs
        BY DEF CancelPcs
    <2>3. FeeDue \in Nat /\ RefundDue \in Nat
        BY Quantities
    <2>4. [cancel EXCEPT !.pc = "release"] \in Cancellations
        BY <1>0, <2>2, CancelMoves, Zenon
    <2>5. [cancel EXCEPT !.pc = "planned", !.fee = FeeDue, !.refund = RefundDue] \in Cancellations
        BY <1>0, <2>2, <2>3, CancelPlans, Zenon
    <2> QED BY <2>1, <2>4, <2>5, Zenon
<1>4. CASE CancelResolveFails \/ CancelFee \/ CancelRefund
    <2>1. PICK p \in {"refund", "fee_sending", "refund_sending", "release"} :
            \/ cancel' = [cancel EXCEPT !.pc = p]
            \/ cancel' = [cancel EXCEPT !.pc = p, !.row = count + 1] /\ count < MaxRows
        BY <1>4, Zenon DEF CancelResolveFails, CancelFee, CancelRefund, CancelSend,
                           CreateIntent, Insert
    <2>2. p \in CancelPcs
        BY DEF CancelPcs
    <2>3. count < MaxRows => count + 1 \in 0 .. MaxRows
        BY OutboxAssumption DEF SpotTypeOK, TypeOK
    <2>4. [cancel EXCEPT !.pc = p] \in Cancellations
        BY <1>0, <2>2, CancelMoves, Zenon
    <2>5. count < MaxRows => [cancel EXCEPT !.pc = p, !.row = count + 1] \in Cancellations
        BY <1>0, <2>2, <2>3, CancelSends, Zenon
    <2> QED BY <2>1, <2>4, <2>5, Zenon
<1>5. CASE CancelSent
    <2>1. PICK p \in {"block", "refund", "release"} :
            cancel' = [cancel EXCEPT !.row = 0, !.pc = p]
        BY <1>5, Zenon DEF CancelSent
    <2>2. p \in CancelPcs /\ 0 \in 0 .. MaxRows
        BY OutboxAssumption DEF CancelPcs
    <2>3. [cancel EXCEPT !.row = 0, !.pc = p] \in Cancellations
        BY <1>0, <2>2, CancelSends, Zenon
    <2> QED BY <2>1, <2>3, Zenon
<1>6. CASE CancelEnd
    BY <1>6, NoCancelType DEF CancelEnd
<1> QED BY <1>1, <1>2, <1>3, <1>4, <1>5, <1>6 DEF CancelStep

(* The types of the Spot's own state are kept by every step. *)
LEMMA SpotTypeStep ==
    ASSUME Unbounded, SpotTypeOK, [SpotNext]_vars
    PROVE  SpotTypeOK'
<1>1. TypeOK'
    BY OutboxStep, TypeStep DEF SpotTypeOK
<1> USE DEF SpotTypeOK
<1>2. CASE UNCHANGED <<spotVars, workVars>>
    BY <1>1, <1>2 DEF spotVars, workVars
<1>3. CASE Publish \/ PeriodEnds
    BY <1>1, <1>3 DEF Publish, PeriodEnds, workVars
<1>4. ASSUME NEW c \in Claims, CreateClaim(c) \/ PromoteClaim(c) \/ FailClaim(c)
      PROVE  SpotTypeOK'
    <2>1. claim' \in [Claims -> {"none", "pending", "success", "failed"}]
        BY <1>4 DEF CreateClaim, PromoteClaim, FailClaim, Promote, FailPendingIfFull
    <2> QED BY <1>1, <1>4, <2>1 DEF CreateClaim, PromoteClaim, FailClaim, workVars
<1>5. ASSUME NEW c \in Claims, BeginPayout(c) \/ SubmitPayout(c) PROVE SpotTypeOK'
    BY <1>1, <1>5 DEF BeginPayout, SubmitPayout, spotVars
<1>6. CASE CancelStep
    <2>1. cancel' \in Cancellations
        BY <1>6, CancelTypeStep
    <2>2. status' \in {"draft", "published", "completed", "cancelled", "banned"}
        BY <1>6 DEF CancelStep, CancelCheck, CancelLease, CancelPrepare, CancelResolveFails,
                    CancelFee, CancelRefund, CancelSent, CancelEnd, spotVars
    <2>3. /\ cancelling' \in BOOLEAN
          /\ ended' = ended /\ settled' = settled /\ claim' = claim /\ ban' = ban
          /\ guard' \in {"none", "processing", "blocked_failed", "blocked_ambiguous"}
          /\ payout' = payout /\ remainder' = remainder /\ sweep' = sweep
        BY <1>6 DEF CancelStep, CancelCheck, CancelLease, CancelPrepare, CancelResolveFails,
                    CancelFee, CancelRefund, CancelSent, CancelEnd, spotVars
    <2> QED BY <1>1, <2>1, <2>2, <2>3
<1>12. CASE RemainderStep
    <2>1. /\ status' \in {status, "completed"} /\ settled' \in BOOLEAN
          /\ cancelling' = cancelling /\ ended' = ended /\ claim' = claim /\ guard' = guard
          /\ ban' = ban /\ cancel' = cancel /\ payout' = payout /\ sweep' = sweep
        BY <1>12 DEF RemainderStep, RemainderPrepare, RemainderCheck, RemainderResolveFails,
                     RemainderSubmit, spotVars
    <2>2. remainder' \in [pc : {"idle", "prepared", "checked"}, amount : Nat]
        <3>1. RemainderDue \in Nat
            BY Quantities
        <3>2. \/ remainder' = NoRemainder
              \/ remainder' = [pc |-> "prepared", amount |-> RemainderDue]
              \/ remainder' = [remainder EXCEPT !.pc = "checked"]
            BY <1>12 DEF RemainderStep, RemainderPrepare, RemainderCheck, RemainderResolveFails,
                         RemainderSubmit
        <3> HIDE DEF SpotTypeOK
        <3>3. remainder \in [pc : {"idle", "prepared", "checked"}, amount : Nat]
            BY DEF SpotTypeOK
        <3> QED BY <3>1, <3>2, <3>3 DEF NoRemainder
    <2> QED BY <1>1, <2>1, <2>2
<1>13. CASE BanSpot \/ SweepReview
    BY <1>1, <1>13 DEF BanSpot, SweepReview, FailUncommitted, workVars
<1>14. CASE SweepSubmit \/ SweepSent
    <2>1. count < MaxRows => count + 1 \in 0 .. MaxRows
        BY OutboxAssumption DEF TypeOK
    <2>2. 0 \in 0 .. MaxRows
        BY OutboxAssumption
    <2> QED BY <1>1, <1>14, <2>1, <2>2 DEF SweepSubmit, SweepSent, CreateIntent, Insert, spotVars
<1>15. ASSUME NEW t \in TransIds, RefreshRow(t) PROVE SpotTypeOK'
    BY <1>1, <1>15 DEF RefreshRow, workVars
<1>16. CASE SpotCrash
    <2>1. 0 \in 0 .. MaxRows
        BY OutboxAssumption
    <2>2. NoCancel \in Cancellations
        BY NoCancelType
    <2> QED BY <1>1, <1>16, <2>1, <2>2 DEF SpotCrash, NoRemainder, spotVars
<1>17. ASSUME NEW t \in TransIds, RecoverRow(t) \/ SendRow(t) \/ ChainRow(t)
       PROVE  UNCHANGED <<spotVars, workVars>>
    BY <1>17 DEF RecoverRow, SendRow, ChainRow
<1>18. ASSUME NEW a, NEW v, RecordDeposit(a, v) PROVE UNCHANGED <<spotVars, workVars>>
    BY <1>18 DEF RecordDeposit
<1>19. SubmitCreationFee \/ UNCHANGED vars => UNCHANGED <<spotVars, workVars>>
    BY DEF SubmitCreationFee, vars
<1> QED BY <1>2, <1>3, <1>4, <1>5, <1>6, <1>12, <1>13, <1>14, <1>15, <1>16, <1>17, <1>18, <1>19
       DEF SpotNext, BanStep

-----------------------------------------------------------------------------
(* The initial table is empty. *)
LEMMA SpotTypeInit == SpotInit => SpotTypeOK
<1> SUFFICES ASSUME SpotInit PROVE SpotTypeOK
    OBVIOUS
<1>1. TypeOK
    BY InitIInv DEF SpotInit, IInv
<1>2. 0 \in 0 .. MaxRows
    BY OutboxAssumption
<1>3. NoCancel \in Cancellations
    BY NoCancelType
<1> QED BY <1>1, <1>2, <1>3 DEF SpotInit, SpotTypeOK, NoRemainder

(* Type correctness of the Spot, its claims, its coroutines and its part of *)
(* the transaction table, in every interleaving of routes, loops and        *)
(* administrator.                                                           *)
THEOREM SpotTypes == ASSUME Unbounded PROVE SpotSpec => []SpotTypeOK
<1>1. SpotTypeOK /\ [SpotNext]_vars => SpotTypeOK'
    BY SpotTypeStep
<1> QED BY <1>1, SpotTypeInit, PTL DEF SpotSpec

(* The Spot's coroutines use the transaction outbox as it promises to be    *)
(* used: whatever holds of every outbox holds of the one below a Spot.      *)
THEOREM SpotImplementsOutbox == ASSUME Unbounded PROVE SpotSpec => ImplementsOutbox
<1>1. SpotInit => OutboxInit
    BY DEF SpotInit
<1>2. SpotTypeOK /\ [SpotNext]_vars => [OutboxNext]_outboxVars
    BY OutboxStep
<1> QED BY <1>1, <1>2, SpotTypes, PTL DEF SpotSpec, OutboxSpec, ImplementsOutbox

(* No reward, fee, refund, remainder or sweep of a Spot is paid twice, and  *)
(* the ledger of a Spot says what the chain did.                            *)
THEOREM SpotPaysOnce ==
    ASSUME Unbounded
    PROVE  SpotSpec => [](PaidAtMostOnce /\ LedgerMatchesChain) /\ FinalRowsStay /\ PaysOnce
BY SpotImplementsOutbox, OutboxPaysAtMostOnce, OutboxLedger, OutboxFinal, OutboxRefinesPaidOnce, PTL
   DEF ImplementsOutbox

-----------------------------------------------------------------------------
(***************************************************************************)
(* What a step does to the table.  A row is added with a slot and an       *)
(* amount, one pending row is finalised, or the rows keep everything but   *)
(* their hash.                                                             *)
(***************************************************************************)
Row(s, a, h) == [slot |-> s, amount |-> a, status |-> "pending", hash |-> h]

RowAdded(s, a, h) ==
    /\ count + 1 \in TransIds /\ count \in Nat /\ count' = count + 1
    /\ trans[count + 1] = NoRow
    /\ trans'[count + 1] = Row(s, a, h)
    /\ \A t \in TransIds : t # count + 1 => trans'[t] = trans[t]

RowFinalised(t) ==
    /\ count' = count
    /\ trans[t].status = "pending" /\ trans[t].hash = "chain"
    /\ trans'[t].status \in {"confirmed", "failed"} /\ trans'[t].hash = "chain"
    /\ trans'[t].slot = trans[t].slot
    /\ trans[t].slot \in Payouts => trans'[t].amount = trans[t].amount
    /\ \A u \in TransIds : u # t => trans'[u] = trans[u]

RowsKept ==
    /\ count' = count
    /\ \A t \in TransIds :
          /\ trans'[t].slot = trans[t].slot
          /\ trans'[t].amount = trans[t].amount
          /\ trans'[t].status = trans[t].status
          /\ trans'[t].hash = "local" => trans[t].hash = "local"

LEMMA InsertAdds ==
    ASSUME IInv, NEW s, NEW a, NEW h, Insert(s, a, h)
    PROVE  RowAdded(s, a, h)
<1>1. count + 1 \in TransIds /\ count \in Nat
    BY NextRow DEF IInv, Insert
<1>2. trans[count + 1] = NoRow
    BY <1>1 DEF IInv, FreshRows
<1>3. trans \in [TransIds -> Rows]
    BY DEF IInv, TypeOK
<1> QED BY <1>1, <1>2, <1>3 DEF Insert, RowAdded, Row

LEMMA RefreshFinalises ==
    ASSUME IInv, NEW t \in TransIds, OutboxRefresh(t)
    PROVE  RowFinalised(t)
<1>0. trans \in [TransIds -> Rows] /\ Deposit \notin Payouts
    BY OutboxAssumption DEF IInv, TypeOK
<1>1. CASE MarkConfirmed(t)
    BY <1>0, <1>1 DEF MarkConfirmed, ProvenConfirmed, Verified, RowFinalised
<1>2. CASE MarkFailed(t)
    BY <1>0, <1>2 DEF MarkFailed, ProvenFailed, SetStatus, RowFinalised
<1>3. CASE RejectDeposit(t)
    BY <1>0, <1>3 DEF RejectDeposit, WrongDeposit, ProvenConfirmed, SetStatus, RowFinalised
<1>4. CASE ExpireDeposit(t)
    BY <1>0, <1>4 DEF ExpireDeposit, StaleDeposit, SetStatus, RowFinalised
<1>5. CASE RejectSender(t)
    BY <1>0, <1>5 DEF RejectSender, ProvenConfirmed, Verified, RowFinalised
<1> QED BY <1>1, <1>2, <1>3, <1>4, <1>5 DEF OutboxRefresh

LEMMA OthersKeep ==
    ASSUME IInv,
           \/ \E t \in TransIds : OutboxSend(t) \/ OutboxChain(t) \/ RecoverIntent(t)
           \/ Crash \/ UNCHANGED outboxVars \/ UNCHANGED <<trans, count>>
    PROVE  RowsKept
<1>0. trans \in [TransIds -> Rows]
    BY DEF IInv, TypeOK
<1>1. ASSUME NEW t \in TransIds, trans' = [trans EXCEPT ![t].hash = "chain"], count' = count
      PROVE  RowsKept
    BY <1>0, <1>1 DEF RowsKept
<1>2. ASSUME UNCHANGED <<trans, count>> PROVE RowsKept
    BY <1>2 DEF RowsKept
<1>3. ASSUME NEW t \in TransIds, OutboxSend(t) PROVE RowsKept
    BY <1>1, <1>2, <1>3 DEF OutboxSend, BroadcastOk, BroadcastLost, BroadcastFails, Broadcast,
                            RecordHash
<1>4. ASSUME NEW t \in TransIds, OutboxChain(t) PROVE RowsKept
    BY <1>2, <1>4 DEF OutboxChain, ChainExecutes, ChainRejects
<1>5. ASSUME NEW t \in TransIds, RecoverIntent(t) PROVE RowsKept
    BY <1>1, <1>5 DEF RecoverIntent
<1> QED BY <1>2, <1>3, <1>4, <1>5 DEF Crash, outboxVars

(* The actions of a Spot that add no row and finalise none. *)
QuietStep ==
    \/ Publish \/ PeriodEnds
    \/ \E c \in Claims : CreateClaim(c) \/ PromoteClaim(c) \/ FailClaim(c) \/ BeginPayout(c)
    \/ \E c \in Claims : SubmitPayout(c) /\ UNCHANGED outboxVars
    \/ CancelCheck \/ CancelLease \/ CancelPrepare \/ CancelResolveFails \/ CancelSent \/ CancelEnd
    \/ (CancelFee \/ CancelRefund) /\ UNCHANGED outboxVars
    \/ RemainderPrepare \/ RemainderCheck \/ RemainderResolveFails
    \/ RemainderSubmit /\ UNCHANGED outboxVars
    \/ BanSpot \/ SweepReview \/ SweepSent
    \/ \E t \in TransIds : RecoverRow(t) \/ SendRow(t) \/ ChainRow(t)
    \/ SpotCrash
    \/ UNCHANGED vars

(* Those that add a row, and what they have just checked. *)
PaysClaim(c) ==
    /\ SubmitPayout(c) /\ c \in payout /\ status # "banned" /\ ~HasNonFailed(c)
    /\ RowAdded(c, Reward, "local")

AddStep ==
    \/ \E a \in DepositValues, v \in DepositValues \cup {0} :
          RecordDeposit(a, v) /\ \E d \in Nat : RowAdded(Deposit, d, "chain")
    \/ SubmitCreationFee /\ RowAdded("creation_fee", CreationFee, "local")
    \/ \E c \in Claims : PaysClaim(c)
    \/ CancelFee /\ cancel.fee > 0 /\ RowAdded("platform_fee", cancel.fee, "local")
          /\ cancel' = [cancel EXCEPT !.pc = "fee_sending", !.row = count + 1]
    \/ CancelRefund /\ cancel.refund > 0 /\ RowAdded("refund", cancel.refund, "local")
          /\ cancel' = [cancel EXCEPT !.pc = "refund_sending", !.row = count + 1]
    \/ RemainderSubmit /\ RowAdded("remainder", remainder.amount, "local")
    \/ SweepSubmit /\ RowAdded("platform_fee", Unswept, "local")

(* Every step of a Spot is one of the three kinds. *)
LEMMA StepKinds ==
    ASSUME SpotTypeOK, IInv, [SpotNext]_vars
    PROVE  \/ QuietStep /\ RowsKept
           \/ AddStep
           \/ \E t \in TransIds : RefreshRow(t) /\ RowFinalised(t)
<1>1. ASSUME NEW s, NEW a, CreateIntent(s, a) PROVE RowAdded(s, a, "local") /\ ~HasNonFailed(s)
    BY <1>1, InsertAdds DEF CreateIntent
<1>2. UNCHANGED outboxVars => RowsKept
    BY OthersKeep
<1>3. ASSUME NEW a \in DepositValues, NEW v \in DepositValues \cup {0}, RecordDeposit(a, v)
      PROVE  AddStep
    <2> DEFINE d == Min({a, Required - DepositTotal})
    <2>1. Required - DepositTotal \in Nat
        BY <1>3, Quantities DEF RecordDeposit, Funded
    <2>2. a \in Nat
        BY SpotAssumption
    <2>3. d \in Nat
        BY <2>1, <2>2, MinOfTwo
    <2>4. InsertDeposit(d, v)
        BY <1>3 DEF RecordDeposit
    <2> HIDE DEF d
    <2>5. RowAdded(Deposit, d, "chain")
        BY <2>4, InsertAdds DEF InsertDeposit
    <2> QED BY <1>3, <2>3, <2>5 DEF AddStep
<1>4. CASE SubmitCreationFee
    BY <1>1, <1>4 DEF SubmitCreationFee, AddStep
<1>5. ASSUME NEW c \in Claims, SubmitPayout(c) PROVE (QuietStep /\ RowsKept) \/ AddStep
    BY <1>1, <1>2, <1>5, Zenon DEF SubmitPayout, AddStep, PaysClaim, QuietStep
<1>6. CASE CancelFee
    BY <1>1, <1>2, <1>6, Zenon DEF CancelFee, CancelSend, AddStep, QuietStep
<1>7. CASE CancelRefund
    BY <1>1, <1>2, <1>7, Zenon DEF CancelRefund, CancelSend, AddStep, QuietStep
<1>8. CASE RemainderSubmit
    BY <1>1, <1>2, <1>8, Zenon DEF RemainderSubmit, AddStep, QuietStep
<1>9. CASE SweepSubmit
    BY <1>1, <1>9, Zenon DEF SweepSubmit, AddStep
<1>10. ASSUME NEW t \in TransIds, RefreshRow(t) PROVE RowFinalised(t)
    BY <1>10, RefreshFinalises DEF RefreshRow
<1>11. ASSUME NEW t \in TransIds, RecoverRow(t) \/ SendRow(t) \/ ChainRow(t)
       PROVE  QuietStep /\ RowsKept
    BY <1>11, OthersKeep DEF RecoverRow, SendRow, ChainRow, QuietStep
<1>12. CASE SpotCrash
    BY <1>12, OthersKeep DEF SpotCrash, QuietStep
<1>13. ASSUME \/ Publish \/ PeriodEnds
              \/ \E c \in Claims :
                    CreateClaim(c) \/ PromoteClaim(c) \/ FailClaim(c) \/ BeginPayout(c)
              \/ UNCHANGED vars
       PROVE  QuietStep /\ RowsKept
    <2>1. UNCHANGED outboxVars
        BY <1>13 DEF Publish, PeriodEnds, CreateClaim, PromoteClaim, FailClaim, BeginPayout, vars
    <2> QED BY <1>2, <1>13, <2>1 DEF QuietStep
<1>14. ASSUME \/ CancelCheck \/ CancelLease \/ CancelPrepare \/ CancelResolveFails
              \/ CancelSent \/ CancelEnd
              \/ RemainderPrepare \/ RemainderCheck \/ RemainderResolveFails
              \/ BanSpot \/ SweepReview \/ SweepSent
       PROVE  QuietStep /\ RowsKept
    <2>1. UNCHANGED outboxVars
        BY <1>14, Zenon DEF CancelCheck, CancelLease, CancelPrepare, CancelResolveFails, CancelSent,
                     CancelEnd, RemainderPrepare, RemainderCheck, RemainderResolveFails, BanSpot,
                     SweepReview, SweepSent
    <2> QED BY <1>2, <1>14, <2>1 DEF QuietStep
<1> QED BY <1>3, <1>4, <1>5, <1>6, <1>7, <1>8, <1>9, <1>10, <1>11, <1>12, <1>13, <1>14, Zenon
       DEF SpotNext, CancelStep, RemainderStep, BanStep

-----------------------------------------------------------------------------
(* Which steps write which variable of the Spot. *)
ClaimStep == \E c \in Claims : CreateClaim(c) \/ PromoteClaim(c) \/ FailClaim(c)

RefreshStepOf == \E t \in TransIds : RefreshRow(t)

LEMMA Frames ==
    ASSUME [SpotNext]_vars
    PROVE  /\ \/ status' = status \/ Publish \/ CancelPrepare \/ RemainderPrepare \/ BanSpot
              \/ RefreshStepOf
           /\ cancelling' = cancelling \/ CancelPrepare
           /\ settled' = settled \/ RemainderPrepare
           /\ claim' = claim \/ ClaimStep \/ BanSpot
           /\ guard' = guard \/ CancelLease \/ CancelEnd
           /\ ban' = ban \/ BanSpot \/ SweepReview \/ SweepSent
           /\ cancel' = cancel \/ CancelStep \/ SpotCrash
           /\ \/ payout' = payout \/ SpotCrash
              \/ \E c \in Claims : BeginPayout(c) \/ SubmitPayout(c)
           /\ remainder' = remainder \/ RemainderStep \/ SpotCrash
           /\ sweep' = sweep \/ SweepSubmit \/ SweepSent \/ SpotCrash
<1> DEFINE F(st, ca, se, cl, gu, bn, cn, pa, re, sw) ==
        /\ st \/ status' = status
        /\ ca \/ cancelling' = cancelling
        /\ se \/ settled' = settled
        /\ cl \/ claim' = claim
        /\ gu \/ guard' = guard
        /\ bn \/ ban' = ban
        /\ cn \/ cancel' = cancel
        /\ pa \/ payout' = payout
        /\ re \/ remainder' = remainder
        /\ sw \/ sweep' = sweep
<1>1. ASSUME \/ UNCHANGED <<spotVars, workVars>>
             \/ UNCHANGED vars
             \/ SubmitCreationFee \/ PeriodEnds
             \/ \E a \in DepositValues, v \in DepositValues \cup {0} : RecordDeposit(a, v)
             \/ \E t \in TransIds : RecoverRow(t) \/ SendRow(t) \/ ChainRow(t)
      PROVE  F(FALSE, FALSE, FALSE, FALSE, FALSE, FALSE, FALSE, FALSE, FALSE, FALSE)
    BY <1>1 DEF vars, spotVars, workVars, SubmitCreationFee, PeriodEnds, RecordDeposit,
                RecoverRow, SendRow, ChainRow
<1>2. CASE Publish
    BY <1>2 DEF Publish, workVars
<1>3. CASE ClaimStep
    BY <1>3 DEF ClaimStep, CreateClaim, PromoteClaim, FailClaim, workVars
<1>4. CASE \E c \in Claims : BeginPayout(c) \/ SubmitPayout(c)
    BY <1>4 DEF BeginPayout, SubmitPayout, spotVars
<1>5. CASE CancelStep
    <2>1. CASE CancelPrepare
        BY <1>5, <2>1 DEF CancelPrepare
    <2>2. CASE CancelLease \/ CancelEnd
        BY <1>5, <2>2 DEF CancelLease, CancelEnd
    <2>3. CASE CancelCheck \/ CancelResolveFails \/ CancelFee \/ CancelRefund \/ CancelSent
        BY <1>5, <2>3 DEF CancelCheck, CancelResolveFails, CancelFee, CancelRefund, CancelSent,
                          spotVars
    <2> QED BY <1>5, <2>1, <2>2, <2>3 DEF CancelStep
<1>6. CASE RemainderStep
    <2>1. CASE RemainderPrepare
        BY <1>6, <2>1 DEF RemainderPrepare
    <2>2. CASE RemainderCheck \/ RemainderResolveFails \/ RemainderSubmit
        BY <1>6, <2>2 DEF RemainderCheck, RemainderResolveFails, RemainderSubmit, spotVars
    <2> QED BY <1>6, <2>1, <2>2 DEF RemainderStep
<1>7. CASE BanSpot
    BY <1>7 DEF BanSpot, workVars
<1>8. CASE SweepReview \/ SweepSubmit \/ SweepSent
    BY <1>8 DEF SweepReview, SweepSubmit, SweepSent, workVars, spotVars
<1>9. CASE RefreshStepOf
    BY <1>9 DEF RefreshStepOf, RefreshRow, workVars
<1>10. CASE SpotCrash
    BY <1>10 DEF SpotCrash, spotVars
<1> HIDE DEF F
<1> QED BY <1>1, <1>2, <1>3, <1>4, <1>5, <1>6, <1>7, <1>8, <1>9, <1>10
       DEF SpotNext, BanStep, ClaimStep, RefreshStepOf, F

-----------------------------------------------------------------------------
(***************************************************************************)
(* The rows below count are live, and what the cancellation marker, the    *)
(* status and the coroutines say of each other.                            *)
(***************************************************************************)
RowsLive == \A t \in TransIds : t =< count => trans[t].status # "absent"

Sending == {"planned", "fee_sending", "refund", "refund_sending"}

HasRow(slots) == \E t \in TransIds : trans[t].slot \in slots

StatusMarks ==
    /\ status = "cancelled" => cancelling
    /\ cancelling => status \in {"draft", "published", "cancelled"}

CancelMarks ==
    /\ cancel.pc \in Sending => cancelling
    /\ HasRow(CancelSlots) => cancelling \/ status = "banned"

RemainderMarks ==
    /\ remainder.pc # "idle" => status \in {"completed", "banned"}
    /\ HasRow({"remainder"}) => status \in {"completed", "banned"}
    /\ settled => status \in {"completed", "banned"} /\ remainder.pc = "idle"

BanMarks == ban # "none" \/ sweep # 0 => status = "banned"

Marks == StatusMarks /\ CancelMarks /\ RemainderMarks /\ BanMarks

Books == SpotTypeOK /\ IInv /\ RowsLive /\ Marks

(* The rows of other slots than a new one's are as they were. *)
LEMMA HasRowAdded ==
    ASSUME NEW s, NEW a, NEW h, RowAdded(s, a, h), NEW slots, Deposit \notin slots
    PROVE  HasRow(slots)' <=> HasRow(slots) \/ s \in slots
BY DEF RowAdded, HasRow, Row, NoRow

LEMMA HasRowKept ==
    ASSUME RowsKept \/ \E t \in TransIds : RowFinalised(t), NEW slots
    PROVE  HasRow(slots)' <=> HasRow(slots)
<1>1. \A t \in TransIds : trans'[t].slot = trans[t].slot
    BY DEF RowsKept, RowFinalised
<1> QED BY <1>1 DEF HasRow

LEMMA RowsLiveStep ==
    ASSUME SpotTypeOK, IInv, RowsLive, [SpotNext]_vars
    PROVE  RowsLive'
<1>1. CASE AddStep
    <2>1. \E s, a, h : RowAdded(s, a, h)
        BY <1>1 DEF AddStep, PaysClaim
    <2> QED BY <2>1 DEF RowAdded, Row, RowsLive, TransIds
<1>2. CASE RowsKept
    BY <1>2 DEF RowsKept, RowsLive
<1>3. CASE \E t \in TransIds : RowFinalised(t)
    BY <1>3 DEF RowFinalised, RowsLive
<1> QED BY <1>1, <1>2, <1>3, StepKinds

(* The refresher finishes only a Spot with a cancellation leg. *)
LEMMA FinishesMarked ==
    ASSUME SpotTypeOK, IInv, Marks, NEW t \in TransIds, RefreshRow(t), status' # status
    PROVE  status' = "cancelled" /\ cancelling /\ status \in {"draft", "published"}
<1>1. FinalizesCancellation(trans') /\ status' = "cancelled"
    BY DEF RefreshRow
<1>2. count' = count
    BY RefreshFinalises DEF RefreshRow, RowFinalised
<1>3. Page \subseteq TransIds
    BY PageRows DEF SpotTypeOK
<1>4. HasRow(CancelSlots)'
    BY <1>1, <1>3 DEF FinalizesCancellation, HasRow
<1>5. HasRow(CancelSlots)
    BY <1>4, HasRowKept, RefreshFinalises DEF RefreshRow
<1> QED BY <1>1, <1>5 DEF Marks, CancelMarks, FinalizesCancellation

(* The way of a Spot: nothing takes back a ban, a cancellation or a settled *)
(* remainder.                                                               *)
LEMMA Onward ==
    ASSUME SpotTypeOK, IInv, Marks, [SpotNext]_vars
    PROVE  /\ cancelling => cancelling'
           /\ settled => settled'
           /\ cancelling => status' \in {status, "cancelled"}
           /\ status' = "cancelled" => cancelling'
           /\ status' # status => <<status, status'>> \in
                 {<<"draft", "published">>, <<"draft", "cancelled">>, <<"draft", "banned">>,
                  <<"published", "completed">>, <<"published", "cancelled">>,
                  <<"published", "banned">>, <<"completed", "banned">>}
<1>0. status \in {"draft", "published", "completed", "cancelled", "banned"}
      /\ settled \in BOOLEAN /\ cancelling \in BOOLEAN
    BY DEF SpotTypeOK
<1>1. cancelling => cancelling'
    BY Frames DEF CancelPrepare
<1>2. settled => settled'
    BY Frames DEF RemainderPrepare, RemainderReady
<1>3. CASE status' = status
    BY <1>0, <1>1, <1>2, <1>3 DEF Marks, StatusMarks
<1>4. CASE Publish
    BY <1>0, <1>1, <1>2, <1>4 DEF Publish
<1>5. CASE CancelPrepare
    BY <1>0, <1>1, <1>2, <1>3, <1>5 DEF CancelPrepare, NotCancellable
<1>6. CASE RemainderPrepare
    BY <1>0, <1>1, <1>2, <1>3, <1>6 DEF RemainderPrepare, RemainderReady
<1>7. CASE BanSpot
    BY <1>0, <1>1, <1>2, <1>3, <1>7 DEF BanSpot
<1>8. CASE RefreshStepOf
    BY <1>0, <1>1, <1>2, <1>3, <1>8, FinishesMarked DEF RefreshStepOf
<1> QED BY <1>3, <1>4, <1>5, <1>6, <1>7, <1>8, Frames

LEMMA StatusMarksStep ==
    ASSUME SpotTypeOK, IInv, Marks, [SpotNext]_vars
    PROVE  StatusMarks'
<1>1. status' = "cancelled" => cancelling'
    BY Onward
<1>2. CASE cancelling' = cancelling
    BY <1>1, <1>2, Onward DEF Marks, StatusMarks
<1>3. CASE CancelPrepare
    BY <1>1, <1>2, <1>3 DEF CancelPrepare, NotCancellable, StatusMarks
<1> QED BY <1>2, <1>3, Frames

(* What the first steps of a cancellation pass leave in its record. *)
LEMMA CancelStarts ==
    /\ CancelCheck => cancel'.pc = "checked"
    /\ CancelLease => cancel'.pc \in {"idle", "leased"}
<1>1. ASSUME CancelCheck PROVE cancel'.pc = "checked"
    <2>1. PICK b \in BOOLEAN :
            cancel' = [NoCancel EXCEPT !.pc = "checked", !.proven = b,
                                       !.legs = FailedLegs(CancelSlots) # {}]
        BY <1>1, Zenon DEF CancelCheck
    <2> QED BY <2>1 DEF NoCancel
<1>2. ASSUME CancelLease PROVE cancel'.pc \in {"idle", "leased"}
    <2>1. cancel' = NoCancel \/ cancel' = [NoCancel EXCEPT !.pc = "leased"]
        BY <1>2, Zenon DEF CancelLease
    <2> QED BY <2>1 DEF NoCancel
<1> QED BY <1>1, <1>2

LEMMA CancelMarksStep ==
    ASSUME SpotTypeOK, IInv, Marks, [SpotNext]_vars
    PROVE  CancelMarks'
<1>0. (cancelling => cancelling') /\ (status = "banned" => status' = "banned")
    BY Onward DEF Marks, StatusMarks
<1>c. cancel \in Cancellations
    BY DEF SpotTypeOK
<1>1. ASSUME cancel'.pc \in Sending PROVE cancelling'
    <2>1. CASE cancel' = cancel
        BY <1>0, <1>1, <2>1 DEF Marks, CancelMarks
    <2>2. CASE SpotCrash \/ CancelCheck \/ CancelLease \/ CancelEnd
        BY <1>1, <2>2, CancelStarts DEF SpotCrash, CancelEnd, NoCancel, Sending
    <2>3. CASE CancelPrepare
        BY <1>1, <1>c, <2>3 DEF CancelPrepare, Cancellations, Sending
    <2>4. CASE CancelResolveFails \/ CancelSent \/ CancelFee \/ CancelRefund
        <3>1. cancel.pc \in Sending
            BY <2>4 DEF CancelResolveFails, CancelSent, CancelFee, CancelRefund, Sending
        <3> QED BY <1>0, <3>1 DEF Marks, CancelMarks
    <2> QED BY <2>1, <2>2, <2>3, <2>4, Frames DEF CancelStep
<1>2. ASSUME HasRow(CancelSlots)' PROVE cancelling' \/ status' = "banned"
    <2>1. CASE HasRow(CancelSlots)
        BY <1>0, <2>1 DEF Marks, CancelMarks
    <2>2. CASE ~HasRow(CancelSlots)
        <3>1. AddStep
            BY <1>2, <2>2, StepKinds, HasRowKept
        <3>2. ASSUME NEW s \in Claims \cup {"creation_fee", "remainder", Deposit},
                     NEW a, NEW h, RowAdded(s, a, h)
              PROVE  FALSE
            <4>1. s \notin CancelSlots /\ Deposit \notin CancelSlots
                BY SpotAssumption, OutboxAssumption DEF CancelSlots, SpotSlots
            <4> QED BY <1>2, <2>2, <3>2, <4>1, HasRowAdded
        <3>3. CancelFee \/ CancelRefund \/ SweepSubmit
            BY <3>1, <3>2 DEF AddStep, PaysClaim
        <3>4. cancel.pc \in Sending \/ status = "banned"
            BY <3>3 DEF CancelFee, CancelRefund, SweepSubmit, SweepOpen, Sending
        <3> QED BY <1>0, <3>4 DEF Marks, CancelMarks
    <2> QED BY <2>1, <2>2
<1> QED BY <1>1, <1>2 DEF CancelMarks

LEMMA RemainderMarksStep ==
    ASSUME SpotTypeOK, IInv, Marks, [SpotNext]_vars
    PROVE  RemainderMarks'
<1>0. status \in {"completed", "banned"} => status' \in {"completed", "banned"}
    BY Onward
<1>1. remainder'.pc # "idle" =>
        status' \in {"completed", "banned"} /\ (remainder.pc = "idle" => RemainderPrepare)
    <2>1. CASE RemainderPrepare
        BY <2>1 DEF RemainderPrepare
    <2>2. CASE RemainderCheck \/ RemainderSubmit \/ RemainderResolveFails \/ SpotCrash
        BY <1>0, <2>2 DEF RemainderCheck, RemainderSubmit, RemainderResolveFails, SpotCrash,
                          NoRemainder, Marks, RemainderMarks
    <2>3. CASE remainder' = remainder
        BY <1>0, <2>3 DEF Marks, RemainderMarks
    <2> QED BY <2>1, <2>2, <2>3, Frames DEF RemainderStep
<1>2. HasRow({"remainder"})' => status' \in {"completed", "banned"}
    <2>1. CASE HasRow({"remainder"})
        BY <1>0, <2>1 DEF Marks, RemainderMarks
    <2>2. CASE ~HasRow({"remainder"}) /\ HasRow({"remainder"})'
        <3>1. AddStep
            BY <2>2, StepKinds, HasRowKept
        <3>2. ASSUME NEW s \in Claims \cup {"creation_fee", "platform_fee", "refund", Deposit},
                     NEW a, NEW h, RowAdded(s, a, h)
              PROVE  FALSE
            <4>1. s \notin {"remainder"} /\ Deposit \notin {"remainder"}
                BY SpotAssumption, OutboxAssumption DEF SpotSlots
            <4> QED BY <2>2, <3>2, <4>1, HasRowAdded
        <3>3. RemainderSubmit
            BY <3>1, <3>2 DEF AddStep, PaysClaim
        <3> QED BY <1>0, <3>3 DEF RemainderSubmit, Marks, RemainderMarks
    <2> QED BY <2>1, <2>2
<1>3. settled' => status' \in {"completed", "banned"} /\ remainder'.pc = "idle"
    <2>1. CASE RemainderPrepare
        BY <2>1 DEF RemainderPrepare, NoRemainder
    <2>2. CASE settled' = settled /\ ~RemainderPrepare
        BY <1>0, <1>1, <2>2 DEF Marks, RemainderMarks
    <2> QED BY <2>1, <2>2, Frames
<1> QED BY <1>1, <1>2, <1>3 DEF RemainderMarks

LEMMA BanMarksStep ==
    ASSUME SpotTypeOK, IInv, Marks, [SpotNext]_vars
    PROVE  BanMarks'
<1>0. status = "banned" => status' = "banned"
    BY Onward
<1>1. BanSpot => status' = "banned"
    BY DEF BanSpot
<1>2. SweepReview \/ SweepSubmit => status = "banned"
    BY DEF SweepReview, SweepSubmit, SweepOpen
<1>3. SweepSent => sweep # 0
    BY DEF SweepSent
<1>4. SpotCrash => sweep' = 0
    BY DEF SpotCrash
<1>5. ban' # "none" => ban # "none" \/ BanSpot \/ SweepReview \/ SweepSent
    BY Frames
<1>6. sweep' # 0 => sweep # 0 \/ SweepSubmit
    BY <1>3, <1>4, Frames
<1> QED BY <1>0, <1>1, <1>2, <1>3, <1>5, <1>6 DEF BanMarks, Marks

(* The marks hold throughout. *)
LEMMA BooksStep ==
    ASSUME Unbounded, Books, [SpotNext]_vars
    PROVE  Books'
<1>1. SpotTypeOK'
    BY SpotTypeStep DEF Books
<1>2. IInv'
    BY OutboxStep, IInvStep DEF Books
<1>3. RowsLive'
    BY RowsLiveStep DEF Books
<1>4. Marks'
    BY StatusMarksStep, CancelMarksStep, RemainderMarksStep, BanMarksStep DEF Books, Marks
<1> QED BY <1>1, <1>2, <1>3, <1>4 DEF Books

LEMMA BooksInit == SpotInit => Books
<1> SUFFICES ASSUME SpotInit PROVE Books
    OBVIOUS
<1>1. SpotTypeOK /\ IInv
    BY SpotTypeInit, InitIInv DEF SpotInit
<1>2. \A t \in TransIds : trans[t] = NoRow /\ t > count
    BY OutboxAssumption DEF SpotInit, OutboxInit, TransIds
<1>3. RowsLive
    BY <1>2, OutboxAssumption DEF RowsLive, SpotInit, OutboxInit, TransIds
<1>4. ~HasRow(CancelSlots) /\ ~HasRow({"remainder"})
    BY <1>2, SpotAssumption, OutboxAssumption DEF HasRow, NoRow, CancelSlots, SpotSlots
<1>5. Marks
    BY <1>4 DEF SpotInit, Marks, StatusMarks, CancelMarks, RemainderMarks, BanMarks, NoCancel,
               NoRemainder, Sending
<1> QED BY <1>1, <1>3, <1>5 DEF Books

LEMMA BooksHold == ASSUME Unbounded PROVE SpotSpec => []Books
<1>1. Books /\ [SpotNext]_vars => Books'
    BY BooksStep
<1> QED BY <1>1, BooksInit, PTL DEF SpotSpec

(* A slot gets its first active row only with an intent. *)
LEMMA FirstRow ==
    ASSUME SpotTypeOK, IInv, [SpotNext]_vars, NEW s, ~HasNonFailed(s), HasNonFailed(s)'
    PROVE  AddStep /\ \E a, h : RowAdded(s, a, h)
<1>1. PICK t \in TransIds : trans'[t].slot = s /\ trans'[t].status \in {"pending", "confirmed"}
    BY DEF HasNonFailed
<1>2. ~ (trans[t].slot = s /\ trans[t].status \in {"pending", "confirmed"})
    BY DEF HasNonFailed
<1>3. ~RowsKept
    BY <1>1, <1>2 DEF RowsKept
<1>4. ASSUME NEW u \in TransIds, RowFinalised(u) PROVE FALSE
    BY <1>1, <1>2, <1>4 DEF RowFinalised
<1>5. AddStep
    BY <1>3, <1>4, StepKinds
<1>6. PICK r, a, h : RowAdded(r, a, h)
    BY <1>5 DEF AddStep, PaysClaim
<1>7. t = count + 1 /\ r = s
    BY <1>1, <1>2, <1>6 DEF RowAdded, Row
<1> QED BY <1>5, <1>6, <1>7

(* What has ended stays ended: the status goes one way, a cancellation and  *)
(* a settled remainder are not taken back, and after a ban no claim gets    *)
(* its first reward, whatever ban_spot, publish_spot, the cancellation      *)
(* passes, the refresher and the settlement loop interleave.                *)
THEOREM SpotEndsForGood == ASSUME Unbounded PROVE SpotSpec => EndsForGood
<1> DEFINE L == /\ status' # status => <<status, status'>> \in
                     {<<"draft", "published">>, <<"draft", "cancelled">>, <<"draft", "banned">>,
                      <<"published", "completed">>, <<"published", "cancelled">>,
                      <<"published", "banned">>, <<"completed", "banned">>}
                /\ cancelling => cancelling' /\ status' \in {status, "cancelled"}
                /\ settled => settled'
                /\ status' = "cancelled" => cancelling'
           B == status = "banned" =>
                  \A c \in Claims : ~HasNonFailed(c) => ~HasNonFailed(c)'
<1>1. Books /\ [SpotNext]_vars => [L]_vars
    BY Onward, Zenon DEF Books
<1>2. Books /\ [SpotNext]_vars => [B]_vars
    <2> SUFFICES ASSUME Books, [SpotNext]_vars, status = "banned",
                        NEW c \in Claims, ~HasNonFailed(c), HasNonFailed(c)'
                 PROVE  FALSE
        OBVIOUS
    <2>1. AddStep
        BY FirstRow DEF Books
    <2>2. PICK a, h : RowAdded(c, a, h)
        BY FirstRow DEF Books
    <2>3. ~ \E d \in Claims : PaysClaim(d)
        BY DEF PaysClaim
    <2>4. ASSUME NEW s \in {"creation_fee", "platform_fee", "refund", "remainder", Deposit},
                 NEW b, NEW g, RowAdded(s, b, g)
          PROVE  FALSE
        <3>1. s = c
            BY <2>2, <2>4 DEF RowAdded, Row
        <3> QED BY <3>1, SpotAssumption, OutboxAssumption DEF SpotSlots
    <2> QED BY <2>1, <2>3, <2>4 DEF AddStep
<1> QED BY <1>1, <1>2, BooksHold, PTL DEF SpotSpec, EndsForGood, Lifecycle, BannedStopsPayouts

-----------------------------------------------------------------------------
(***************************************************************************)
(* Funding.  A reported deposit stands alone and stands while the Spot is  *)
(* not funded; what is confirmed is never taken back.                      *)
(***************************************************************************)
PendingDeposit(t) == trans[t].slot = Deposit /\ trans[t].status = "pending"

OneDeposit == \A t, u \in TransIds : PendingDeposit(t) /\ PendingDeposit(u) => t = u

DepositMissing == (\E t \in TransIds : PendingDeposit(t)) => ~Funded

PublicIsPaid == status \in {"published", "completed"} => Funded /\ HasConfirmed("creation_fee")

FeeAfterFunds == HasRow({"creation_fee"}) => Funded

ClaimsAfterFunds ==
    /\ \A c \in Claims : claim[c] # "none" => Funded
    /\ status = "draft" => \A c \in Claims : claim[c] = "none"

Funding == OneDeposit /\ DepositMissing /\ PublicIsPaid /\ FeeAfterFunds /\ ClaimsAfterFunds

(* Any sum over the table that the step does not touch. *)
LEMMA SumUntouched ==
    ASSUME SpotTypeOK, SpotTypeOK', NEW slots, NEW sts,
           \A t \in TransIds :
              /\ (trans[t].slot \in slots /\ trans[t].status \in sts)
                    <=> (trans'[t].slot \in slots /\ trans'[t].status \in sts)
              /\ trans[t].slot \in slots /\ trans[t].status \in sts =>
                    trans'[t].amount = trans[t].amount
    PROVE  AmountOf(trans, TransIds, slots, sts)' = AmountOf(trans, TransIds, slots, sts)
<1>1. trans \in [TransIds -> Rows] /\ trans' \in [TransIds -> Rows]
    BY DEF SpotTypeOK, TypeOK
<1>2. Rowset(trans, TransIds, slots, sts) = Rowset(trans', TransIds, slots, sts)
    BY DEF Rowset
<1>3. \A t \in Rowset(trans, TransIds, slots, sts) : trans[t].amount = trans'[t].amount
    BY DEF Rowset
<1>4. AmountOf(trans, TransIds, slots, sts) = AmountOf(trans', TransIds, slots, sts)
    BY <1>1, <1>2, <1>3, AmountSame
<1> QED BY <1>4, Zenon DEF AmountOf

LEMMA DepositTotalKept ==
    ASSUME SpotTypeOK, SpotTypeOK',
           \/ RowsKept
           \/ \E s, a, h : RowAdded(s, a, h)
           \/ \E t \in TransIds :
                 RowFinalised(t) /\ (trans[t].slot # Deposit \/ trans'[t].status = "failed")
    PROVE  DepositTotal' = DepositTotal
<1>1. \A t \in TransIds :
         /\ (trans[t].slot \in {Deposit} /\ trans[t].status \in {"confirmed"})
               <=> (trans'[t].slot \in {Deposit} /\ trans'[t].status \in {"confirmed"})
         /\ trans[t].slot \in {Deposit} /\ trans[t].status \in {"confirmed"} =>
               trans'[t].amount = trans[t].amount
    <2>1. CASE RowsKept
        BY <2>1 DEF RowsKept
    <2>2. ASSUME NEW s, NEW a, NEW h, RowAdded(s, a, h)
          PROVE  \A t \in TransIds :
                   /\ (trans[t].slot \in {Deposit} /\ trans[t].status \in {"confirmed"})
                         <=> (trans'[t].slot \in {Deposit} /\ trans'[t].status \in {"confirmed"})
                   /\ trans[t].slot \in {Deposit} /\ trans[t].status \in {"confirmed"} =>
                         trans'[t].amount = trans[t].amount
        BY <2>2 DEF RowAdded, Row, NoRow
    <2>3. CASE \E t \in TransIds :
                 RowFinalised(t) /\ (trans[t].slot # Deposit \/ trans'[t].status = "failed")
        BY <2>3 DEF RowFinalised
    <2> QED BY <2>1, <2>2, <2>3
<1>2. AmountOf(trans, TransIds, {Deposit}, {"confirmed"})'
        = AmountOf(trans, TransIds, {Deposit}, {"confirmed"})
    BY <1>1, SumUntouched
<1> QED BY <1>2 DEF DepositTotal, ConfirmedIn, AmountOf

LEMMA ConfirmedStays ==
    ASSUME SpotTypeOK, IInv, [SpotNext]_vars, NEW s, HasConfirmed(s)
    PROVE  HasConfirmed(s)'
<1>1. PICK t \in TransIds : trans[t].slot = s /\ trans[t].status = "confirmed"
    BY DEF HasConfirmed
<1>2. trans'[t].slot = s /\ trans'[t].status = "confirmed"
    <2>1. CASE RowsKept
        BY <1>1, <2>1 DEF RowsKept
    <2>2. ASSUME NEW r, NEW a, NEW h, RowAdded(r, a, h) PROVE trans'[t] = trans[t]
        BY <1>1, <2>2 DEF RowAdded, NoRow
    <2>3. ASSUME NEW u \in TransIds, RowFinalised(u) PROVE trans'[t] = trans[t]
        BY <1>1, <2>3 DEF RowFinalised
    <2>4. AddStep => \E r, a, h : RowAdded(r, a, h)
        BY DEF AddStep, PaysClaim
    <2> QED BY <1>1, <2>1, <2>2, <2>3, <2>4, StepKinds
<1> QED BY <1>2 DEF HasConfirmed

(* A pending deposit after a step: it was there, or it has just been        *)
(* reported, to a draft that was not funded and had none.                   *)
LEMMA DepositsStep ==
    ASSUME SpotTypeOK, SpotTypeOK', IInv, Funding, [SpotNext]_vars
    PROVE  /\ OneDeposit' /\ DepositMissing' /\ (Funded => Funded')
<1>0. Deposit \notin Payouts /\ SpotSlots \subseteq Payouts /\ Claims \subseteq Payouts
    BY OutboxAssumption, SpotAssumption
<1>d. DepositTotal \in Nat /\ DepositTotal' \in Nat /\ Required \in Nat /\ Required' = Required
    <2>1. DepositTotal \in Nat /\ Required \in Nat
        BY Quantities
    <2>2. DepositTotal' \in Nat
        <3>1. trans' \in [TransIds -> Rows]
            BY DEF SpotTypeOK, TypeOK
        <3>2. AmountOf(trans', TransIds, {Deposit}, {"confirmed"}) \in Nat
            BY <3>1, AmountNat
        <3> QED BY <3>2 DEF DepositTotal, ConfirmedIn, AmountOf
    <2> QED BY <2>1, <2>2 DEF Required
<1>1. ASSUME DepositTotal' = DepositTotal,
             \A t \in TransIds : PendingDeposit(t)' => PendingDeposit(t)
      PROVE  /\ OneDeposit' /\ DepositMissing' /\ (Funded => Funded')
    BY <1>1, <1>d DEF Funding, OneDeposit, DepositMissing, Funded
<1>2. CASE RowsKept
    <2>1. \A t \in TransIds : PendingDeposit(t)' => PendingDeposit(t)
        BY <1>2 DEF RowsKept, PendingDeposit
    <2>2. DepositTotal' = DepositTotal
        BY <1>2, DepositTotalKept
    <2> QED BY <1>1, <2>1, <2>2
<1>3. CASE AddStep
    <2>1. PICK s, a, h : RowAdded(s, a, h)
        BY <1>3 DEF AddStep, PaysClaim
    <2>2. DepositTotal' = DepositTotal
        BY <2>1, DepositTotalKept
    <2>3. CASE s # Deposit
        <3>1. \A t \in TransIds : PendingDeposit(t)' => PendingDeposit(t)
            BY <2>1, <2>3 DEF RowAdded, Row, PendingDeposit
        <3> QED BY <1>1, <2>2, <3>1
    <2>4. CASE s = Deposit
        <3>1. ASSUME NEW r \in Claims \cup SpotSlots, NEW b, NEW g, RowAdded(r, b, g) PROVE FALSE
            <4>1. r = Deposit
                BY <2>1, <2>4, <3>1 DEF RowAdded, Row
            <4> QED BY <4>1, <1>0
        <3>2. \E b \in DepositValues, v \in DepositValues \cup {0} : RecordDeposit(b, v)
            BY <1>3, <3>1 DEF AddStep, PaysClaim, SpotSlots
        <3>3. ~Funded /\ \A t \in TransIds : ~PendingDeposit(t)
            BY <3>2 DEF RecordDeposit, PendingIn, PendingDeposit
        <3>4. \A t \in TransIds : PendingDeposit(t)' => t = count + 1
            BY <2>1, <3>3 DEF RowAdded, PendingDeposit
        <3>5. OneDeposit'
            BY <3>4 DEF OneDeposit
        <3>6. ~Funded'
            BY <2>2, <3>3, <1>d DEF Funded
        <3> QED BY <3>3, <3>5, <3>6 DEF DepositMissing
    <2> QED BY <2>3, <2>4
<1>4. ASSUME NEW t \in TransIds, RowFinalised(t)
      PROVE  /\ OneDeposit' /\ DepositMissing' /\ (Funded => Funded')
    <2>1. \A u \in TransIds : PendingDeposit(u)' => PendingDeposit(u) /\ u # t
        BY <1>4 DEF RowFinalised, PendingDeposit
    <2>2. CASE trans[t].slot # Deposit \/ trans'[t].status = "failed"
        <3>1. DepositTotal' = DepositTotal
            BY <1>4, <2>2, DepositTotalKept
        <3> QED BY <1>1, <2>1, <3>1
    <2>3. CASE trans[t].slot = Deposit
        <3>1. PendingDeposit(t)
            BY <1>4, <2>3 DEF RowFinalised, PendingDeposit
        <3>2. \A u \in TransIds : ~PendingDeposit(u)'
            BY <2>1, <3>1 DEF Funding, OneDeposit
        <3>3. ~Funded
            BY <3>1 DEF Funding, DepositMissing
        <3> QED BY <3>2, <3>3 DEF OneDeposit, DepositMissing
    <2> QED BY <2>2, <2>3
<1> QED BY <1>2, <1>3, <1>4, StepKinds

LEMMA FundingStep ==
    ASSUME Books, Books', Funding, [SpotNext]_vars
    PROVE  Funding'
<1>0. SpotTypeOK /\ IInv /\ SpotTypeOK' /\ Marks
    BY DEF Books
<1>1. OneDeposit' /\ DepositMissing' /\ (Funded => Funded')
    BY <1>0, DepositsStep
<1>2. HasConfirmed("creation_fee") => HasConfirmed("creation_fee")'
    BY <1>0, ConfirmedStays
<1>3. PublicIsPaid'
    <2>1. CASE status \in {"published", "completed"}
        BY <1>1, <1>2, <2>1 DEF Funding, PublicIsPaid
    <2>2. CASE status \notin {"published", "completed"} /\ status' \in {"published", "completed"}
        <3>1. status' = "published" /\ status = "draft"
            BY <1>0, <2>2, Onward
        <3>2. CancelPrepare => status' \in {status, "cancelled"}
            BY DEF CancelPrepare
        <3>3. RefreshStepOf => status' \in {status, "cancelled"}
            BY DEF RefreshStepOf, RefreshRow
        <3>4. RemainderPrepare => status' = "completed"
            BY DEF RemainderPrepare
        <3>5. BanSpot => status' = "banned"
            BY DEF BanSpot
        <3>6. Publish
            BY <3>1, <3>2, <3>3, <3>4, <3>5, Frames
        <3> QED BY <1>1, <1>2, <3>6 DEF Publish, PublicIsPaid
    <2> QED BY <2>1, <2>2 DEF PublicIsPaid
<1>4. FeeAfterFunds'
    <2>1. CASE HasRow({"creation_fee"})
        BY <1>1, <2>1 DEF Funding, FeeAfterFunds
    <2>2. CASE ~HasRow({"creation_fee"}) /\ HasRow({"creation_fee"})'
        <3>1. AddStep
            BY <1>0, <2>2, StepKinds, HasRowKept
        <3>2. ASSUME NEW s \in Claims \cup {"remainder", "platform_fee", "refund", Deposit},
                     NEW a, NEW h, RowAdded(s, a, h)
              PROVE  FALSE
            <4>1. s \notin {"creation_fee"} /\ Deposit \notin {"creation_fee"}
                BY SpotAssumption, OutboxAssumption DEF SpotSlots
            <4> QED BY <2>2, <3>2, <4>1, HasRowAdded
        <3>3. SubmitCreationFee
            BY <3>1, <3>2 DEF AddStep, PaysClaim
        <3> QED BY <1>1, <3>3 DEF SubmitCreationFee, FeeAfterFunds
    <2> QED BY <2>1, <2>2 DEF FeeAfterFunds
<1>5. ClaimsAfterFunds'
    <2>0. status' = "draft" => status = "draft"
        BY <1>0, Onward
    <2>1. CASE claim' = claim
        BY <1>1, <2>0, <2>1 DEF Funding, ClaimsAfterFunds
    <2>2. CASE BanSpot
        <3>1. status' = "banned" /\ claim' = FailUncommitted
            BY <2>2 DEF BanSpot
        <3>2. \A c \in Claims : claim[c] = "none" => claim'[c] = "none"
            BY <3>1 DEF FailUncommitted
        <3> QED BY <1>1, <3>1, <3>2 DEF Funding, ClaimsAfterFunds
    <2>3. ASSUME NEW c \in Claims, CreateClaim(c) PROVE ClaimsAfterFunds'
        <3>1. status = "published" /\ status' = status
            BY <2>3 DEF CreateClaim, CanClaim
        <3>2. Funded
            BY <3>1 DEF Funding, PublicIsPaid
        <3> QED BY <1>1, <3>1, <3>2 DEF ClaimsAfterFunds
    <2>4. ASSUME NEW c \in Claims, PromoteClaim(c) \/ FailClaim(c) PROVE ClaimsAfterFunds'
        <3>1. claim[c] = "pending" /\ status' = status
            BY <2>4 DEF PromoteClaim, FailClaim
        <3>2. Funded /\ status # "draft"
            BY <3>1 DEF Funding, ClaimsAfterFunds
        <3> QED BY <1>1, <3>1, <3>2 DEF ClaimsAfterFunds
    <2> QED BY <2>1, <2>2, <2>3, <2>4, Frames DEF ClaimStep
<1> QED BY <1>1, <1>3, <1>4, <1>5 DEF Funding

LEMMA FundingInit == SpotInit => Funding
<1> SUFFICES ASSUME SpotInit PROVE Funding
    OBVIOUS
<1>1. \A t \in TransIds : trans[t] = NoRow
    BY DEF SpotInit, OutboxInit
<1>2. ~HasRow({"creation_fee"})
    BY <1>1, SpotAssumption, OutboxAssumption DEF HasRow, NoRow, SpotSlots
<1> QED BY <1>1, <1>2 DEF Funding, OneDeposit, DepositMissing, PublicIsPaid, FeeAfterFunds,
           ClaimsAfterFunds, PendingDeposit, NoRow, SpotInit

LEMMA FundingHolds == ASSUME Unbounded PROVE SpotSpec => []Funding
<1>1. Books /\ Books' /\ Funding /\ [SpotNext]_vars => Funding'
    BY FundingStep
<1> QED BY <1>1, FundingInit, BooksHold, PTL DEF SpotSpec

(* A Spot is public only when its value and its creation fee are confirmed  *)
(* and no deposit is open, however deposits, fee, publishing and refresher  *)
(* interleave: can_publish_spot's answer stays true.                        *)
THEOREM SpotPublishedIsFunded == ASSUME Unbounded PROVE SpotSpec => []PublishedIsFunded
<1>1. Funding => PublishedIsFunded
    BY DEF Funding, PublicIsPaid, DepositMissing, PendingDeposit, PublishedIsFunded, PendingIn
<1> QED BY <1>1, FundingHolds, PTL

-----------------------------------------------------------------------------
(***************************************************************************)
(* The cancellation guard.  While a pass works the guard row is            *)
(* "processing"; a leg whose outcome is unknown exists only under a guard  *)
(* that admits no other pass, and within a pass it is the leg being sent.  *)
(***************************************************************************)
LocalLeg(t) == trans[t].slot \in CancelSlots /\ IsLocalIntent(t)

GuardProcessing == cancel.pc \notin {"idle", "checked"} => guard = "processing"

GuardCoversLegs ==
    status # "banned" =>
        /\ (\E t \in TransIds : LocalLeg(t)) => guard \in {"processing", "blocked_ambiguous"}
        /\ cancel.pc \in {"leased", "planned", "refund", "release"} => \A t \in TransIds : ~LocalLeg(t)
        /\ cancel.pc \in {"fee_sending", "refund_sending"} =>
              \A t \in TransIds : LocalLeg(t) => t = cancel.row

GuardHeld == GuardProcessing /\ GuardCoversLegs

(* How a cancellation pass moves. *)
LEMMA CancelPcs1 ==
    ASSUME SpotTypeOK
    PROVE  /\ CancelCheck => cancel.pc = "idle" /\ cancel'.pc = "checked" /\ guard' = guard
           /\ CancelLease =>
                 /\ cancel.pc = "checked"
                 /\ \/ cancel'.pc = "idle" /\ guard' = guard
                    \/ /\ cancel'.pc = "idle" /\ guard' = "blocked_failed"
                       /\ guard \in {"none", "blocked_failed"}
                    \/ /\ cancel'.pc = "leased" /\ guard' = "processing"
                       /\ guard \in {"none", "blocked_failed"}
                       /\ ~cancel.legs \/ cancel.proven
           /\ CancelPrepare =>
                 /\ cancel.pc = "leased" /\ guard' = guard
                 /\ \/ cancel'.pc = "release"
                    \/ cancel'.pc = "planned" /\ cancel'.fee = FeeDue /\ cancel'.refund = RefundDue
           /\ CancelEnd =>
                 /\ cancel.pc \in {"release", "block"} /\ cancel'.pc = "idle"
                 /\ guard' = IF cancel.pc = "release" THEN "none" ELSE "blocked_ambiguous"
           /\ SpotCrash => cancel'.pc = "idle" /\ guard' = guard
<1>0. cancel \in Cancellations
    BY DEF SpotTypeOK
<1>1. ASSUME CancelCheck
      PROVE  cancel.pc = "idle" /\ cancel'.pc = "checked" /\ guard' = guard
    <2>1. cancel.pc = "idle" /\ guard' = guard
        BY <1>1 DEF CancelCheck, spotVars
    <2> QED BY <1>1, <2>1, CancelStarts
<1>2. ASSUME CancelLease
      PROVE  /\ cancel.pc = "checked"
             /\ \/ cancel'.pc = "idle" /\ guard' = guard
                \/ /\ cancel'.pc = "idle" /\ guard' = "blocked_failed"
                   /\ guard \in {"none", "blocked_failed"}
                \/ /\ cancel'.pc = "leased" /\ guard' = "processing"
                   /\ guard \in {"none", "blocked_failed"}
                   /\ ~cancel.legs \/ cancel.proven
    <2>1. NoCancel.pc = "idle" /\ [NoCancel EXCEPT !.pc = "leased"].pc = "leased"
        BY DEF NoCancel
    <2> QED BY <1>2, <2>1 DEF CancelLease
<1>3. ASSUME CancelPrepare
      PROVE  /\ cancel.pc = "leased" /\ guard' = guard
             /\ \/ cancel'.pc = "release"
                \/ cancel'.pc = "planned" /\ cancel'.fee = FeeDue /\ cancel'.refund = RefundDue
    <2>1. cancel.pc = "leased" /\ guard' = guard
        BY <1>3 DEF CancelPrepare
    <2>2. \/ cancel' = [cancel EXCEPT !.pc = "release"]
          \/ cancel' = [cancel EXCEPT !.pc = "planned", !.fee = FeeDue, !.refund = RefundDue]
        BY <1>3, Zenon DEF CancelPrepare
    <2> QED BY <1>0, <2>1, <2>2 DEF Cancellations
<1>4. ASSUME CancelEnd
      PROVE  /\ cancel.pc \in {"release", "block"} /\ cancel'.pc = "idle"
             /\ guard' = IF cancel.pc = "release" THEN "none" ELSE "blocked_ambiguous"
    BY <1>4 DEF CancelEnd, NoCancel
<1>5. ASSUME SpotCrash PROVE cancel'.pc = "idle" /\ guard' = guard
    BY <1>5 DEF SpotCrash, NoCancel, spotVars
<1> QED BY <1>1, <1>2, <1>3, <1>4, <1>5

LEMMA CancelPcs2 ==
    ASSUME SpotTypeOK
    PROVE  /\ CancelResolveFails => cancel.pc = "planned" /\ cancel'.pc = "release" /\ guard' = guard
           /\ CancelFee /\ UNCHANGED outboxVars =>
                 /\ cancel.pc = "planned" /\ guard' = guard
                 /\ \/ cancel'.pc = "release"
                    \/ cancel.fee = 0 /\ cancel'.pc = "refund" /\ cancel'.refund = cancel.refund
           /\ CancelFee /\ cancel' = [cancel EXCEPT !.pc = "fee_sending", !.row = count + 1] =>
                 /\ cancel.pc = "planned" /\ guard' = guard
                 /\ cancel'.pc = "fee_sending" /\ cancel'.row = count + 1
                 /\ cancel'.refund = cancel.refund
           /\ CancelRefund /\ UNCHANGED outboxVars =>
                 cancel.pc = "refund" /\ cancel'.pc = "release" /\ guard' = guard
           /\ CancelRefund /\ cancel' = [cancel EXCEPT !.pc = "refund_sending", !.row = count + 1] =>
                 /\ cancel.pc = "refund" /\ guard' = guard
                 /\ cancel'.pc = "refund_sending" /\ cancel'.row = count + 1
           /\ CancelSent =>
                 /\ cancel.pc \in {"fee_sending", "refund_sending"} /\ guard' = guard
                 /\ cancel'.pc = IF trans[cancel.row].hash = "local" THEN "block"
                                 ELSE IF cancel.pc = "fee_sending" THEN "refund" ELSE "release"
                 /\ cancel'.refund = cancel.refund
<1>0. cancel \in Cancellations /\ count \in Nat
    BY OutboxAssumption DEF SpotTypeOK, TypeOK
<1>1. ASSUME CancelResolveFails
      PROVE  cancel.pc = "planned" /\ cancel'.pc = "release" /\ guard' = guard
    BY <1>0, <1>1 DEF CancelResolveFails, Cancellations, spotVars
<1>2. ASSUME NEW s, NEW a, CreateIntent(s, a), UNCHANGED outboxVars PROVE FALSE
    BY <1>0, <1>2 DEF CreateIntent, Insert, outboxVars
<1>3. ASSUME CancelFee, UNCHANGED outboxVars
      PROVE  /\ cancel.pc = "planned" /\ guard' = guard
             /\ \/ cancel'.pc = "release"
                \/ cancel.fee = 0 /\ cancel'.pc = "refund" /\ cancel'.refund = cancel.refund
    <2>1. cancel' = [cancel EXCEPT !.pc = IF cancel.fee = 0 THEN "refund" ELSE "release"]
        BY <1>2, <1>3, Zenon DEF CancelFee, CancelSend
    <2> QED BY <1>0, <1>3, <2>1 DEF CancelFee, Cancellations, spotVars
<1>4. ASSUME CancelRefund, UNCHANGED outboxVars
      PROVE  cancel.pc = "refund" /\ cancel'.pc = "release" /\ guard' = guard
    <2>1. cancel' = [cancel EXCEPT !.pc = IF cancel.refund = 0 THEN "release" ELSE "release"]
        BY <1>2, <1>4, Zenon DEF CancelRefund, CancelSend
    <2> QED BY <1>0, <1>4, <2>1 DEF CancelRefund, Cancellations, spotVars
<1>5. ASSUME CancelSent
      PROVE  /\ cancel.pc \in {"fee_sending", "refund_sending"} /\ guard' = guard
             /\ cancel'.pc = IF trans[cancel.row].hash = "local" THEN "block"
                             ELSE IF cancel.pc = "fee_sending" THEN "refund" ELSE "release"
             /\ cancel'.refund = cancel.refund
    BY <1>0, <1>5 DEF CancelSent, Cancellations, spotVars
<1>6. CancelFee => cancel.pc = "planned" /\ guard' = guard
    BY DEF CancelFee, spotVars
<1>7. CancelRefund => cancel.pc = "refund" /\ guard' = guard
    BY DEF CancelRefund, spotVars
<1> QED BY <1>0, <1>1, <1>3, <1>4, <1>5, <1>6, <1>7 DEF Cancellations

(* A step as the cancellation sees it: its own quiet steps, its two sends,  *)
(* and everybody else, who adds no leg unless the Spot is banned.           *)
QuietCancel ==
    \/ CancelCheck \/ CancelLease \/ CancelPrepare \/ CancelResolveFails \/ CancelSent \/ CancelEnd
    \/ CancelFee /\ UNCHANGED outboxVars
    \/ CancelRefund /\ UNCHANGED outboxVars
    \/ SpotCrash

SendsFee ==
    /\ CancelFee /\ cancel.fee > 0 /\ RowAdded("platform_fee", cancel.fee, "local")
    /\ cancel' = [cancel EXCEPT !.pc = "fee_sending", !.row = count + 1]

SendsRefund ==
    /\ CancelRefund /\ cancel.refund > 0 /\ RowAdded("refund", cancel.refund, "local")
    /\ cancel' = [cancel EXCEPT !.pc = "refund_sending", !.row = count + 1]

LEMMA CancelKinds ==
    ASSUME SpotTypeOK, IInv, [SpotNext]_vars
    PROVE  \/ QuietCancel /\ RowsKept
           \/ SendsFee
           \/ SendsRefund
           \/ /\ cancel' = cancel /\ guard' = guard
              /\ \/ RowsKept
                 \/ \E t \in TransIds : RowFinalised(t)
                 \/ \E s, a, h : RowAdded(s, a, h) /\ s \notin CancelSlots
                 \/ status = "banned"
<1>0. /\ Deposit \notin CancelSlots /\ "creation_fee" \notin CancelSlots
      /\ "remainder" \notin CancelSlots /\ \A c \in Claims : c \notin CancelSlots
    BY SpotAssumption, OutboxAssumption DEF CancelSlots, SpotSlots
<1>1. CASE AddStep
    <2>1. ASSUME NEW a \in DepositValues, NEW v \in DepositValues \cup {0}, RecordDeposit(a, v)
          PROVE  cancel' = cancel /\ guard' = guard
        BY <2>1 DEF RecordDeposit, spotVars, workVars
    <2>2. SubmitCreationFee => cancel' = cancel /\ guard' = guard
        BY DEF SubmitCreationFee, spotVars, workVars
    <2>3. ASSUME NEW c \in Claims, PaysClaim(c)
          PROVE  cancel' = cancel /\ guard' = guard /\ RowAdded(c, Reward, "local")
        BY <2>3 DEF PaysClaim, SubmitPayout, spotVars
    <2>4. RemainderSubmit => cancel' = cancel /\ guard' = guard
        BY DEF RemainderSubmit, spotVars
    <2>5. SweepSubmit => cancel' = cancel /\ guard' = guard /\ status = "banned"
        BY DEF SweepSubmit, SweepOpen, spotVars
    <2> QED BY <1>0, <1>1, <2>1, <2>2, <2>3, <2>4, <2>5 DEF AddStep, SendsFee, SendsRefund
<1>2. ASSUME NEW t \in TransIds, RefreshRow(t), RowFinalised(t)
      PROVE  cancel' = cancel /\ guard' = guard
    BY <1>2 DEF RefreshRow, workVars
<1>3. CASE QuietStep /\ RowsKept
    <2>1. CASE QuietCancel
        BY <1>3, <2>1
    <2>2. CASE ~QuietCancel
        <3>1. guard' = guard
            BY <2>2, Frames DEF QuietCancel
        <3>2. \/ Publish \/ PeriodEnds
              \/ \E c \in Claims : CreateClaim(c) \/ PromoteClaim(c) \/ FailClaim(c) \/ BeginPayout(c)
              \/ \E c \in Claims : SubmitPayout(c) /\ UNCHANGED outboxVars
              \/ RemainderPrepare \/ RemainderCheck \/ RemainderResolveFails
              \/ RemainderSubmit /\ UNCHANGED outboxVars
              \/ BanSpot \/ SweepReview \/ SweepSent
              \/ \E t \in TransIds : RecoverRow(t) \/ SendRow(t) \/ ChainRow(t)
              \/ UNCHANGED vars
            BY <1>3, <2>2 DEF QuietStep, QuietCancel
        <3>3. cancel' = cancel
            BY <3>2 DEF Publish, PeriodEnds, CreateClaim, PromoteClaim, FailClaim, BeginPayout,
                        SubmitPayout, RemainderPrepare, RemainderCheck, RemainderResolveFails,
                        RemainderSubmit, BanSpot, SweepReview, SweepSent, RecoverRow, SendRow,
                        ChainRow, workVars, vars
        <3> QED BY <1>3, <3>1, <3>3
    <2> QED BY <2>1, <2>2
<1> QED BY <1>1, <1>2, <1>3, StepKinds

LEMMA GuardProcessingStep ==
    ASSUME SpotTypeOK, IInv, GuardHeld, [SpotNext]_vars
    PROVE  GuardProcessing'
<1>1. CASE cancel' = cancel /\ guard' = guard
    BY <1>1 DEF GuardHeld, GuardProcessing
<1>2. CASE QuietCancel
    BY <1>2, CancelPcs1, CancelPcs2 DEF QuietCancel, GuardHeld, GuardProcessing
<1>3. CASE SendsFee \/ SendsRefund
    BY <1>3, CancelPcs2 DEF SendsFee, SendsRefund, GuardHeld, GuardProcessing
<1> QED BY <1>1, <1>2, <1>3, CancelKinds

LEMMA GuardCoversStep ==
    ASSUME SpotTypeOK, IInv, Marks, GuardHeld, [SpotNext]_vars
    PROVE  GuardCoversLegs'
<1> SUFFICES ASSUME status' # "banned" PROVE GuardCoversLegs'
    BY DEF GuardCoversLegs
<1>0. status # "banned"
    BY Onward
<1>1. ASSUME cancel' = cancel, guard' = guard, \A t \in TransIds : LocalLeg(t)' => LocalLeg(t)
      PROVE  GuardCoversLegs'
    BY <1>0, <1>1 DEF GuardHeld, GuardCoversLegs
<1>2. ASSUME RowsKept PROVE \A t \in TransIds : LocalLeg(t)' => LocalLeg(t)
    BY <1>2 DEF RowsKept, LocalLeg, IsLocalIntent
<1>3. ASSUME NEW u \in TransIds, RowFinalised(u)
      PROVE  \A t \in TransIds : LocalLeg(t)' => LocalLeg(t)
    BY <1>3 DEF RowFinalised, LocalLeg, IsLocalIntent
<1>4. ASSUME NEW s, NEW a, NEW h, RowAdded(s, a, h), s \notin CancelSlots
      PROVE  \A t \in TransIds : LocalLeg(t)' => LocalLeg(t)
    BY <1>4 DEF RowAdded, Row, LocalLeg, IsLocalIntent
<1>5. ASSUME NEW s, NEW a, NEW h, RowAdded(s, a, h)
      PROVE  \A t \in TransIds : LocalLeg(t)' => LocalLeg(t) \/ t = count + 1
    BY <1>5 DEF RowAdded, Row, LocalLeg, IsLocalIntent
<1>6. CASE QuietCancel /\ RowsKept
    <2>0. \A t \in TransIds : LocalLeg(t)' => LocalLeg(t)
        BY <1>2, <1>6
    <2>1. CASE CancelCheck \/ SpotCrash
        BY <1>0, <2>0, <2>1, CancelPcs1 DEF GuardHeld, GuardCoversLegs
    <2>2. CASE CancelLease
        BY <1>0, <2>0, <2>2, CancelPcs1 DEF GuardHeld, GuardCoversLegs
    <2>3. CASE CancelPrepare
        BY <1>0, <2>0, <2>3, CancelPcs1 DEF GuardHeld, GuardCoversLegs
    <2>4. CASE CancelEnd
        BY <1>0, <2>0, <2>4, CancelPcs1 DEF GuardHeld, GuardCoversLegs
    <2>5. CASE \/ CancelResolveFails
               \/ CancelFee /\ UNCHANGED outboxVars
               \/ CancelRefund /\ UNCHANGED outboxVars
        BY <1>0, <2>0, <2>5, CancelPcs2 DEF GuardHeld, GuardCoversLegs
    <2>6. CASE CancelSent
        <3>1. trans' = trans /\ cancel.pc \in {"fee_sending", "refund_sending"}
            BY <2>6 DEF CancelSent, outboxVars
        <3>2. \A t \in TransIds : LocalLeg(t) => t = cancel.row
            BY <1>0, <3>1 DEF GuardHeld, GuardCoversLegs
        <3>3. guard' = "processing"
            BY <3>1, <2>6, CancelPcs2 DEF GuardHeld, GuardProcessing
        <3>4. CASE trans[cancel.row].hash = "local"
            <4>1. cancel'.pc = "block"
                BY <2>6, <3>4, CancelPcs2
            <4> QED BY <3>3, <4>1 DEF GuardCoversLegs
        <3>5. CASE trans[cancel.row].hash # "local"
            <4>1. \A t \in TransIds : ~LocalLeg(t)
                BY <3>2, <3>5 DEF LocalLeg, IsLocalIntent
            <4>2. cancel'.pc \in {"refund", "release"}
                BY <2>6, <3>5, CancelPcs2
            <4> QED BY <2>0, <4>1, <4>2 DEF GuardCoversLegs
        <3> QED BY <3>4, <3>5
    <2> QED BY <1>6, <2>1, <2>2, <2>3, <2>4, <2>5, <2>6 DEF QuietCancel
<1>7. CASE SendsFee \/ SendsRefund
    <2>1. /\ cancel.pc \in {"planned", "refund"} /\ guard' = guard
          /\ cancel'.pc \in {"fee_sending", "refund_sending"} /\ cancel'.row = count + 1
        BY <1>7, CancelPcs2 DEF SendsFee, SendsRefund
    <2>2. \A t \in TransIds : LocalLeg(t)' => t = count + 1
        BY <1>0, <1>5, <1>7, <2>1 DEF SendsFee, SendsRefund, GuardHeld, GuardCoversLegs
    <2>3. guard = "processing"
        BY <2>1 DEF GuardHeld, GuardProcessing
    <2> QED BY <2>1, <2>2, <2>3 DEF GuardCoversLegs
<1> QED BY <1>0, <1>1, <1>2, <1>3, <1>4, <1>6, <1>7, CancelKinds

(***************************************************************************)
(* The legs of a cancellation.  A pass that goes on after its first reads  *)
(* found at most one row of each leg, and sends each leg once.             *)
(***************************************************************************)
RowsOf(s) == {t \in TransIds : trans[t].slot = s}

AtMostOne(s) == \A t, u \in RowsOf(s) : t = u

LegsBounded ==
    status # "banned" =>
        /\ \A s \in CancelSlots : Cardinality(RowsOf(s)) =< 2
        /\ cancel.pc = "checked" /\ (~cancel.legs \/ cancel.proven) =>
              AtMostOne("platform_fee") /\ AtMostOne("refund")
        /\ cancel.pc \in {"leased", "planned"} => AtMostOne("platform_fee") /\ AtMostOne("refund")
        /\ cancel.pc \in {"fee_sending", "refund"} => AtMostOne("refund")

(* A page shows every row when the table fits one. *)
LEMMA PageIsTable ==
    ASSUME WholePage, SpotTypeOK
    PROVE  Page = 1 .. count /\ Page \subseteq TransIds
<1>1. count \in 0 .. MaxRows /\ PageLimit \in Nat /\ MaxRows \in Nat
    BY OutboxAssumption, SpotAssumption DEF SpotTypeOK, TypeOK
<1>2. \A t \in 1 .. count : t + PageLimit > count
    BY <1>1 DEF WholePage
<1> QED BY <1>1, <1>2 DEF Page, TransIds

(* The rows of a leg, none of them failed, are at most one. *)
LEMMA UnfailedLeg ==
    ASSUME Books, NEW s \in Payouts, \A t \in RowsOf(s) : trans[t].status # "failed"
    PROVE  AtMostOne(s)
<1>1. ASSUME NEW t \in RowsOf(s) PROVE trans[t].status \in {"pending", "confirmed"} /\ t \in TransIds
    <2>1. t =< count
        <3>1. t > count => trans[t] = NoRow
            BY DEF Books, IInv, FreshRows, RowsOf
        <3>2. NoRow.slot # s
            BY OutboxAssumption DEF NoRow
        <3>3. count \in Nat /\ t \in Nat
            BY OutboxAssumption DEF Books, SpotTypeOK, TypeOK, TransIds, RowsOf
        <3> QED BY <3>1, <3>2, <3>3 DEF RowsOf
    <2>2. trans[t].status # "absent"
        BY <2>1 DEF Books, RowsLive, RowsOf
    <2>3. trans[t].status \in {"absent", "pending", "confirmed", "failed"}
        BY DEF Books, IInv, TypeOK, Rows, RowsOf
    <2> QED BY <2>2, <2>3 DEF RowsOf
<1> QED BY <1>1 DEF AtMostOne, RowsOf, Books, IInv, UniqueActiveIntent

(* What the first reads of a pass have seen: with every failed leg on the   *)
(* page, a pass that is not going to stop found at most one row per leg.    *)
LEMMA CheckSeesLegs ==
    ASSUME WholePage, Books, CancelCheck, ~cancel'.legs \/ cancel'.proven
    PROVE  AtMostOne("platform_fee") /\ AtMostOne("refund")
<1>0. {"platform_fee", "refund"} \subseteq Payouts
    BY SpotAssumption DEF SpotSlots
<1>1. \A s \in Payouts : \A t \in RowsOf(s) : t \in Page
    <2>1. \A t \in TransIds : t > count => trans[t].slot = Deposit
        BY DEF Books, IInv, FreshRows, NoRow
    <2>2. Page = 1 .. count /\ count \in Nat
        BY PageIsTable, OutboxAssumption DEF Books, SpotTypeOK, TypeOK
    <2> QED BY <2>1, <2>2, OutboxAssumption DEF RowsOf, TransIds
<1>2. PICK b \in BOOLEAN :
        /\ b => \E t \in Page : RetryableRefund(t) /\ chain[t] = "rejected"
        /\ cancel' = [NoCancel EXCEPT !.pc = "checked", !.proven = b,
                                      !.legs = FailedLegs(CancelSlots) # {}]
    BY Zenon DEF CancelCheck
<1>3. cancel'.proven = b /\ cancel'.legs = (FailedLegs(CancelSlots) # {})
    BY <1>2 DEF NoCancel
<1>4. CASE FailedLegs(CancelSlots) = {}
    <2>1. ASSUME NEW s \in {"platform_fee", "refund"}, NEW t \in RowsOf(s)
          PROVE  trans[t].status # "failed"
        BY <1>0, <1>1, <1>4, <2>1 DEF FailedLegs, CancelSlots, RowsOf
    <2> QED BY <1>0, <2>1, UnfailedLeg
<1>5. CASE b
    <2>1. PICK r \in Page : RetryableRefund(r)
        BY <1>2, <1>5
    <2>2. AtMostOne("refund")
        BY <1>0, <1>1, <2>1 DEF RetryableRefund, AtMostOne, RowsOf
    <2>3. \A t \in RowsOf("platform_fee") : trans[t].status # "failed"
        BY <1>0, <1>1, <2>1 DEF RetryableRefund, FailedLegs, RowsOf
    <2> QED BY <1>0, <2>2, <2>3, UnfailedLeg
<1> QED BY <1>3, <1>4, <1>5

(* One row more than at most one is at most two. *)
LEMMA SecondRow ==
    ASSUME NEW s, AtMostOne(s), NEW n, RowsOf(s)' \subseteq RowsOf(s) \cup {n}
    PROVE  Cardinality(RowsOf(s)') =< 2
<1>1. PICK m : RowsOf(s) \subseteq {m}
    BY DEF AtMostOne
<1>2. RowsOf(s)' \subseteq {m, n}
    BY <1>1
<1>3. IsFiniteSet({m, n}) /\ Cardinality({m, n}) =< 2
    <2>1. IsFiniteSet({m}) /\ Cardinality({m}) = 1
        BY FS_Singleton
    <2>2. IsFiniteSet({m} \cup {n})
          /\ Cardinality({m} \cup {n}) \in {Cardinality({m}), Cardinality({m}) + 1}
        BY <2>1, FS_AddElement
    <2>3. {m} \cup {n} = {m, n}
        OBVIOUS
    <2> QED BY <2>1, <2>2, <2>3
<1>4. IsFiniteSet(RowsOf(s)') /\ Cardinality(RowsOf(s)') =< Cardinality({m, n})
    BY <1>2, <1>3, FS_Subset
<1>5. Cardinality(RowsOf(s)') \in Nat /\ Cardinality({m, n}) \in Nat
    BY <1>3, <1>4, FS_CardinalityType
<1> QED BY <1>3, <1>4, <1>5

LEMMA LegsBoundedStep ==
    ASSUME WholePage, Books, GuardHeld, LegsBounded, [SpotNext]_vars
    PROVE  LegsBounded'
<1> SUFFICES ASSUME status' # "banned" PROVE LegsBounded'
    BY DEF LegsBounded
<1>0. SpotTypeOK /\ IInv /\ Marks /\ status # "banned"
    BY Onward DEF Books
<1>b. /\ \A s \in CancelSlots : Cardinality(RowsOf(s)) =< 2
      /\ cancel.pc = "checked" /\ (~cancel.legs \/ cancel.proven) =>
            AtMostOne("platform_fee") /\ AtMostOne("refund")
      /\ cancel.pc \in {"leased", "planned"} => AtMostOne("platform_fee") /\ AtMostOne("refund")
      /\ cancel.pc \in {"fee_sending", "refund"} => AtMostOne("refund")
    BY <1>0 DEF LegsBounded
<1>1. ASSUME RowsKept \/ \E t \in TransIds : RowFinalised(t), NEW s
      PROVE  RowsOf(s)' = RowsOf(s) /\ (AtMostOne(s) => AtMostOne(s)')
    <2>1. RowsOf(s)' = RowsOf(s)
        BY <1>1 DEF RowsKept, RowFinalised, RowsOf
    <2> QED BY <2>1 DEF AtMostOne
<1>2. ASSUME NEW r, NEW a, NEW h, RowAdded(r, a, h), NEW s, s # Deposit
      PROVE  /\ RowsOf(s)' \subseteq RowsOf(s) \cup {count + 1}
             /\ s # r => RowsOf(s)' = RowsOf(s) /\ (AtMostOne(s) => AtMostOne(s)')
    <2>1. RowsOf(s)' \subseteq RowsOf(s) \cup {count + 1}
        BY <1>2 DEF RowAdded, RowsOf
    <2>2. s # r => RowsOf(s)' = RowsOf(s)
        BY <1>2 DEF RowAdded, Row, RowsOf, NoRow
    <2> QED BY <2>1, <2>2 DEF AtMostOne
<1>3. Deposit \notin CancelSlots /\ CancelSlots = {"refund", "platform_fee"}
    BY SpotAssumption, OutboxAssumption DEF CancelSlots, SpotSlots
<1>4. ASSUME \A s \in CancelSlots : RowsOf(s)' = RowsOf(s) /\ (AtMostOne(s) => AtMostOne(s)'),
             cancel' = cancel
      PROVE  LegsBounded'
    BY <1>b, <1>3, <1>4 DEF LegsBounded
<1>5. CASE QuietCancel /\ RowsKept
    <2>0. /\ \A s \in CancelSlots : Cardinality(RowsOf(s)') =< 2
          /\ AtMostOne("refund") => AtMostOne("refund")'
          /\ AtMostOne("platform_fee") => AtMostOne("platform_fee")'
        BY <1>1, <1>3, <1>5, <1>b
    <2>1. CASE CancelCheck
        <3>1. cancel'.pc = "checked"
            BY <1>0, <2>1, CancelPcs1
        <3> QED BY <2>0, <2>1, <3>1, CheckSeesLegs DEF LegsBounded
    <2>2. CASE CancelLease \/ CancelPrepare \/ CancelEnd \/ SpotCrash
        BY <1>0, <1>b, <2>0, <2>2, CancelPcs1 DEF LegsBounded
    <2>3. CASE \/ CancelResolveFails \/ CancelSent
               \/ CancelFee /\ UNCHANGED outboxVars
               \/ CancelRefund /\ UNCHANGED outboxVars
        BY <1>0, <1>b, <2>0, <2>3, CancelPcs2 DEF LegsBounded
    <2> QED BY <1>5, <2>1, <2>2, <2>3 DEF QuietCancel
<1>6. CASE SendsFee
    <2>1. cancel.pc = "planned" /\ cancel'.pc = "fee_sending"
        BY <1>0, <1>6, CancelPcs2 DEF SendsFee
    <2>2. AtMostOne("platform_fee") /\ AtMostOne("refund")
        BY <1>b, <2>1
    <2>3. Cardinality(RowsOf("platform_fee")') =< 2
        BY <1>2, <1>3, <1>6, <2>2, SecondRow DEF SendsFee
    <2>4. RowsOf("refund")' = RowsOf("refund") /\ AtMostOne("refund")'
        BY <1>2, <1>3, <1>6, <2>2 DEF SendsFee
    <2> QED BY <1>3, <1>b, <2>1, <2>3, <2>4 DEF LegsBounded
<1>7. CASE SendsRefund
    <2>1. cancel.pc = "refund" /\ cancel'.pc = "refund_sending"
        BY <1>0, <1>7, CancelPcs2 DEF SendsRefund
    <2>2. AtMostOne("refund")
        BY <1>b, <2>1
    <2>3. Cardinality(RowsOf("refund")') =< 2
        BY <1>2, <1>3, <1>7, <2>2, SecondRow DEF SendsRefund
    <2>4. RowsOf("platform_fee")' = RowsOf("platform_fee")
        BY <1>2, <1>3, <1>7 DEF SendsRefund
    <2> QED BY <1>3, <1>b, <2>1, <2>3, <2>4 DEF LegsBounded
<1> QED BY <1>0, <1>1, <1>2, <1>3, <1>4, <1>5, <1>6, <1>7, CancelKinds

LEMMA GuardInit == SpotInit => GuardHeld /\ LegsBounded
<1> SUFFICES ASSUME SpotInit PROVE GuardHeld /\ LegsBounded
    OBVIOUS
<1>1. \A t \in TransIds : trans[t] = NoRow
    BY DEF SpotInit, OutboxInit
<1>2. cancel.pc = "idle"
    BY DEF SpotInit, NoCancel
<1>3. GuardHeld
    BY <1>1, <1>2 DEF GuardHeld, GuardProcessing, GuardCoversLegs, LocalLeg, IsLocalIntent, NoRow
<1>4. \A s \in CancelSlots : RowsOf(s) = {}
    BY <1>1, SpotAssumption, OutboxAssumption DEF RowsOf, NoRow, CancelSlots, SpotSlots
<1>5. \A s \in CancelSlots : Cardinality(RowsOf(s)) =< 2
    BY <1>4, FS_EmptySet
<1> QED BY <1>2, <1>3, <1>5 DEF LegsBounded

LEMMA GuardHolds ==
    ASSUME Unbounded, WholePage
    PROVE  SpotSpec => [](GuardHeld /\ LegsBounded)
<1>1. Books /\ GuardHeld /\ LegsBounded /\ [SpotNext]_vars => (GuardHeld /\ LegsBounded)'
    BY GuardProcessingStep, GuardCoversStep, LegsBoundedStep DEF Books, GuardHeld
<1> QED BY <1>1, GuardInit, BooksHold, PTL DEF SpotSpec

(* A cancellation leg goes out again only when the failure of the previous  *)
(* one is known, and then once, however crashes, the guard row, the reads   *)
(* of guarded_submit_spot_cancellation_transactions and the refresher       *)
(* interleave.                                                              *)
THEOREM SpotRefundSentOnce == ASSUME Unbounded, WholePage PROVE SpotSpec => []RefundSentOnce
<1>1. GuardHeld /\ LegsBounded => RefundSentOnce
    BY DEF GuardHeld, GuardCoversLegs, LegsBounded, LocalLeg, RowsOf, RefundSentOnce,
           AmbiguousSendKeepsGuard, LegsRetriedOnce
<1> QED BY <1>1, GuardHolds, PTL
=============================================================================
