------------------------- MODULE TransOutbox_proofs -------------------------
(***************************************************************************)
(* Proofs about the outbox for any number of rows, any set of obligations  *)
(* and any combination of failures.                                        *)
(***************************************************************************)
EXTENDS TransOutbox, TLAPS

(***************************************************************************)
(* The inductive invariant.  PaidAtMostOnce alone is not inductive: it     *)
(* needs that what can still reach the chain is never FAILED in the ledger *)
(* (LiveRowsHoldTheirSlot), which needs that only rows whose sender is done*)
(* are ever failed (SendersAreAhead), and that row count + 1 is fresh.     *)
(***************************************************************************)
FreshRows ==
    \A t \in TransIds : t > count =>
        trans[t] = NoRow /\ sender[t] = "idle" /\ chain[t] = "absent"

SendersAreAhead ==
    \A t \in TransIds :
        /\ sender[t] # "idle" =>
              /\ trans[t].slot \in Payouts
              /\ trans[t].status \in {"pending", "confirmed"}
              /\ trans[t].hash = "local" \/ chain[t] = "executed"
        /\ sender[t] = "sending" => chain[t] = "absent" /\ trans[t].status = "pending"
        /\ sender[t] = "returned" => chain[t] # "absent"

LiveRowsHoldTheirSlot ==
    \A t \in TransIds : trans[t].slot \in Payouts =>
        /\ chain[t] \in {"mempool", "executed"} => trans[t].status \in {"pending", "confirmed"}
        /\ chain[t] # "absent" => moved[t] = trans[t].amount
        /\ trans[t].hash = "chain" => chain[t] # "absent"

IInv ==
    /\ TypeOK
    /\ FreshRows
    /\ SendersAreAhead
    /\ LiveRowsHoldTheirSlot
    /\ UniqueActiveIntent
    /\ LedgerMatchesChain

-----------------------------------------------------------------------------
(* Row t is the next row to be inserted. *)
LEMMA NextRow ==
    ASSUME TypeOK, count < MaxRows
    PROVE  count + 1 \in TransIds /\ count \in Nat
BY OutboxAssumption DEF TypeOK, TransIds

(* The outbox keeps its types: every action of the sender, the refresher    *)
(* and the chain leaves the table, the senders and the chain well-formed.   *)
LEMMA TypeStep == TypeOK /\ [OutboxNext]_outboxVars => TypeOK'
<1> SUFFICES ASSUME TypeOK, [OutboxNext]_outboxVars PROVE TypeOK'
    OBVIOUS
<1> USE OutboxAssumption DEF TypeOK, Rows, Slots
<1>1. ASSUME NEW s \in Payouts, NEW a \in Amounts, CreateIntent(s, a) PROVE TypeOK'
    BY <1>1, NextRow DEF CreateIntent, Insert
<1>2. ASSUME NEW a \in Amounts, NEW v \in Amounts \cup {0}, InsertDeposit(a, v) PROVE TypeOK'
    BY <1>2, NextRow DEF InsertDeposit, Insert
<1>3. ASSUME NEW t \in TransIds, OutboxSend(t) PROVE TypeOK'
    <2>1. CASE BroadcastOk(t)
        BY <2>1 DEF BroadcastOk, Broadcast
    <2>2. CASE BroadcastLost(t)
        BY <2>2 DEF BroadcastLost, Broadcast
    <2>3. CASE BroadcastFails(t)
        BY <2>3 DEF BroadcastFails
    <2>4. CASE RecordHash(t)
        <3>1. [trans[t] EXCEPT !.hash = "chain"] \in Rows
            OBVIOUS
        <3>2. trans' = [trans EXCEPT ![t] = [trans[t] EXCEPT !.hash = "chain"]]
            BY <2>4 DEF RecordHash
        <3>3. trans' \in [TransIds -> Rows]
            BY <3>1, <3>2
        <3> QED BY <2>4, <3>3 DEF RecordHash
    <2> QED BY <1>3, <2>1, <2>2, <2>3, <2>4 DEF OutboxSend
<1>4. ASSUME NEW t \in TransIds, OutboxChain(t) PROVE TypeOK'
    BY <1>4 DEF OutboxChain, ChainExecutes, ChainRejects
<1>5. ASSUME NEW t \in TransIds, OutboxRefresh(t) PROVE TypeOK'
    <2>1. CASE MarkConfirmed(t)
        <3> DEFINE marked == [trans[t] EXCEPT !.status = "confirmed"]
        <3>0. marked \in Rows
            OBVIOUS
        <3>4. moved[t] \in Amounts \cup {0}
            OBVIOUS
        <3> HIDE DEF marked
        <3>1. [marked EXCEPT !.amount = moved[t]] \in Rows
            BY <3>0, <3>4
        <3>2. trans' = [trans EXCEPT ![t] = [marked EXCEPT !.amount = moved[t]]]
            BY <2>1, Zenon DEF MarkConfirmed, marked
        <3>3. trans' \in [TransIds -> Rows]
            BY <3>1, <3>2
        <3> QED BY <2>1, <3>3 DEF MarkConfirmed
    <2>2. CASE SetStatus(t, "failed")
        <3>1. [trans[t] EXCEPT !.status = "failed"] \in Rows
            OBVIOUS
        <3>2. trans' = [trans EXCEPT ![t] = [trans[t] EXCEPT !.status = "failed"]]
            BY <2>2 DEF SetStatus
        <3>3. trans' \in [TransIds -> Rows]
            BY <3>1, <3>2
        <3> QED BY <2>2, <3>3 DEF SetStatus
    <2>3. CASE RejectSender(t)
        <3> DEFINE rejected == [trans[t] EXCEPT !.status = "failed"]
        <3>0. rejected \in Rows
            OBVIOUS
        <3>4. moved[t] \in Amounts \cup {0}
            OBVIOUS
        <3> HIDE DEF rejected
        <3>1. [rejected EXCEPT !.amount = moved[t]] \in Rows
            BY <3>0, <3>4
        <3>2. trans' = [trans EXCEPT ![t] = [rejected EXCEPT !.amount = moved[t]]]
            BY <2>3, Zenon DEF RejectSender, rejected
        <3>3. trans' \in [TransIds -> Rows]
            BY <3>1, <3>2
        <3> QED BY <2>3, <3>3 DEF RejectSender
    <2>4. MarkConfirmed(t) \/ SetStatus(t, "failed") \/ RejectSender(t)
        BY <1>5, Zenon DEF OutboxRefresh, MarkFailed, RejectDeposit, ExpireDeposit
    <2> QED BY <2>1, <2>2, <2>3, <2>4
<1>8. ASSUME NEW t \in TransIds, RecoverIntent(t) PROVE TypeOK'
    <2>1. [trans[t] EXCEPT !.hash = "chain"] \in Rows
        OBVIOUS
    <2>2. trans' = [trans EXCEPT ![t] = [trans[t] EXCEPT !.hash = "chain"]]
        BY <1>8 DEF RecoverIntent
    <2>3. trans' \in [TransIds -> Rows]
        BY <2>1, <2>2
    <2> QED BY <1>8, <2>3 DEF RecoverIntent
<1>6. CASE Crash
    BY <1>6 DEF Crash
<1>7. CASE UNCHANGED outboxVars
    BY <1>7 DEF outboxVars
<1> QED BY <1>1, <1>2, <1>3, <1>4, <1>5, <1>6, <1>7, <1>8 DEF OutboxNext

-----------------------------------------------------------------------------
(* The empty table satisfies the invariant. *)
LEMMA InitIInv == OutboxInit => IInv
<1> SUFFICES ASSUME OutboxInit PROVE IInv
    OBVIOUS
<1> USE OutboxAssumption DEF OutboxInit, NoRow
<1>1. TypeOK
    BY DEF TypeOK, Rows, Slots
<1>2. FreshRows
    BY DEF FreshRows, TransIds
<1>3. SendersAreAhead
    BY DEF SendersAreAhead
<1>4. LiveRowsHoldTheirSlot
    BY DEF LiveRowsHoldTheirSlot
<1>5. UniqueActiveIntent /\ LedgerMatchesChain
    BY DEF UniqueActiveIntent, LedgerMatchesChain
<1> QED BY <1>1, <1>2, <1>3, <1>4, <1>5 DEF IInv

(* A new intent takes a slot that only FAILED rows occupy. *)
LEMMA CreateStep ==
    ASSUME IInv, NEW s \in Payouts, NEW a \in Amounts, CreateIntent(s, a)
    PROVE  (FreshRows /\ SendersAreAhead /\ LiveRowsHoldTheirSlot
              /\ UniqueActiveIntent /\ LedgerMatchesChain)'
<1> DEFINE n == count + 1
<1>1. n \in TransIds /\ count \in Nat /\ n > count /\ count' = n
    BY NextRow DEF IInv, CreateIntent, Insert
<1>2. trans[n] = NoRow /\ sender[n] = "idle" /\ chain[n] = "absent"
    BY <1>1 DEF IInv, FreshRows
<1>3. /\ trans'[n] = [slot |-> s, amount |-> a, status |-> "pending", hash |-> "local"]
      /\ sender'[n] = "sending"
      /\ chain' = chain /\ moved' = moved
      /\ \A t \in TransIds : t # n => trans'[t] = trans[t] /\ sender'[t] = sender[t]
    BY <1>1 DEF IInv, TypeOK, CreateIntent, Insert
<1>4. FreshRows'
    <2> SUFFICES ASSUME NEW t \in TransIds, t > count'
                 PROVE  trans'[t] = NoRow /\ sender'[t] = "idle" /\ chain'[t] = "absent"
        BY DEF FreshRows
    <2>1. t \in Nat /\ t > count /\ t # n
        BY <1>1 DEF TransIds
    <2> QED BY <2>1, <1>3 DEF IInv, FreshRows
<1>5. SendersAreAhead'
    BY <1>2, <1>3 DEF IInv, SendersAreAhead
<1>6. LiveRowsHoldTheirSlot'
    BY <1>2, <1>3 DEF IInv, LiveRowsHoldTheirSlot
<1>7. UniqueActiveIntent'
    <2> SUFFICES ASSUME NEW t \in TransIds, NEW u \in TransIds,
                        trans'[t].slot = trans'[u].slot, trans'[t].slot \in Payouts,
                        trans'[t].status \in {"pending", "confirmed"},
                        trans'[u].status \in {"pending", "confirmed"}
                 PROVE  t = u
        BY DEF UniqueActiveIntent
    <2>1. ASSUME NEW w \in TransIds, w # n, trans[w].slot = s
          PROVE  trans[w].status \notin {"pending", "confirmed"}
        BY <2>1 DEF CreateIntent, HasNonFailed
    <2>2. CASE t # n /\ u # n
        BY <2>2, <1>3 DEF IInv, UniqueActiveIntent
    <2>3. CASE t = n /\ u # n
        BY <2>3, <1>3, <2>1
    <2>4. CASE t # n /\ u = n
        BY <2>4, <1>3, <2>1
    <2> QED BY <2>2, <2>3, <2>4
<1>8. LedgerMatchesChain'
    BY <1>2, <1>3 DEF IInv, LedgerMatchesChain
<1> QED BY <1>4, <1>5, <1>6, <1>7, <1>8

(* Deposits take no slot of an outgoing obligation. *)
LEMMA DepositStep ==
    ASSUME IInv, NEW a \in Amounts, NEW v \in Amounts \cup {0}, InsertDeposit(a, v)
    PROVE  (FreshRows /\ SendersAreAhead /\ LiveRowsHoldTheirSlot
              /\ UniqueActiveIntent /\ LedgerMatchesChain)'
<1> DEFINE n == count + 1
<1>1. n \in TransIds /\ count \in Nat /\ n > count /\ count' = n
    BY NextRow DEF IInv, InsertDeposit, Insert
<1>2. trans[n] = NoRow /\ sender[n] = "idle" /\ chain[n] = "absent"
    BY <1>1 DEF IInv, FreshRows
<1>3. /\ trans'[n] = [slot |-> Deposit, amount |-> a, status |-> "pending", hash |-> "chain"]
      /\ sender' = sender
      /\ \A t \in TransIds : t # n =>
            trans'[t] = trans[t] /\ chain'[t] = chain[t] /\ moved'[t] = moved[t]
    BY <1>1 DEF IInv, TypeOK, InsertDeposit, Insert
<1>4. trans'[n].slot \notin Payouts
    BY <1>3, OutboxAssumption
<1>5. FreshRows'
    <2> SUFFICES ASSUME NEW t \in TransIds, t > count'
                 PROVE  trans'[t] = NoRow /\ sender'[t] = "idle" /\ chain'[t] = "absent"
        BY DEF FreshRows
    <2>1. t \in Nat /\ t > count /\ t # n
        BY <1>1 DEF TransIds
    <2> QED BY <2>1, <1>3 DEF IInv, FreshRows
<1>6. SendersAreAhead'
    BY <1>2, <1>3, <1>4 DEF IInv, SendersAreAhead
<1>7. LiveRowsHoldTheirSlot'
    BY <1>3, <1>4 DEF IInv, LiveRowsHoldTheirSlot
<1>8. UniqueActiveIntent'
    BY <1>3, <1>4 DEF IInv, UniqueActiveIntent
<1>9. LedgerMatchesChain'
    BY <1>3, <1>4 DEF IInv, LedgerMatchesChain
<1> QED BY <1>5, <1>6, <1>7, <1>8, <1>9

(* A coroutine that sends row t broadcasts it at most once, and only while  *)
(* the row is PENDING; recording the hash then changes neither slot nor     *)
(* status.                                                                  *)
LEMMA SendStep ==
    ASSUME IInv, NEW t \in TransIds, OutboxSend(t)
    PROVE  (FreshRows /\ SendersAreAhead /\ LiveRowsHoldTheirSlot
              /\ UniqueActiveIntent /\ LedgerMatchesChain)'
<1> USE DEF IInv, TypeOK, Rows
<1>1. CASE BroadcastOk(t) \/ BroadcastLost(t)
    <2>1. /\ sender[t] = "sending" /\ chain[t] = "absent" /\ trans[t].status = "pending"
          /\ trans[t].hash = "local" /\ t <= count
        BY <1>1 DEF BroadcastOk, BroadcastLost, SendersAreAhead, FreshRows, TransIds
    <2>2. /\ trans' = trans /\ count' = count
          /\ sender'[t] \in {"idle", "returned"}
          /\ chain'[t] = "mempool" /\ moved'[t] = trans[t].amount
          /\ \A u \in TransIds : u # t =>
                sender'[u] = sender[u] /\ chain'[u] = chain[u] /\ moved'[u] = moved[u]
        BY <1>1 DEF BroadcastOk, BroadcastLost, Broadcast
    <2>3. FreshRows'
        BY <2>1, <2>2 DEF FreshRows, TransIds
    <2>4. SendersAreAhead'
        BY <2>1, <2>2 DEF SendersAreAhead
    <2>5. LiveRowsHoldTheirSlot'
        BY <2>1, <2>2 DEF LiveRowsHoldTheirSlot
    <2>6. UniqueActiveIntent' /\ LedgerMatchesChain'
        BY <2>1, <2>2 DEF UniqueActiveIntent, LedgerMatchesChain
    <2> QED BY <2>3, <2>4, <2>5, <2>6
<1>2. CASE BroadcastFails(t)
    BY <1>2 DEF BroadcastFails, FreshRows, SendersAreAhead, LiveRowsHoldTheirSlot,
                UniqueActiveIntent, LedgerMatchesChain
<1>3. CASE RecordHash(t)
    <2>1. sender[t] = "returned" /\ chain[t] # "absent" /\ t <= count
        BY <1>3 DEF RecordHash, SendersAreAhead, FreshRows, TransIds
    <2>2. /\ count' = count /\ chain' = chain /\ moved' = moved
          /\ sender'[t] = "idle"
          /\ trans'[t].slot = trans[t].slot /\ trans'[t].amount = trans[t].amount
          /\ trans'[t].status = trans[t].status
          /\ \A u \in TransIds : u # t => sender'[u] = sender[u] /\ trans'[u] = trans[u]
        BY <1>3 DEF RecordHash
    <2>3. FreshRows'
        BY <2>1, <2>2 DEF FreshRows, TransIds
    <2>4. SendersAreAhead'
        BY <2>2 DEF SendersAreAhead
    <2>5. LiveRowsHoldTheirSlot'
        BY <2>1, <2>2 DEF LiveRowsHoldTheirSlot
    <2>6. UniqueActiveIntent'
        BY <2>2 DEF UniqueActiveIntent
    <2>7. LedgerMatchesChain'
        BY <2>2 DEF LedgerMatchesChain
    <2> QED BY <2>3, <2>4, <2>5, <2>6, <2>7
<1> QED BY <1>1, <1>2, <1>3 DEF OutboxSend

(* The chain decides a transaction it holds. *)
LEMMA ChainStep ==
    ASSUME IInv, NEW t \in TransIds, OutboxChain(t)
    PROVE  (FreshRows /\ SendersAreAhead /\ LiveRowsHoldTheirSlot
              /\ UniqueActiveIntent /\ LedgerMatchesChain)'
<1> USE DEF IInv, TypeOK, Rows
<1>1. /\ chain[t] = "mempool" /\ chain'[t] \in {"executed", "rejected"}
      /\ trans' = trans /\ count' = count /\ sender' = sender /\ moved' = moved
      /\ \A u \in TransIds : u # t => chain'[u] = chain[u]
    BY DEF OutboxChain, ChainExecutes, ChainRejects
<1>2. FreshRows'
    BY <1>1 DEF FreshRows
<1>3. SendersAreAhead'
    BY <1>1 DEF SendersAreAhead
<1>4. LiveRowsHoldTheirSlot'
    BY <1>1 DEF LiveRowsHoldTheirSlot
<1>5. UniqueActiveIntent'
    BY <1>1 DEF UniqueActiveIntent
<1>6. LedgerMatchesChain'
    BY <1>1 DEF LedgerMatchesChain, LiveRowsHoldTheirSlot
<1> QED BY <1>2, <1>3, <1>4, <1>5, <1>6

(* The refresher finalises a PENDING row according to what the chain did.   *)
LEMMA RefreshStep ==
    ASSUME IInv, NEW t \in TransIds, OutboxRefresh(t)
    PROVE  (FreshRows /\ SendersAreAhead /\ LiveRowsHoldTheirSlot
              /\ UniqueActiveIntent /\ LedgerMatchesChain)'
<1> USE DEF IInv, TypeOK, Rows
<1>1. /\ trans[t].status = "pending" /\ chain[t] # "absent" /\ t <= count
      /\ count' = count /\ sender' = sender /\ chain' = chain /\ moved' = moved
      /\ trans'[t].slot = trans[t].slot
      /\ \A u \in TransIds : u # t => trans'[u] = trans[u]
    <2>1. CASE MarkConfirmed(t)
        BY <2>1 DEF MarkConfirmed, ProvenConfirmed, FreshRows, TransIds
    <2>2. CASE MarkFailed(t)
        BY <2>2 DEF MarkFailed, ProvenFailed, SetStatus, FreshRows, TransIds
    <2>3. CASE RejectDeposit(t)
        BY <2>3 DEF RejectDeposit, WrongDeposit, ProvenConfirmed, SetStatus, FreshRows, TransIds
    <2>4. CASE ExpireDeposit(t)
        BY <2>4 DEF ExpireDeposit, StaleDeposit, SetStatus, FreshRows, TransIds
    <2>5. CASE RejectSender(t)
        BY <2>5 DEF RejectSender, ProvenConfirmed, FreshRows, TransIds
    <2> QED BY <2>1, <2>2, <2>3, <2>4, <2>5 DEF OutboxRefresh
<1>2. trans[t].slot \in Payouts =>
          \/ /\ trans'[t].status = "confirmed" /\ chain[t] = "executed"
             /\ trans'[t].amount = moved[t]
          \/ /\ trans'[t].status = "failed" /\ chain[t] = "rejected"
             /\ trans'[t].amount = trans[t].amount /\ sender[t] = "idle"
    <2> SUFFICES ASSUME trans[t].slot \in Payouts
                 PROVE  \/ /\ trans'[t].status = "confirmed" /\ chain[t] = "executed"
                           /\ trans'[t].amount = moved[t]
                        \/ /\ trans'[t].status = "failed" /\ chain[t] = "rejected"
                           /\ trans'[t].amount = trans[t].amount /\ sender[t] = "idle"
        OBVIOUS
    <2>1. trans[t].slot # Deposit
        BY OutboxAssumption
    <2>2. CASE MarkConfirmed(t)
        BY <2>2 DEF MarkConfirmed, ProvenConfirmed
    <2>3. CASE MarkFailed(t)
        BY <2>3 DEF MarkFailed, ProvenFailed, SetStatus, SendersAreAhead
    <2>4. CASE RejectDeposit(t) \/ RejectSender(t) \/ ExpireDeposit(t)
        BY <2>1, <2>4 DEF RejectDeposit, RejectSender, ExpireDeposit, WrongDeposit, StaleDeposit
    <2> QED BY <2>2, <2>3, <2>4 DEF OutboxRefresh
<1>3. FreshRows'
    BY <1>1 DEF FreshRows, TransIds
<1>4. SendersAreAhead'
    BY <1>1, <1>2 DEF SendersAreAhead
<1>5. LiveRowsHoldTheirSlot'
    BY <1>1, <1>2 DEF LiveRowsHoldTheirSlot
<1>6. UniqueActiveIntent'
    BY <1>1 DEF UniqueActiveIntent
<1>7. LedgerMatchesChain'
    BY <1>1, <1>2 DEF LedgerMatchesChain
<1> QED BY <1>3, <1>4, <1>5, <1>6, <1>7

(* The creation-fee recovery attaches the hash of an executed transaction.  *)
LEMMA RecoverStep ==
    ASSUME IInv, NEW t \in TransIds, RecoverIntent(t)
    PROVE  (FreshRows /\ SendersAreAhead /\ LiveRowsHoldTheirSlot
              /\ UniqueActiveIntent /\ LedgerMatchesChain)'
<1> USE DEF IInv, TypeOK, Rows
<1>1. trans[t].status = "pending" /\ chain[t] = "executed" /\ t <= count
    BY DEF RecoverIntent, RecoverableIntent, IsLocalIntent, FreshRows, TransIds
<1>2. /\ count' = count /\ sender' = sender /\ chain' = chain /\ moved' = moved
      /\ trans'[t].slot = trans[t].slot /\ trans'[t].amount = trans[t].amount
      /\ trans'[t].status = trans[t].status
      /\ \A u \in TransIds : u # t => trans'[u] = trans[u]
    BY DEF RecoverIntent
<1>3. FreshRows'
    BY <1>1, <1>2 DEF FreshRows, TransIds
<1>4. SendersAreAhead'
    BY <1>1, <1>2 DEF SendersAreAhead
<1>5. LiveRowsHoldTheirSlot'
    BY <1>1, <1>2 DEF LiveRowsHoldTheirSlot
<1>6. UniqueActiveIntent'
    BY <1>2 DEF UniqueActiveIntent
<1>7. LedgerMatchesChain'
    BY <1>2 DEF LedgerMatchesChain
<1> QED BY <1>3, <1>4, <1>5, <1>6, <1>7

(* Every step of the outbox keeps the inductive invariant. *)
LEMMA IInvStep == IInv /\ [OutboxNext]_outboxVars => IInv'
<1> SUFFICES ASSUME IInv, [OutboxNext]_outboxVars PROVE IInv'
    OBVIOUS
<1>1. TypeOK'
    BY TypeStep DEF IInv
<1>2. CASE OutboxNext
    <2>1. ASSUME NEW s \in Payouts, NEW a \in Amounts, CreateIntent(s, a) PROVE IInv'
        BY <1>1, <2>1, CreateStep DEF IInv
    <2>2. ASSUME NEW a \in Amounts, NEW v \in Amounts \cup {0}, InsertDeposit(a, v) PROVE IInv'
        BY <1>1, <2>2, DepositStep DEF IInv
    <2>3. ASSUME NEW t \in TransIds, OutboxSend(t) PROVE IInv'
        BY <1>1, <2>3, SendStep DEF IInv
    <2>4. ASSUME NEW t \in TransIds, OutboxChain(t) PROVE IInv'
        BY <1>1, <2>4, ChainStep DEF IInv
    <2>5. ASSUME NEW t \in TransIds, OutboxRefresh(t) PROVE IInv'
        BY <1>1, <2>5, RefreshStep DEF IInv
    <2>6. CASE Crash
        BY <1>1, <2>6 DEF Crash, IInv, FreshRows, SendersAreAhead, LiveRowsHoldTheirSlot,
                          UniqueActiveIntent, LedgerMatchesChain
    <2>7. ASSUME NEW t \in TransIds, RecoverIntent(t) PROVE IInv'
        BY <1>1, <2>7, RecoverStep DEF IInv
    <2> QED BY <1>2, <2>1, <2>2, <2>3, <2>4, <2>5, <2>6, <2>7 DEF OutboxNext
<1>3. CASE UNCHANGED outboxVars
    BY <1>1, <1>3 DEF outboxVars, IInv, FreshRows, SendersAreAhead, LiveRowsHoldTheirSlot,
                      UniqueActiveIntent, LedgerMatchesChain
<1> QED BY <1>2, <1>3

-----------------------------------------------------------------------------
(* The inductive invariant holds throughout: what the table, the senders    *)
(* and the chain say of a row always agree, in every behaviour of           *)
(* _submit_recorded_chain_send and check_pending_transactions.              *)
THEOREM OutboxInvariant == OutboxSpec => []IInv
BY InitIInv, IInvStep, PTL DEF OutboxSpec

(* Type correctness of the transaction table, the senders and the chain.    *)
THEOREM OutboxTypes == OutboxSpec => []TypeOK
<1>1. IInv => TypeOK
    BY DEF IInv
<1> QED BY <1>1, OutboxInvariant, PTL

(* The partial unique indexes hold for every obligation and every retry.    *)
THEOREM OutboxUnique == OutboxSpec => []UniqueActiveIntent
<1>1. IInv => UniqueActiveIntent
    BY DEF IInv
<1> QED BY <1>1, OutboxInvariant, PTL

(* The ledger never says CONFIRMED of a payment that did not happen exactly *)
(* as recorded, nor FAILED of one that did or still can.                    *)
THEOREM OutboxLedger == OutboxSpec => []LedgerMatchesChain
<1>1. IInv => LedgerMatchesChain
    BY DEF IInv
<1> QED BY <1>1, OutboxInvariant, PTL

(* The main result: whatever answers are lost and wherever the process      *)
(* stops, no obligation is paid twice on chain.                             *)
THEOREM OutboxPaysAtMostOnce == OutboxSpec => []PaidAtMostOnce
<1>1. IInv => PaidAtMostOnce
    BY DEF IInv, LiveRowsHoldTheirSlot, UniqueActiveIntent, PaidAtMostOnce
<1> QED BY <1>1, OutboxInvariant, PTL

(* A finalised row is never touched again. *)
THEOREM OutboxFinal == OutboxSpec => FinalRowsStay
<1> DEFINE Stays == \A t \in TransIds : trans[t].status \in {"confirmed", "failed"} =>
            /\ trans'[t].slot = trans[t].slot
            /\ trans'[t].amount = trans[t].amount
            /\ trans'[t].status = trans[t].status
<1>1. IInv /\ [OutboxNext]_outboxVars => [Stays]_outboxVars
    <2> SUFFICES ASSUME IInv, OutboxNext PROVE Stays
        OBVIOUS
    <2> SUFFICES ASSUME NEW t \in TransIds, trans[t].status \in {"confirmed", "failed"}
                 PROVE  /\ trans'[t].slot = trans[t].slot
                        /\ trans'[t].amount = trans[t].amount
                        /\ trans'[t].status = trans[t].status
        OBVIOUS
    <2> USE DEF IInv, TypeOK, Rows
    <2>1. ASSUME NEW s, NEW a, NEW h, Insert(s, a, h) PROVE trans'[t] = trans[t]
        <3>1. t # count + 1
            BY <2>1, NextRow DEF FreshRows, NoRow, Insert, TransIds
        <3> QED BY <2>1, <3>1 DEF Insert
    <2>2. ASSUME NEW u \in TransIds, OutboxSend(u)
          PROVE  /\ trans'[t].slot = trans[t].slot
                 /\ trans'[t].amount = trans[t].amount
                 /\ trans'[t].status = trans[t].status
        <3>1. CASE RecordHash(u)
            BY <3>1 DEF RecordHash
        <3> QED BY <2>2, <3>1 DEF OutboxSend, BroadcastOk, BroadcastLost, BroadcastFails, Broadcast
    <2>3. ASSUME NEW u \in TransIds, OutboxRefresh(u) PROVE trans'[t] = trans[t]
        <3>1. u # t
            BY <2>3 DEF OutboxRefresh, MarkConfirmed, MarkFailed, RejectDeposit, RejectSender,
                        ExpireDeposit, ProvenConfirmed, ProvenFailed, WrongDeposit, StaleDeposit
        <3>2. \E r : trans' = [trans EXCEPT ![u] = r]
            BY <2>3 DEF OutboxRefresh, MarkConfirmed, MarkFailed, RejectDeposit, RejectSender,
                        ExpireDeposit, SetStatus
        <3> QED BY <3>1, <3>2
    <2>4. CASE \E s \in Payouts, a \in Amounts : CreateIntent(s, a)
        BY <2>1, <2>4 DEF CreateIntent
    <2>5. CASE \E a \in Amounts, v \in Amounts \cup {0} : InsertDeposit(a, v)
        BY <2>1, <2>5 DEF InsertDeposit
    <2>6. CASE \E u \in TransIds : OutboxSend(u) \/ OutboxChain(u) \/ OutboxRefresh(u)
        BY <2>2, <2>3, <2>6 DEF OutboxChain, ChainExecutes, ChainRejects
    <2>8. CASE \E u \in TransIds : RecoverIntent(u)
        BY <2>8 DEF RecoverIntent
    <2>7. CASE Crash
        BY <2>7 DEF Crash
    <2> QED BY <2>4, <2>5, <2>6, <2>7, <2>8 DEF OutboxNext
<1> QED BY <1>1, OutboxInvariant, PTL DEF OutboxSpec, FinalRowsStay

-----------------------------------------------------------------------------
(* Only the chain pays: every other step leaves Paid as it is. *)
LEMMA PaidStep ==
    ASSUME IInv, [OutboxNext]_outboxVars
    PROVE  [Abstract!Next]_Paid
<1> USE DEF IInv, TypeOK, Rows
<1>1. ASSUME \A t \in TransIds : /\ chain'[t] = "executed" <=> chain[t] = "executed"
                                 /\ chain[t] = "executed" => trans'[t].slot = trans[t].slot
      PROVE  Paid' = Paid
    BY <1>1 DEF Paid
<1>2. ASSUME NEW s, NEW a, NEW h, Insert(s, a, h), NEW t \in TransIds, chain[t] = "executed"
      PROVE  trans'[t].slot = trans[t].slot
    <2>1. t # count + 1
        BY <1>2, NextRow DEF FreshRows, Insert, TransIds
    <2> QED BY <1>2, <2>1 DEF Insert
<1>3. ASSUME NEW s \in Payouts, NEW a \in Amounts, CreateIntent(s, a) PROVE Paid' = Paid
    BY <1>1, <1>2, <1>3 DEF CreateIntent
<1>4. ASSUME NEW a \in Amounts, NEW v \in Amounts \cup {0}, InsertDeposit(a, v)
      PROVE  Paid' = Paid
    <2>1. chain[count + 1] # "executed"
        BY <1>4, NextRow DEF FreshRows, InsertDeposit, Insert
    <2> QED BY <1>1, <1>2, <1>4, <2>1 DEF InsertDeposit
<1>5. ASSUME NEW t \in TransIds, OutboxSend(t) PROVE Paid' = Paid
    <2>1. CASE BroadcastOk(t) \/ BroadcastLost(t)
        BY <1>1, <2>1 DEF BroadcastOk, BroadcastLost, Broadcast, SendersAreAhead
    <2>2. CASE BroadcastFails(t)
        BY <1>1, <2>2 DEF BroadcastFails
    <2>3. CASE RecordHash(t)
        BY <1>1, <2>3 DEF RecordHash
    <2> QED BY <1>5, <2>1, <2>2, <2>3 DEF OutboxSend
<1>6. ASSUME NEW t \in TransIds, OutboxRefresh(t) PROVE Paid' = Paid
    <2>1. chain' = chain /\ \A u \in TransIds : trans'[u].slot = trans[u].slot
        <3>1. CASE MarkConfirmed(t) \/ RejectSender(t)
            BY <3>1 DEF MarkConfirmed, RejectSender
        <3>2. CASE MarkFailed(t) \/ RejectDeposit(t) \/ ExpireDeposit(t)
            BY <3>2 DEF MarkFailed, RejectDeposit, ExpireDeposit, SetStatus
        <3> QED BY <1>6, <3>1, <3>2 DEF OutboxRefresh
    <2> QED BY <1>1, <2>1
<1>7. ASSUME NEW t \in TransIds, ChainRejects(t) PROVE Paid' = Paid
    BY <1>1, <1>7 DEF ChainRejects
<1>8. ASSUME NEW t \in TransIds, ChainExecutes(t) PROVE [Abstract!Next]_Paid
    <2>1. /\ chain[t] = "mempool" /\ trans' = trans /\ chain'[t] = "executed"
          /\ \A u \in TransIds : u # t => chain'[u] = chain[u]
        BY <1>8 DEF ChainExecutes
    <2>2. CASE trans[t].slot \in Payouts
        <3>1. \A u \in TransIds : <<trans[t].slot, u>> \notin Paid
            BY <2>1, <2>2 DEF Paid, LiveRowsHoldTheirSlot, UniqueActiveIntent
        <3>2. Paid' = Paid \cup {<<trans[t].slot, t>>}
            BY <2>1, <2>2 DEF Paid
        <3> QED BY <2>2, <3>1, <3>2 DEF Abstract!Next, Abstract!Pay
    <2>3. CASE trans[t].slot \notin Payouts
        BY <2>1, <2>3 DEF Paid
    <2> QED BY <2>2, <2>3
<1>9. CASE Crash
    BY <1>1, <1>9 DEF Crash
<1>11. ASSUME NEW t \in TransIds, RecoverIntent(t) PROVE Paid' = Paid
    BY <1>1, <1>11 DEF RecoverIntent
<1>10. CASE UNCHANGED outboxVars
    BY <1>10 DEF outboxVars, Paid
<1> QED BY <1>3, <1>4, <1>5, <1>6, <1>7, <1>8, <1>9, <1>10, <1>11
       DEF OutboxNext, OutboxChain

(* The outbox implements PaidOnce: its initial states map to nothing paid,  *)
(* and every step pays one new obligation or none.                          *)
THEOREM OutboxRefinesPaidOnce == OutboxSpec => PaysOnce
<1>1. OutboxInit => Abstract!Init
    BY DEF OutboxInit, Abstract!Init, Paid
<1> QED BY <1>1, PaidStep, OutboxInvariant, PTL DEF OutboxSpec, PaysOnce, Abstract!Spec
=============================================================================
