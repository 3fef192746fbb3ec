---------------------------- MODULE TransOutbox ----------------------------
(***************************************************************************)
(* The transaction outbox of trans_updater.py and db_access.py: the TRANS  *)
(* table, the senders that broadcast its rows, the refresher that finalises*)
(* them, and the Nimiq chain they are broadcast to (external).             *)
(*                                                                         *)
(* A row is an intent committed as PENDING under a "local" hash BEFORE the *)
(* helper is asked to broadcast it.  Only when the helper answers does the *)
(* row get the real chain hash, and only a row with a chain hash is ever   *)
(* finalised, so an intent whose answer was lost stays PENDING and keeps   *)
(* the partial unique index of its obligation occupied.                    *)
(***************************************************************************)
EXTENDS Naturals

CONSTANTS
    MaxRows,      \* bound on the rows of the TRANS table
    Payouts,      \* outgoing obligations: one per claim, plus the Spot's own
    Recoverable,  \* the obligations funding_monitor.py recovers by matching
    Deposit,      \* the slot of FILL_SPOT rows, which have no unique index
    Amounts,      \* amounts in Luna
    Faults        \* which failures may happen, a subset of FaultKinds

FaultKinds == {"crash", "send_error", "lost_response", "exec_failure", "slow_deposit",
               "rpc_error"}

ASSUME OutboxAssumption ==
    /\ MaxRows \in Nat
    /\ Recoverable \subseteq Payouts
    /\ Deposit \notin Payouts
    /\ Amounts \subseteq Nat
    /\ Faults \subseteq FaultKinds

TransIds == 1 .. MaxRows
Slots == Payouts \cup {Deposit}

VARIABLES
    trans,    \* the TRANS table, rows 1 .. count in AUTOINCREMENT order
    count,    \* number of rows inserted so far
    sender,   \* per row, the coroutine inside _submit_recorded_chain_send
    chain,    \* per row, the on-chain fate of its transaction (external)
    moved     \* per row, what that transaction moves to the row's recipient

outboxVars == <<trans, count, sender, chain, moved>>

NoRow == [slot |-> Deposit, amount |-> 0, status |-> "absent", hash |-> "local"]

Rows == [slot : Slots, amount : Amounts \cup {0},
         status : {"absent", "pending", "confirmed", "failed"},
         hash : {"local", "chain"}]

TypeOK ==
    /\ count \in 0 .. MaxRows
    /\ trans \in [TransIds -> Rows]
    /\ sender \in [TransIds -> {"idle", "sending", "returned"}]
    /\ chain \in [TransIds -> {"absent", "mempool", "executed", "rejected"}]
    /\ moved \in [TransIds -> Amounts \cup {0}]

OutboxInit ==
    /\ trans = [t \in TransIds |-> NoRow]
    /\ count = 0
    /\ sender = [t \in TransIds |-> "idle"]
    /\ chain = [t \in TransIds |-> "absent"]
    /\ moved = [t \in TransIds |-> 0]

-----------------------------------------------------------------------------
(* The SQL predicates *)

HasNonFailed(s) ==
    \E t \in TransIds : trans[t].slot = s /\ trans[t].status \in {"pending", "confirmed"}

IsLocalIntent(t) == trans[t].status = "pending" /\ trans[t].hash = "local"

-----------------------------------------------------------------------------
(* Sending *)

Insert(s, a, h) ==
    /\ count < MaxRows
    /\ count' = count + 1
    /\ trans' = [trans EXCEPT ![count + 1] =
                    [slot |-> s, amount |-> a, status |-> "pending", hash |-> h]]

(* Mutant of CreateIntent: the unique index is missing. *)
CreateIntentNoIndex(s, a) ==
    /\ s \in Payouts
    /\ Insert(s, a, "local")
    /\ sender' = [sender EXCEPT ![count + 1] = "sending"]
    /\ UNCHANGED <<chain, moved>>

(* First transaction of _submit_recorded_chain_send: the partial unique     *)
(* index of the obligation admits one row that is not FAILED.               *)
CreateIntent(s, a) ==
    /\ s \in Payouts
    /\ ~HasNonFailed(s)
    /\ Insert(s, a, "local")
    /\ sender' = [sender EXCEPT ![count + 1] = "sending"]
    /\ UNCHANGED <<chain, moved>>

Broadcast(t) ==
    /\ chain' = [chain EXCEPT ![t] = "mempool"]
    /\ moved' = [moved EXCEPT ![t] = trans[t].amount]
    /\ UNCHANGED <<trans, count>>

(* The helper broadcast the transaction and its answer passed               *)
(* _validate_submitted_chain_send.                                          *)
BroadcastOk(t) ==
    /\ sender[t] = "sending"
    /\ sender' = [sender EXCEPT ![t] = "returned"]
    /\ Broadcast(t)

(* Mutant of BroadcastLost: the except branch fails the intent. *)
BroadcastLostFailsIntent(t) ==
    /\ "lost_response" \in Faults
    /\ sender[t] = "sending"
    /\ sender' = [sender EXCEPT ![t] = "idle"]
    /\ chain' = [chain EXCEPT ![t] = "mempool"]
    /\ moved' = [moved EXCEPT ![t] = trans[t].amount]
    /\ trans' = [trans EXCEPT ![t].status = "failed"]
    /\ UNCHANGED count

(* The broadcast happened, its answer did not arrive or was not usable: the *)
(* except branch leaves the intent pending.                                 *)
BroadcastLost(t) ==
    /\ "lost_response" \in Faults
    /\ sender[t] = "sending"
    /\ sender' = [sender EXCEPT ![t] = "idle"]
    /\ Broadcast(t)

(* The helper failed before anything reached the chain: same branch.        *)
BroadcastFails(t) ==
    /\ "send_error" \in Faults
    /\ sender[t] = "sending"
    /\ sender' = [sender EXCEPT ![t] = "idle"]
    /\ UNCHANGED <<trans, count, chain, moved>>

(* Second transaction of _submit_recorded_chain_send.                       *)
RecordHash(t) ==
    /\ sender[t] = "returned"
    /\ sender' = [sender EXCEPT ![t] = "idle"]
    /\ trans' = [trans EXCEPT ![t].hash = "chain"]
    /\ UNCHANGED <<count, chain, moved>>

(* A creator's wallet reports the hash of a deposit it has broadcast: a is  *)
(* the amount recorded as due, v what the transaction really pays the Spot, *)
(* 0 when it pays another address.                                          *)
InsertDeposit(a, v) ==
    /\ a > 0
    /\ Insert(Deposit, a, "chain")
    /\ chain' = [chain EXCEPT ![count + 1] = "mempool"]
    /\ moved' = [moved EXCEPT ![count + 1] = v]
    /\ UNCHANGED sender

-----------------------------------------------------------------------------
(* The chain (external): a transaction is included once, with a result.     *)

ChainExecutes(t) ==
    /\ chain[t] = "mempool"
    /\ chain' = [chain EXCEPT ![t] = "executed"]
    /\ UNCHANGED <<trans, count, sender, moved>>

ChainRejects(t) ==
    /\ "exec_failure" \in Faults
    /\ chain[t] = "mempool"
    /\ chain' = [chain EXCEPT ![t] = "rejected"]
    /\ UNCHANGED <<trans, count, sender, moved>>

-----------------------------------------------------------------------------
(* The refresher: check_pending_transactions *)

SetStatus(t, st) ==
    /\ trans' = [trans EXCEPT ![t].status = st]
    /\ UNCHANGED <<count, sender, chain, moved>>

(* _verify_chain_details_for_record: a deposit may pay more than was due,   *)
(* an outgoing payment must be exact.                                       *)
Verified(t) ==
    IF trans[t].slot = Deposit THEN moved[t] >= trans[t].amount
                               ELSE moved[t] = trans[t].amount

(* Mutant of ProvenConfirmed: finalised rows are polled again. *)
ProvenConfirmedAnyStatus(t) ==
    /\ trans[t].status # "absent"
    /\ trans[t].hash = "chain"
    /\ chain[t] = "executed"

(* check_pending_transaction answers "confirmed" for a chain hash whose     *)
(* transaction was included and executed; a local intent is never checked.  *)
ProvenConfirmed(t) ==
    /\ trans[t].status = "pending"
    /\ trans[t].hash = "chain"
    /\ chain[t] = "executed"

(* Mutant of ProvenFailed: a missing transaction counts as failed. *)
ProvenFailedWhenMissing(t) ==
    /\ trans[t].status = "pending"
    /\ trans[t].hash = "chain"
    /\ chain[t] # "executed"

(* It answers "failed" for an included transaction whose execution failed.  *)
ProvenFailed(t) ==
    /\ trans[t].status = "pending"
    /\ trans[t].hash = "chain"
    /\ chain[t] = "rejected"

(* Mutant of MarkConfirmed: the chain amount is added to the recorded one. *)
MarkConfirmedAdds(t) ==
    /\ ProvenConfirmed(t)
    /\ Verified(t)
    /\ trans' = [trans EXCEPT ![t].status = "confirmed", ![t].amount = @ + moved[t]]
    /\ UNCHANGED <<count, sender, chain, moved>>

(* mark_trans_as_confirmed also stores the verified chain amount.           *)
MarkConfirmed(t) ==
    /\ ProvenConfirmed(t)
    /\ Verified(t)
    /\ trans' = [trans EXCEPT ![t].status = "confirmed", ![t].amount = moved[t]]
    /\ UNCHANGED <<count, sender, chain, moved>>

MarkFailed(t) == ProvenFailed(t) /\ SetStatus(t, "failed")

(* A deposit found in the Spot's own history that pays too little does not  *)
(* fund the Spot.  One that paid another address is not in that history,    *)
(* which proves nothing to check_pending_transactions, and a server payment *)
(* that cannot be verified never does: both are only reported as unknown.   *)
WrongDeposit(t) ==
    /\ ProvenConfirmed(t)
    /\ trans[t].slot = Deposit
    /\ 0 < moved[t] /\ moved[t] < trans[t].amount

RejectDeposit(t) == WrongDeposit(t) /\ SetStatus(t, "failed")

(* mark_trans_as_confirmed fails a top-up that another address sent than    *)
(* the first confirmed deposit, and keeps its chain amount.  Nothing in the *)
(* row tells which address that will be: Nimiq Pay may send through an HTLC.*)
RejectSender(t) ==
    /\ ProvenConfirmed(t)
    /\ trans[t].slot = Deposit
    /\ Verified(t)
    /\ \E u \in TransIds : trans[u].slot = Deposit /\ trans[u].status = "confirmed"
    /\ trans' = [trans EXCEPT ![t].status = "failed", ![t].amount = moved[t]]
    /\ UNCHANGED <<count, sender, chain, moved>>

(* Mutant of StaleDeposit: server transactions expire too. *)
StaleAnyRow(t) ==
    /\ "slow_deposit" \in Faults
    /\ trans[t].status = "pending"
    /\ trans[t].hash = "chain"
    /\ chain[t] = "mempool"

(* A deposit that neither the hash nor the recipient's history shows        *)
(* 30 minutes after it was reported is failed.  Only deposits: a missing    *)
(* server transaction stays pending whatever its age.                       *)
StaleDeposit(t) ==
    /\ "slow_deposit" \in Faults
    /\ trans[t].status = "pending"
    /\ trans[t].slot = Deposit
    /\ trans[t].hash = "chain"
    /\ chain[t] = "mempool"

ExpireDeposit(t) == StaleDeposit(t) /\ SetStatus(t, "failed")

(* Mutant of RecoverableIntent: only a row that has its hash is looked at.  *)
RecoverableIntentHashed(t) ==
    /\ trans[t].status = "pending" /\ trans[t].hash = "chain"
    /\ trans[t].slot \in Recoverable
    /\ chain[t] = "executed"
    /\ Verified(t)

(* recover_local_creation_fee_intents attaches the hash of the one executed *)
(* transaction that matches the intent and that no other row holds; it then *)
(* calls mark_trans_as_confirmed, as the next poll would after a crash.     *)
RecoverableIntent(t) ==
    /\ IsLocalIntent(t)
    /\ trans[t].slot \in Recoverable
    /\ chain[t] = "executed"
    /\ Verified(t)

RecoverIntent(t) ==
    /\ RecoverableIntent(t)
    /\ trans' = [trans EXCEPT ![t].hash = "chain"]
    /\ UNCHANGED <<count, sender, chain, moved>>

(* The process stops: every coroutine is lost, the committed rows are not.  *)
Crash ==
    /\ "crash" \in Faults
    /\ \E t \in TransIds : sender[t] # "idle"
    /\ sender' = [t \in TransIds |-> "idle"]
    /\ UNCHANGED <<trans, count, chain, moved>>

-----------------------------------------------------------------------------
OutboxSend(t) == BroadcastOk(t) \/ BroadcastLost(t) \/ BroadcastFails(t) \/ RecordHash(t)

OutboxChain(t) == ChainExecutes(t) \/ ChainRejects(t)

OutboxRefresh(t) ==
    \/ MarkConfirmed(t) \/ MarkFailed(t)
    \/ RejectDeposit(t) \/ RejectSender(t) \/ ExpireDeposit(t)

OutboxNext ==
    \/ \E s \in Payouts, a \in Amounts : CreateIntent(s, a)
    \/ \E a \in Amounts, v \in Amounts \cup {0} : InsertDeposit(a, v)
    \/ \E t \in TransIds :
          OutboxSend(t) \/ OutboxChain(t) \/ OutboxRefresh(t) \/ RecoverIntent(t)
    \/ Crash

(***************************************************************************)
(* Fairness: a coroutine that is sending goes on; the refresher polls every*)
(* pending row (trans_updater's refresh loop); the chain includes what is  *)
(* in its mempool.  Failures are never owed.                               *)
(***************************************************************************)
OutboxFairness ==
    \A t \in TransIds :
        /\ WF_outboxVars(BroadcastOk(t) \/ RecordHash(t))
        /\ WF_outboxVars(ChainExecutes(t))
        /\ WF_outboxVars(MarkConfirmed(t) \/ MarkFailed(t) \/ RejectDeposit(t) \/ RejectSender(t))
        /\ WF_outboxVars(RecoverIntent(t))

OutboxSpec == OutboxInit /\ [][OutboxNext]_outboxVars

OutboxFairSpec == OutboxSpec /\ OutboxFairness

-----------------------------------------------------------------------------
(* Properties *)

(* Among the rows of one outgoing obligation at most one is not FAILED: the *)
(* four partial unique indexes of database.py as seen through every retry.  *)
UniqueActiveIntent ==
    \A t, u \in TransIds :
        /\ trans[t].slot = trans[u].slot
        /\ trans[t].slot \in Payouts
        /\ trans[t].status \in {"pending", "confirmed"}
        /\ trans[u].status \in {"pending", "confirmed"}
        => t = u

(* No obligation is ever paid twice on chain, whatever answers are lost and *)
(* wherever the process stops: the purpose of _submit_recorded_chain_send.  *)
PaidAtMostOnce ==
    \A t, u \in TransIds :
        /\ trans[t].slot = trans[u].slot
        /\ trans[t].slot \in Payouts
        /\ chain[t] = "executed"
        /\ chain[u] = "executed"
        => t = u

(* What the ledger says of an outgoing row is what the chain did: CONFIRMED *)
(* rows moved exactly their amount, FAILED rows moved and will move nothing.*)
LedgerMatchesChain ==
    \A t \in TransIds : trans[t].slot \in Payouts =>
        /\ trans[t].status = "confirmed" => chain[t] = "executed" /\ moved[t] = trans[t].amount
        /\ trans[t].status = "failed" => chain[t] = "rejected"

(* A row that check_pending_transactions finalised is never touched again:  *)
(* neither a late hash, nor a second poll, nor a retry changes it.          *)
FinalRowsStay ==
    [][\A t \in TransIds : trans[t].status \in {"confirmed", "failed"} =>
            /\ trans'[t].slot = trans[t].slot
            /\ trans'[t].amount = trans[t].amount
            /\ trans'[t].status = trans[t].status]_outboxVars

(* An executed deposit that paid another address: nothing decides its row.  *)
Misdirected(t) ==
    /\ ProvenConfirmed(t)
    /\ trans[t].slot = Deposit
    /\ moved[t] = 0

(* Every intent is eventually finalised, unless it is a deposit to another  *)
(* address, or its answer was lost and it is one of the kinds nothing       *)
(* recovers: then it waits for an administrator.                            *)
IntentsResolve ==
    \A t \in TransIds :
        trans[t].status = "pending" ~>
            \/ trans[t].status \in {"confirmed", "failed"}
            \/ Misdirected(t)
            \/ /\ IsLocalIntent(t)
               /\ sender[t] = "idle"
               /\ trans[t].slot \in Recoverable => chain[t] # "executed"

(* The payments the chain has made, each with the obligation it settles.    *)
Paid == {<<trans[t].slot, t>> : t \in {u \in TransIds : trans[u].slot \in Payouts
                                                       /\ chain[u] = "executed"}}

Abstract == INSTANCE PaidOnce WITH Obligations <- Payouts, Transactions <- TransIds, paid <- Paid

(* The outbox implements PaidOnce: whatever is lost, retried or restarted,  *)
(* each step of it executes the first payment of an obligation or none.     *)
PaysOnce == Abstract!Spec
=============================================================================
