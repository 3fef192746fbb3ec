----------------------------- MODULE Prizedraw -----------------------------
(***************************************************************************)
(* A Prizedraw: entries, the draw, and the payouts of its winners through  *)
(* the outbox.  A claim's status has two meanings: while the Spot is       *)
(* published SUCCESS is a valid entry and PENDING one that still waits;    *)
(* once it is completed SUCCESS is a losing entry or a paid winner and     *)
(* PENDING a winner whose payout is not confirmed.                         *)
(***************************************************************************)
EXTENDS TransOutbox, FiniteSets, FiniteSetsExt

CONSTANTS
    Workers,      \* settlement workers
    Pool,         \* total_value of the Spot
    PrizeCount,
    MaxEntries,   \* max_total_claims, 0 when unlimited
    DrawPage,     \* rows of one page of claims (MAX_LIMIT)
    Duration,     \* entries wait for a duration before they count
    Holds         \* throttle and security may hold a payout back

Entries == Payouts

ASSUME PrizeAssumption ==
    /\ Payouts \subseteq Nat /\ IsFiniteSet(Payouts)
    /\ Pool \in Nat /\ Amounts = 0 .. Pool
    /\ PrizeCount \in Nat /\ MaxEntries \in Nat /\ DrawPage \in Nat \ {0}
    /\ {Duration, Holds} \subseteq BOOLEAN

VARIABLES
    spot,     \* status of the Spot
    ended,    \* its period is over
    claim,    \* status of each entry
    drawn,    \* the winners the draw selected (history)
    worker    \* per worker, the jobs left and the row being sent

drawVars == <<spot, ended, claim, drawn, worker>>
prizeVars == <<outboxVars, drawVars>>

Free == [jobs |-> {}, row |-> 0]
Jobs == [claim : Entries, amount : Amounts]

PrizeTypeOK ==
    /\ TypeOK
    /\ spot \in {"published", "completed"} /\ ended \in BOOLEAN
    /\ claim \in [Entries -> {"none", "pending", "success", "failed"}]
    /\ drawn \subseteq Entries
    /\ worker \in [Workers -> [jobs : SUBSET Jobs, row : 0 .. MaxRows]]

PrizeInit ==
    /\ OutboxInit
    /\ spot = "published" /\ ended = FALSE
    /\ claim = [c \in Entries |-> "none"]
    /\ drawn = {}
    /\ worker = [w \in Workers |-> Free]

WithStatus(st) == {c \in Entries : claim[c] = st}

(* get_claims_by_status_for_spot: the oldest entries of one page            *)
PageOf(S) == {c \in S : Cardinality({d \in S : d < c}) < DrawPage}

-----------------------------------------------------------------------------
(* Entering *)

EntryCount == Cardinality(WithStatus("pending") \cup WithStatus("success"))

Full == MaxEntries > 0 /\ EntryCount >= MaxEntries

Enter(c) ==
    /\ spot = "published" /\ ~ended
    /\ claim[c] = "none" /\ ~Full
    /\ claim' = [claim EXCEPT ![c] = IF Duration THEN "pending" ELSE "success"]
    /\ UNCHANGED <<outboxVars, spot, ended, drawn, worker>>

(* refresh_claim_status_from_conditions: winners are not duration claims.   *)
ResolveEntry(c) ==
    /\ spot = "published"
    /\ claim[c] = "pending"
    /\ \E st \in {"success", "failed"} : claim' = [claim EXCEPT ![c] = st]
    /\ UNCHANGED <<outboxVars, spot, ended, drawn, worker>>

(* process_duration_claim_location_heartbeat does not ask whether the Spot  *)
(* is completed: it scores the location and promotes or fails the claim; a  *)
(* claim without duration is promoted at once.                              *)
HeartbeatAfterDraw(c) ==
    /\ spot = "completed"
    /\ claim[c] = "pending"
    /\ \/ claim' = [claim EXCEPT ![c] = "success"]
       \/ Duration /\ claim' = [claim EXCEPT ![c] = "failed"]
    /\ UNCHANGED <<outboxVars, spot, ended, drawn, worker>>

EntryPeriodEnds ==
    /\ ~ended
    /\ ended' = TRUE
    /\ UNCHANGED <<outboxVars, spot, claim, drawn, worker>>

-----------------------------------------------------------------------------
(* The draw *)

SettlementReady == spot = "published" /\ (Full \/ ended)

(* Mutant of Draw: a pass that finds the Spot completed draws again. *)
DrawAgain ==
    /\ Full \/ ended
    /\ \E W \in SUBSET WithStatus("success") :
          /\ Cardinality(W) = Min({Max({1, PrizeCount}), Cardinality(WithStatus("success"))})
          /\ claim' = [c \in Entries |-> IF c \in W THEN "pending" ELSE claim[c]]
          /\ drawn' = W
    /\ spot' = "completed"
    /\ UNCHANGED <<outboxVars, ended, worker>>

(* settle_prizedraw_spot_if_ready, one BEGIN IMMEDIATE transaction: entries *)
(* that still wait are failed, winners go back to PENDING, the Spot closes. *)
Draw ==
    /\ SettlementReady
    /\ LET eligible == PageOf(WithStatus("success"))
           n == Min({Max({1, PrizeCount}), Cardinality(eligible)})
       IN \E W \in SUBSET eligible :
             /\ Cardinality(W) = n
             /\ claim' = [c \in Entries |-> CASE c \in W -> "pending"
                                              [] claim[c] = "pending" -> "failed"
                                              [] OTHER -> claim[c]]
             /\ drawn' = W
    /\ spot' = "completed"
    /\ UNCHANGED <<outboxVars, ended, worker>>

-----------------------------------------------------------------------------
(* Payouts *)

PayoutRowsOf(c) == {t \in TransIds : trans[t].slot = c /\ trans[t].status # "absent"}

HasConfirmedPayout(c) == \E t \in PayoutRowsOf(c) : trans[t].status = "confirmed"

FailedPayouts(c) == {t \in PayoutRowsOf(c) : trans[t].status = "failed"}

(* get_prizedraw_winner_claim_ids: pending claims and claims with a row.    *)
WinnerIds == WithStatus("pending") \cup {c \in Entries : PayoutRowsOf(c) # {}}

(* _prize_amounts: the indivisible rest goes to the first winner.           *)
PrizeAmount(W, c) ==
    Pool \div Cardinality(W) + IF c = Min(W) THEN Pool % Cardinality(W) ELSE 0

(* Mutant of RetryAmount: the pool is split over those who still wait. *)
RetryAmountSplitsPending(c) == PrizeAmount(WithStatus("pending"), c)

(* A failed payout is retried with its own amount.                          *)
RetryAmount(c) ==
    IF FailedPayouts(c) # {} /\ trans[Max(FailedPayouts(c))].amount > 0
    THEN trans[Max(FailedPayouts(c))].amount
    ELSE PrizeAmount(WinnerIds, c)

(* Mutant of NeedsPayout: a winner with any row is skipped. *)
NeedsPayoutFirst(c) == PayoutRowsOf(c) = {} /\ RetryAmount(c) > 0

NeedsPayout(c) == ~HasNonFailed(c) /\ RetryAmount(c) > 0

(* First transaction of retry_pending_prizedraw_payouts_for_spot.           *)
CollectJobs(w) ==
    /\ worker[w] = Free
    /\ spot = "completed"
    /\ LET waiting == PageOf(WithStatus("pending"))
           paid == {c \in waiting : HasConfirmedPayout(c)}
       IN /\ waiting # {}
          /\ claim' = [c \in Entries |-> IF c \in paid THEN "success" ELSE claim[c]]
          /\ worker' = [worker EXCEPT ![w].jobs =
                           {[claim |-> c, amount |-> RetryAmount(c)] :
                                c \in {d \in waiting : NeedsPayout(d)}}]
    /\ UNCHANGED <<outboxVars, spot, ended, drawn>>

NextJob(w) == CHOOSE j \in worker[w].jobs : \A k \in worker[w].jobs : j.claim =< k.claim

(* submit_claim_reward_transaction, for one job after the other             *)
SubmitPrize(w) ==
    /\ worker[w].row = 0 /\ worker[w].jobs # {}
    /\ LET j == NextJob(w) IN
       IF HasNonFailed(j.claim)
       THEN /\ worker' = [worker EXCEPT ![w].jobs = @ \ {j}]
            /\ UNCHANGED outboxVars
       ELSE /\ CreateIntent(j.claim, j.amount)
            /\ worker' = [worker EXCEPT ![w] = [jobs |-> @.jobs \ {j}, row |-> count + 1]]
    /\ UNCHANGED <<spot, ended, claim, drawn>>

(* The throttle or the security hold answers without sending.               *)
HoldPrize(w) ==
    /\ Holds
    /\ worker[w].row = 0 /\ worker[w].jobs # {}
    /\ worker' = [worker EXCEPT ![w].jobs = @ \ {NextJob(w)}]
    /\ UNCHANGED <<outboxVars, spot, ended, claim, drawn>>

PrizeBroadcast(w) ==
    /\ worker[w].row # 0 /\ BroadcastOk(worker[w].row)
    /\ UNCHANGED drawVars

PrizeSent(w) ==
    /\ worker[w].row # 0 /\ RecordHash(worker[w].row)
    /\ worker' = [worker EXCEPT ![w].row = 0]
    /\ UNCHANGED <<spot, ended, claim, drawn>>

(* Mutant of PrizeSendFails: the intent of a failed send is dropped. *)
PrizeSendFailsIntent(w) ==
    /\ worker[w].row # 0
    /\ sender[worker[w].row] = "sending"
    /\ chain' = [chain EXCEPT ![worker[w].row] = "mempool"]
    /\ moved' = [moved EXCEPT ![worker[w].row] = trans[worker[w].row].amount]
    /\ trans' = [trans EXCEPT ![worker[w].row].status = "failed"]
    /\ sender' = [sender EXCEPT ![worker[w].row] = "idle"]
    /\ worker' = [worker EXCEPT ![w] = Free]
    /\ UNCHANGED <<count, spot, ended, claim, drawn>>

(* A send that raises ends the pass: the jobs left wait for the next one.   *)
PrizeSendFails(w) ==
    /\ worker[w].row # 0
    /\ BroadcastLost(worker[w].row) \/ BroadcastFails(worker[w].row)
    /\ worker' = [worker EXCEPT ![w] = Free]
    /\ UNCHANGED <<spot, ended, claim, drawn>>

(* mark_trans_as_confirmed settles the winner in the same transaction.      *)
PrizeConfirmed(t) ==
    /\ MarkConfirmed(t)
    /\ claim' = [claim EXCEPT ![trans[t].slot] = IF spot = "completed" THEN "success" ELSE @]
    /\ UNCHANGED <<spot, ended, drawn, worker>>

PrizeFailed(t) == MarkFailed(t) /\ UNCHANGED drawVars

PrizeChain(t) == OutboxChain(t) /\ UNCHANGED drawVars

PrizeCrash ==
    /\ "crash" \in Faults
    /\ \E w \in Workers : worker[w] # Free
    /\ sender' = [t \in TransIds |-> "idle"]
    /\ worker' = [w \in Workers |-> Free]
    /\ UNCHANGED <<trans, count, chain, moved, spot, ended, claim, drawn>>

-----------------------------------------------------------------------------
PrizeWorker(w) ==
    \/ CollectJobs(w) \/ SubmitPrize(w) \/ PrizeBroadcast(w) \/ PrizeSent(w)

PrizeNext ==
    \/ \E c \in Entries : Enter(c) \/ ResolveEntry(c)
    \/ EntryPeriodEnds
    \/ Draw
    \/ \E w \in Workers : PrizeWorker(w) \/ HoldPrize(w) \/ PrizeSendFails(w)
    \/ \E t \in TransIds : PrizeConfirmed(t) \/ PrizeFailed(t) \/ PrizeChain(t)
    \/ PrizeCrash

PrizeSpec == PrizeInit /\ [][PrizeNext]_prizeVars

(* The same with clients that go on reporting their location after the draw *)
PrizeHeartbeatSpec ==
    PrizeInit /\ [][PrizeNext \/ \E c \in Entries : HeartbeatAfterDraw(c)]_prizeVars

(* The settlement loop runs pass after pass, the refresher polls, the chain *)
(* includes what is broadcast; one rejected transaction at most.            *)
PrizeLiveNext ==
    /\ PrizeNext
    /\ \A t, u \in TransIds : chain'[t] = "rejected" /\ chain'[u] = "rejected" => t = u

PrizeFairness ==
    /\ WF_prizeVars(EntryPeriodEnds) /\ WF_prizeVars(Draw)
    /\ \A w \in Workers : WF_prizeVars(PrizeWorker(w))
    /\ \A t \in TransIds : /\ WF_prizeVars(PrizeConfirmed(t) \/ PrizeFailed(t))
                           /\ WF_prizeVars(ChainExecutes(t) /\ UNCHANGED drawVars)

PrizeLiveSpec == PrizeInit /\ [][PrizeLiveNext]_prizeVars /\ PrizeFairness

-----------------------------------------------------------------------------
(* The persisted winner set never changes after the draw: neither failed    *)
(* sends, retries, confirmations nor restarts add, drop or redraw a winner. *)
WinnersStay ==
    /\ spot = "completed" => WinnerIds = drawn
    /\ Cardinality(drawn) =< Max({1, PrizeCount})

Committed == {t \in TransIds : trans[t].status \in {"pending", "confirmed"}}

(* However payouts fail and are retried one by one, the prizes committed    *)
(* stay within the pool, and pay exactly the pool once every winner is paid.*)
PoolPaidExactly ==
    LET total == SumFunctionOnSet([t \in TransIds |-> trans[t].amount], Committed)
    IN /\ total =< Pool
       /\ (drawn # {} /\ \A c \in drawn : HasConfirmedPayout(c)) => total = Pool

(* No prize is sent twice: the draw implements the outbox.                  *)
PrizeImplementsOutbox == OutboxSpec

(* Every winner of a closed draw is eventually paid.                        *)
WinnersPaid == spot = "completed" ~> \A c \in drawn : HasConfirmedPayout(c)
=============================================================================
