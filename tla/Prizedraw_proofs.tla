-------------------------- MODULE Prizedraw_proofs --------------------------
(***************************************************************************)
(* Proofs about the two ways a payout is decided: the prizes of a draw,    *)
(* for any entries, pool, number of prizes, page size and number of        *)
(* workers, and the claims behind the payout throttle.                     *)
(***************************************************************************)
EXTENDS Prizedraw, PayoutThrottle, TransOutbox_proofs, SumTheorems

-----------------------------------------------------------------------------
(* How a pool is split *)

(* A finite set of numbers has a least and a greatest one.                  *)
LEMMA Extremes ==
    ASSUME NEW S, IsFiniteSet(S), S \subseteq Nat, S # {}
    PROVE  /\ Min(S) \in S /\ \A y \in S : Min(S) =< y
           /\ Max(S) \in S /\ \A y \in S : Max(S) >= y
<1> DEFINE Q == {T \in SUBSET S : T = {} \/ /\ \E x \in T : \A y \in T : x =< y
                                            /\ \E x \in T : \A y \in T : x >= y}
<1>1. ASSUME NEW T \in SUBSET S, \A x \in T : T \ {x} \in Q PROVE T \in Q
    <2>1. CASE T = {}
        BY <2>1
    <2>2. CASE T # {}
        <3>1. PICK x \in T : TRUE
            BY <2>2
        <3>2. T \ {x} \in Q
            BY <1>1
        <3>3. CASE T \ {x} = {}
            BY <3>1, <3>3
        <3>4. CASE T \ {x} # {}
            <4>1. PICK a \in T \ {x} : \A y \in T \ {x} : a =< y
                BY <3>2, <3>4
            <4>2. PICK b \in T \ {x} : \A y \in T \ {x} : b >= y
                BY <3>2, <3>4
            <4>3. x \in Nat /\ a \in Nat /\ b \in Nat
                OBVIOUS
            <4>4. \E m \in T : \A y \in T : m =< y
                <5>1. CASE x =< a
                    BY <4>1, <4>3, <5>1
                <5>2. CASE a =< x
                    BY <4>1, <4>3, <5>2
                <5> QED BY <4>3, <5>1, <5>2
            <4>5. \E m \in T : \A y \in T : m >= y
                <5>1. CASE x >= b
                    BY <4>2, <4>3, <5>1
                <5>2. CASE b >= x
                    BY <4>2, <4>3, <5>2
                <5> QED BY <4>3, <5>1, <5>2
            <4> QED BY <4>4, <4>5
        <3> QED BY <3>3, <3>4
    <2> QED BY <2>1, <2>2
<1>2. S \in Q
    <2> HIDE DEF Q
    <2> QED BY <1>1, FiniteSetInduction
<1> QED BY <1>2 DEF Min, Max

LEMMA Division ==
    ASSUME NEW p \in Nat, NEW n \in Nat \ {0}
    PROVE  p \div n \in Nat /\ p % n \in Nat /\ p = n * (p \div n) + (p % n)
OBVIOUS

Shares(W) == [c \in W |-> PrizeAmount(W, c)]

EntryIsFinite == \A W \in SUBSET Entries : IsFiniteSet(W) /\ W \subseteq Nat

LEMMA EntriesFinite == EntryIsFinite
BY PrizeAssumption, FS_Subset DEF Entries, EntryIsFinite

(* The shares of the winners make up the pool, whatever their number.       *)
LEMMA SharesMakeThePool ==
    ASSUME NEW W \in SUBSET Entries, W # {}
    PROVE  /\ Sum(Shares(W), W) = Pool
           /\ \A c \in W : PrizeAmount(W, c) \in 0 .. Pool /\ Shares(W)[c] = PrizeAmount(W, c)
<1> DEFINE n == Cardinality(W)
           q == Pool \div n
           r == Pool % n
           f == [c \in W |-> q]
           g == [c \in W |-> IF c = Min(W) THEN r ELSE 0]
<1>0. IsFiniteSet(W) /\ W \subseteq Nat
    BY EntriesFinite DEF EntryIsFinite
<1>1. n \in Nat \ {0}
    BY <1>0, FS_CardinalityType, FS_EmptySet
<1>2. q \in Nat /\ r \in Nat /\ Pool = n * q + r
    <2> HIDE DEF n
    <2> QED BY <1>1, Division, PrizeAssumption
<1>3. Min(W) \in W
    BY <1>0, Extremes
<1> HIDE DEF q, r
<1>4. \A c \in W : f[c] = q /\ g[c] = (IF c = Min(W) THEN r ELSE 0) /\ f[c] \in Nat /\ g[c] \in Nat
    BY <1>2
<1>5. \A c \in W : Shares(W)[c] = PrizeAmount(W, c) /\ PrizeAmount(W, c) = f[c] + g[c]
    BY DEF Shares, PrizeAmount, q, r
<1> HIDE DEF f, g
<1>6. Sum(f, W) = n * q
    BY <1>0, <1>2, <1>4, SumConstant
<1>7. Sum(g, W) = r
    <2>1. Sum(g, W) = g[Min(W)] + Sum(g, W \ {Min(W)})
        BY <1>0, <1>3, <1>4, SumRemove, ZenonT(40)
    <2>2. IsFiniteSet(W \ {Min(W)}) /\ \A c \in W \ {Min(W)} : g[c] = 0
        BY <1>0, <1>4, FS_RemoveElement
    <2>3. Sum(g, W \ {Min(W)}) = Cardinality(W \ {Min(W)}) * 0
        BY <2>2, SumConstant
    <2>4. Cardinality(W \ {Min(W)}) * 0 = 0
        BY <2>2, FS_CardinalityType
    <2> QED BY <1>2, <1>3, <1>4, <2>1, <2>3, <2>4
<1>8. Sum(Shares(W), W) = Sum(f, W) + Sum(g, W)
    <2>1. PICK a, b, h : a = f /\ b = g /\ h = Shares(W)
        OBVIOUS
    <2>2. \A c \in W : a[c] \in Nat /\ b[c] \in Nat /\ h[c] = a[c] + b[c]
        BY <1>4, <1>5, <2>1
    <2>4. IsFiniteSet(W)
        BY <1>0
    <2>3. Sum(h, W) = Sum(a, W) + Sum(b, W)
        BY <2>2, <2>4, SumPlus
    <2> QED BY <2>1, <2>3
<1>9. Sum(Shares(W), W) = Pool
    BY <1>2, <1>6, <1>7, <1>8
<1>10. ASSUME NEW c \in W PROVE PrizeAmount(W, c) \in 0 .. Pool
    <2>1. \A d \in W : Shares(W)[d] \in Nat
        BY <1>4, <1>5
    <2>2. Sum(Shares(W), W) = Shares(W)[c] + Sum(Shares(W), W \ {c})
        BY <1>0, <2>1, SumRemove, ZenonT(40)
    <2>3. Sum(Shares(W), W \ {c}) \in Nat
        <3>1. IsFiniteSet(W \ {c})
            BY <1>0, FS_RemoveElement
        <3> QED BY <2>1, <3>1, SumType
    <2>4. Shares(W)[c] \in 0 .. Pool
        BY <1>9, <2>1, <2>2, <2>3, PrizeAssumption
    <2> QED BY <1>5, <2>4
<1> QED BY <1>5, <1>9, <1>10

-----------------------------------------------------------------------------
(* The inductive invariant *)

(* Until the draw nobody has won and nothing was sent.                      *)
BeforeTheDraw ==
    spot = "published" => count = 0 /\ drawn = {} /\ \A w \in Workers : worker[w] = Free

(* Every row, and everything a worker is about to send, is the share of a   *)
(* winner: not more, not less, whatever failed and whoever computed it.     *)
SharesOnly ==
    /\ \A t \in TransIds : trans[t].status # "absent" =>
          trans[t].slot \in drawn /\ trans[t].amount = PrizeAmount(drawn, trans[t].slot)
    /\ \A w \in Workers : \A j \in worker[w].jobs :
          j.claim \in drawn /\ j.amount = PrizeAmount(drawn, j.claim)

(* The winners are the claims that wait or have a row.                      *)
WinnersKnown ==
    /\ spot = "completed" => \A c \in WithStatus("pending") : c \in drawn
    /\ \A c \in drawn : claim[c] = "pending" \/ PayoutRowsOf(c) # {}

PrizeInv ==
    /\ IInv /\ PrizeTypeOK
    /\ BeforeTheDraw /\ SharesOnly /\ WinnersKnown
    /\ Cardinality(drawn) =< Max({1, PrizeCount})

(* The next job of a worker is one of its jobs.                             *)
LEMMA NextJobIsAJob ==
    ASSUME PrizeTypeOK, NEW w \in Workers, worker[w].jobs # {}
    PROVE  NextJob(w) \in worker[w].jobs
<1> DEFINE J == worker[w].jobs
           C == {j.claim : j \in J}
<1>1. J \in SUBSET Jobs
    BY DEF PrizeTypeOK
<1>2. C \in SUBSET Entries /\ C # {}
    BY <1>1 DEF Jobs
<1>3. IsFiniteSet(C) /\ C \subseteq Nat
    <2> HIDE DEF C
    <2> QED BY <1>2, EntriesFinite DEF EntryIsFinite
<1>4. Min(C) \in C /\ \A y \in C : Min(C) =< y
    <2> HIDE DEF C
    <2> QED BY <1>2, <1>3, Extremes
<1>5. PICK j \in J : j.claim = Min(C)
    BY <1>4
<1>6. \A k \in J : j.claim =< k.claim
    BY <1>4, <1>5
<1> QED BY <1>5, <1>6 DEF NextJob

LEMMA JobsAreTyped ==
    ASSUME PrizeTypeOK, NEW w \in Workers
    PROVE  /\ worker[w] \in [jobs : SUBSET Jobs, row : 0 .. MaxRows]
           /\ \A j \in worker[w].jobs : j.claim \in Payouts /\ j.amount \in Amounts
           /\ worker[w].row # 0 => worker[w].row \in TransIds
<1>1. worker[w] \in [jobs : SUBSET Jobs, row : 0 .. MaxRows]
    BY DEF PrizeTypeOK
<1>2. \A j \in worker[w].jobs : j \in Jobs
    BY <1>1
<1> QED BY <1>1, <1>2, OutboxAssumption DEF Jobs, Entries, TransIds

(* Every step of a Prizedraw is a step of the outbox or leaves it alone.    *)
LEMMA PrizeOutboxStep == PrizeTypeOK /\ [PrizeNext]_prizeVars => [OutboxNext]_outboxVars
<1> SUFFICES ASSUME PrizeTypeOK, [PrizeNext]_prizeVars PROVE [OutboxNext]_outboxVars
    OBVIOUS
<1>1. ASSUME NEW c \in Entries, Enter(c) \/ ResolveEntry(c) PROVE UNCHANGED outboxVars
    BY <1>1 DEF Enter, ResolveEntry
<1>2. CASE EntryPeriodEnds \/ Draw
    BY <1>2 DEF EntryPeriodEnds, Draw
<1>3. ASSUME NEW w \in Workers, PrizeWorker(w) \/ HoldPrize(w) \/ PrizeSendFails(w)
      PROVE  [OutboxNext]_outboxVars
    <2>1. CASE CollectJobs(w) \/ HoldPrize(w)
        BY <2>1 DEF CollectJobs, HoldPrize
    <2>2. CASE SubmitPrize(w)
        <3>1. NextJob(w) \in worker[w].jobs
            BY <2>2, NextJobIsAJob DEF SubmitPrize
        <3>2. NextJob(w).claim \in Payouts /\ NextJob(w).amount \in Amounts
            BY <3>1, JobsAreTyped
        <3>3. CreateIntent(NextJob(w).claim, NextJob(w).amount) \/ UNCHANGED outboxVars
            BY <2>2, Zenon DEF SubmitPrize
        <3> QED BY <3>2, <3>3, Zenon DEF OutboxNext
    <2>3. CASE PrizeBroadcast(w) \/ PrizeSent(w) \/ PrizeSendFails(w)
        <3>1. worker[w].row \in TransIds
            BY <2>3, JobsAreTyped DEF PrizeBroadcast, PrizeSent, PrizeSendFails
        <3>2. OutboxSend(worker[w].row)
            BY <2>3, Zenon DEF PrizeBroadcast, PrizeSent, PrizeSendFails, OutboxSend
        <3> QED BY <3>1, <3>2, Zenon DEF OutboxNext
    <2> QED BY <1>3, <2>1, <2>2, <2>3, Zenon DEF PrizeWorker
<1>4. ASSUME NEW t \in TransIds, PrizeConfirmed(t) \/ PrizeFailed(t) \/ PrizeChain(t)
      PROVE  OutboxNext
    BY <1>4, Zenon DEF PrizeConfirmed, PrizeFailed, PrizeChain, OutboxNext, OutboxRefresh
<1>5. CASE PrizeCrash
    <2>1. CASE \E t \in TransIds : sender[t] # "idle"
        BY <1>5, <2>1 DEF PrizeCrash, Crash, OutboxNext
    <2>2. CASE \A t \in TransIds : sender[t] = "idle"
        <3>1. sender' = sender
            BY <1>5, <2>2 DEF PrizeCrash, PrizeTypeOK, TypeOK
        <3> QED BY <1>5, <3>1 DEF PrizeCrash, outboxVars
    <2> QED BY <2>1, <2>2
<1>6. CASE UNCHANGED prizeVars
    BY <1>6 DEF prizeVars
<1> QED BY <1>1, <1>2, <1>3, <1>4, <1>5, <1>6, Zenon DEF PrizeNext

-----------------------------------------------------------------------------
(* What the steps do to the rows *)

(* Rows neither come nor go, and keep the obligation and the amount.        *)
RowsGoOn ==
    \A t \in TransIds :
        /\ trans'[t].status # "absent" <=> trans[t].status # "absent"
        /\ trans[t].status # "absent" =>
              trans'[t].slot = trans[t].slot /\ trans'[t].amount = trans[t].amount

LEMMA SameRows ==
    ASSUME trans' = trans
    PROVE  RowsGoOn
BY DEF RowsGoOn

LEMMA HashRows ==
    ASSUME IInv, NEW t \in TransIds, RecordHash(t)
    PROVE  RowsGoOn /\ count' = count
<1>1. trans \in [TransIds -> Rows]
    BY DEF IInv, TypeOK
<1>2. PICK x : x = [trans[t] EXCEPT !.hash = "chain"]
    OBVIOUS
<1>3. x.status = trans[t].status /\ x.slot = trans[t].slot /\ x.amount = trans[t].amount
    BY <1>1, <1>2 DEF Rows
<1>4. trans' = [trans EXCEPT ![t] = x] /\ count' = count
    BY <1>2 DEF RecordHash
<1>5. /\ trans'[t] = x
      /\ \A u \in TransIds : u # t => trans'[u] = trans[u]
    BY <1>1, <1>4
<1> QED BY <1>3, <1>4, <1>5 DEF RowsGoOn

LEMMA FinalRows ==
    ASSUME IInv, NEW t \in TransIds, trans[t].slot \in Payouts, MarkConfirmed(t) \/ MarkFailed(t)
    PROVE  RowsGoOn /\ count' = count /\ trans[t].status = "pending"
<1>1. trans \in [TransIds -> Rows]
    BY DEF IInv, TypeOK
<1>2. trans[t].status = "pending" /\ count' = count
    BY DEF MarkConfirmed, MarkFailed, ProvenConfirmed, ProvenFailed, SetStatus
<1>3. CASE MarkConfirmed(t)
    <2>1. moved[t] = trans[t].amount
        BY <1>3, OutboxAssumption DEF MarkConfirmed, Verified
    <2>2. PICK y : y = [trans[t] EXCEPT !.status = "confirmed"]
        OBVIOUS
    <2>3. PICK x : x = [y EXCEPT !.amount = moved[t]]
        OBVIOUS
    <2>4. x.status = "confirmed" /\ x.slot = trans[t].slot /\ x.amount = trans[t].amount
        <3>1. trans[t] \in Rows
            BY <1>1
        <3>2. y.status = "confirmed" /\ y.slot = trans[t].slot /\ y \in Rows
            BY <2>2, <3>1 DEF Rows
        <3> QED BY <2>1, <2>3, <3>2 DEF Rows
    <2>5. trans' = [trans EXCEPT ![t] = x]
        BY <1>3, <2>2, <2>3, Zenon DEF MarkConfirmed
    <2>6. trans'[t] = x /\ \A u \in TransIds : u # t => trans'[u] = trans[u]
        BY <1>1, <2>5
    <2> QED BY <1>2, <2>4, <2>6 DEF RowsGoOn
<1>4. CASE MarkFailed(t)
    <2>1. PICK x : x = [trans[t] EXCEPT !.status = "failed"]
        OBVIOUS
    <2>2. x.status = "failed" /\ x.slot = trans[t].slot /\ x.amount = trans[t].amount
        BY <1>1, <2>1 DEF Rows
    <2>3. trans' = [trans EXCEPT ![t] = x]
        BY <1>4, <2>1 DEF MarkFailed, SetStatus
    <2>4. trans'[t] = x /\ \A u \in TransIds : u # t => trans'[u] = trans[u]
        BY <1>1, <2>3
    <2> QED BY <1>2, <2>2, <2>4 DEF RowsGoOn
<1> QED BY <1>3, <1>4

LEMMA NewRow ==
    ASSUME IInv, NEW c, NEW a, CreateIntent(c, a)
    PROVE  /\ count + 1 \in TransIds /\ count' = count + 1
           /\ trans[count + 1].status = "absent"
           /\ trans'[count + 1].status = "pending"
           /\ trans'[count + 1].slot = c /\ trans'[count + 1].amount = a
           /\ \A t \in TransIds : t # count + 1 => trans'[t] = trans[t]
<1>1. count + 1 \in TransIds /\ count \in Nat /\ count' = count + 1
    BY NextRow DEF IInv, CreateIntent, Insert
<1>2. trans[count + 1] = NoRow
    BY <1>1 DEF IInv, FreshRows
<1>3. PICK x : x = [slot |-> c, amount |-> a, status |-> "pending", hash |-> "local"]
    OBVIOUS
<1>4. x.slot = c /\ x.amount = a /\ x.status = "pending"
    BY <1>3
<1>5. trans' = [trans EXCEPT ![count + 1] = x] /\ trans \in [TransIds -> Rows]
    BY <1>3 DEF IInv, TypeOK, CreateIntent, Insert
<1>6. trans'[count + 1] = x /\ \A t \in TransIds : t # count + 1 => trans'[t] = trans[t]
    BY <1>1, <1>5
<1> QED BY <1>1, <1>2, <1>4, <1>6 DEF NoRow

LEMMA SharesGoOn ==
    ASSUME SharesOnly, RowsGoOn, drawn' = drawn,
           \A w \in Workers : worker'[w].jobs \subseteq worker[w].jobs
    PROVE  SharesOnly'
<1>1. \A t \in TransIds : trans'[t].status # "absent" =>
          trans'[t].slot \in drawn /\ trans'[t].amount = PrizeAmount(drawn, trans'[t].slot)
    BY DEF SharesOnly, RowsGoOn
<1>2. \A w \in Workers : \A j \in worker'[w].jobs :
          j.claim \in drawn /\ j.amount = PrizeAmount(drawn, j.claim)
    BY DEF SharesOnly
<1>3. \A W, c : PrizeAmount(W, c)' = PrizeAmount(W, c)
    BY DEF PrizeAmount
<1> QED BY <1>1, <1>2, <1>3 DEF SharesOnly

(* A winner stays known when its claim only leaves "pending" with a row.    *)
LEMMA WinnersGoOn ==
    ASSUME WinnersKnown, \A c \in Entries : PayoutRowsOf(c) \subseteq PayoutRowsOf(c)',
           spot' = spot, drawn' = drawn, drawn \subseteq Entries,
           \A c \in Entries : \/ claim'[c] = claim[c]
                              \/ claim'[c] # "pending" /\ PayoutRowsOf(c) # {}
    PROVE  WinnersKnown'
BY DEF WinnersKnown, WithStatus

LEMMA RowsOfGoOn ==
    ASSUME RowsGoOn
    PROVE  \A c \in Entries : PayoutRowsOf(c) \subseteq PayoutRowsOf(c)'
BY DEF RowsGoOn, PayoutRowsOf

(* A failed prize is retried with its own amount, any other one is computed *)
(* again from all winners: the share in either case.                        *)
LEMMA RetryIsTheShare ==
    ASSUME PrizeInv, spot = "completed", NEW c \in drawn
    PROVE  RetryAmount(c) = PrizeAmount(drawn, c)
<1>1. WinnerIds = drawn
    BY DEF PrizeInv, WinnersKnown, WinnerIds, WithStatus, SharesOnly, PayoutRowsOf, PrizeTypeOK
<1>2. CASE FailedPayouts(c) # {}
    <2>1. FailedPayouts(c) \in SUBSET TransIds
        BY DEF FailedPayouts, PayoutRowsOf
    <2>2. IsFiniteSet(TransIds) /\ TransIds \subseteq Nat
        BY OutboxAssumption, FS_Interval DEF TransIds
    <2>3. IsFiniteSet(FailedPayouts(c)) /\ FailedPayouts(c) \subseteq Nat
        BY <2>1, <2>2, FS_Subset
    <2>4. Max(FailedPayouts(c)) \in FailedPayouts(c)
        BY <1>2, <2>3, Extremes
    <2>5. trans[Max(FailedPayouts(c))].amount = PrizeAmount(drawn, c)
        BY <2>4 DEF FailedPayouts, PayoutRowsOf, PrizeInv, SharesOnly
    <2> QED BY <1>1, <2>5 DEF RetryAmount
<1>3. CASE FailedPayouts(c) = {}
    BY <1>1, <1>3 DEF RetryAmount
<1> QED BY <1>2, <1>3

-----------------------------------------------------------------------------
(* The invariant is inductive *)

(* What is left to show of a step that leaves the winners as they are.      *)
Kept == PrizeTypeOK /\ BeforeTheDraw /\ SharesOnly /\ WinnersKnown

LEMMA EntriesStep ==
    ASSUME PrizeInv, IInv', NEW c \in Entries, Enter(c) \/ ResolveEntry(c)
    PROVE  Kept'
<1>1. /\ UNCHANGED <<outboxVars, spot, ended, drawn, worker>> /\ spot = "published"
      /\ \E st \in {"pending", "success", "failed"} : claim' = [claim EXCEPT ![c] = st]
    BY DEF Enter, ResolveEntry
<1>2. trans' = trans /\ count' = count /\ drawn = {}
    BY <1>1 DEF outboxVars, PrizeInv, BeforeTheDraw
<1>3. PrizeTypeOK'
    BY <1>1 DEF IInv, PrizeInv, PrizeTypeOK
<1>4. BeforeTheDraw'
    BY <1>1, <1>2 DEF PrizeInv, BeforeTheDraw
<1>5. SharesOnly'
    BY <1>1, <1>2, SameRows, SharesGoOn DEF PrizeInv
<1>6. WinnersKnown'
    BY <1>1, <1>2 DEF WinnersKnown
<1> QED BY <1>3, <1>4, <1>5, <1>6 DEF Kept

(* Nothing has been sent when the draw takes place, so the pending claims   *)
(* are the winners.                                                         *)
LEMMA DrawStep ==
    ASSUME PrizeInv, IInv', Draw
    PROVE  PrizeInv'
<1> DEFINE eligible == PageOf(WithStatus("success"))
           n == Min({Max({1, PrizeCount}), Cardinality(eligible)})
<1>1. /\ UNCHANGED <<outboxVars, ended, worker>> /\ spot = "published" /\ spot' = "completed"
    BY DEF Draw, SettlementReady
<1>2. PICK W \in SUBSET eligible :
          /\ Cardinality(W) = n
          /\ claim' = [c \in Entries |-> CASE c \in W -> "pending"
                                           [] claim[c] = "pending" -> "failed"
                                           [] OTHER -> claim[c]]
          /\ drawn' = W
    BY Zenon DEF Draw
<1>3. eligible \in SUBSET Entries
    BY DEF PageOf, WithStatus
<1>4. trans' = trans /\ count' = count /\ count = 0 /\ \A w \in Workers : worker[w] = Free
    BY <1>1 DEF outboxVars, PrizeInv, BeforeTheDraw
<1>5. \A t \in TransIds : trans'[t].status = "absent"
    BY <1>4, OutboxAssumption DEF PrizeInv, IInv, FreshRows, NoRow, TransIds
<1>6. \A c \in Entries : /\ claim'[c] \in {"none", "pending", "success", "failed"}
                         /\ claim'[c] = "pending" <=> c \in W
    <2>1. ASSUME NEW c \in Entries
          PROVE  /\ c \in W => claim'[c] = "pending"
                 /\ c \notin W /\ claim[c] = "pending" => claim'[c] = "failed"
                 /\ c \notin W /\ claim[c] # "pending" => claim'[c] = claim[c]
        <3> DEFINE drawnOr == CASE c \in W -> "pending"
                                [] claim[c] = "pending" -> "failed"
                                [] OTHER -> claim[c]
        <3>1. claim'[c] = drawnOr
            BY <1>2, Zenon
        <3>2. CASE c \in W /\ claim[c] # "pending"
            BY <3>1, <3>2
        <3>3. CASE c \in W /\ claim[c] = "pending"
            BY <3>3 DEF PageOf, WithStatus
        <3>4. CASE c \notin W /\ claim[c] = "pending"
            BY <3>1, <3>4
        <3>5. CASE c \notin W /\ claim[c] # "pending"
            BY <3>1, <3>5
        <3> QED BY <3>2, <3>3, <3>4, <3>5
    <2>2. \A c \in Entries : claim[c] \in {"none", "pending", "success", "failed"}
        BY DEF PrizeInv, PrizeTypeOK
    <2> QED BY <2>1, <2>2
<1>7. PrizeTypeOK'
    <2>1. claim' \in [Entries -> {"none", "pending", "success", "failed"}]
        BY <1>2, <1>6
    <2>2. TypeOK' /\ drawn' \subseteq Entries
        BY <1>2, <1>3 DEF IInv
    <2>3. spot' = "completed" /\ ended' = ended /\ worker' = worker
        BY <1>1
    <2> QED BY <2>1, <2>2, <2>3 DEF PrizeInv, PrizeTypeOK
<1>8. BeforeTheDraw'
    BY <1>1 DEF BeforeTheDraw
<1>9. SharesOnly'
    BY <1>1, <1>4, <1>5 DEF SharesOnly, Free
<1>10. WinnersKnown'
    BY <1>2, <1>3, <1>6 DEF WinnersKnown, WithStatus
<1>11. (Cardinality(drawn) =< Max({1, PrizeCount}))'
    <2>1. IsFiniteSet(eligible)
        BY <1>3, EntriesFinite DEF EntryIsFinite
    <2>2. Max({1, PrizeCount}) \in Nat /\ Cardinality(eligible) \in Nat
        <3>1. IsFiniteSet({1, PrizeCount}) /\ {1, PrizeCount} \subseteq Nat /\ {1, PrizeCount} # {}
            <4>1. {1, PrizeCount} = {1} \cup {PrizeCount}
                OBVIOUS
            <4>2. IsFiniteSet({1})
                BY FS_Singleton
            <4>3. IsFiniteSet({1} \cup {PrizeCount})
                BY <4>2, FS_AddElement
            <4> QED BY <4>1, <4>3, PrizeAssumption
        <3>2. Max({1, PrizeCount}) \in {1, PrizeCount}
            BY <3>1, Extremes
        <3> QED BY <2>1, <3>1, <3>2, FS_CardinalityType
    <2>3. ASSUME NEW a \in Nat, NEW b \in Nat PROVE Min({a, b}) =< a
        <3>1. \E x \in {a, b} : \A y \in {a, b} : x =< y
            OBVIOUS
        <3>2. Min({a, b}) \in {a, b} /\ \A y \in {a, b} : Min({a, b}) =< y
            BY <3>1 DEF Min
        <3> QED BY <3>2
    <2> HIDE DEF eligible
    <2>4. n =< Max({1, PrizeCount})
        BY <2>2, <2>3
    <2>5. Max({1, PrizeCount})' = Max({1, PrizeCount})
        BY DEF Max
    <2> QED BY <1>2, <2>4, <2>5
<1> QED BY <1>7, <1>8, <1>9, <1>10, <1>11 DEF PrizeInv

(* A worker is at work only after the draw.                                 *)
LEMMA WorkAfterTheDraw ==
    ASSUME PrizeInv, NEW w \in Workers, worker[w] # Free \/ spot = "completed"
    PROVE  spot = "completed" /\ drawn \subseteq Entries
BY DEF PrizeInv, PrizeTypeOK, BeforeTheDraw

LEMMA CollectStep ==
    ASSUME PrizeInv, IInv', NEW w \in Workers, CollectJobs(w)
    PROVE  Kept'
<1> DEFINE waiting == PageOf(WithStatus("pending"))
           paid == {c \in waiting : HasConfirmedPayout(c)}
           due == {d \in waiting : NeedsPayout(d)}
           jobs == {[claim |-> c, amount |-> RetryAmount(c)] : c \in due}
<1>1. /\ UNCHANGED <<outboxVars, spot, ended, drawn>> /\ spot = "completed" /\ worker[w] = Free
      /\ claim' = [c \in Entries |-> IF c \in paid THEN "success" ELSE claim[c]]
      /\ worker' = [worker EXCEPT ![w].jobs = jobs]
    BY Zenon DEF CollectJobs
<1>2. \A c \in due : c \in Entries /\ c \in drawn
    BY <1>1 DEF PageOf, WithStatus, PrizeInv, WinnersKnown
<1>3. \A c \in due : RetryAmount(c) = PrizeAmount(drawn, c)
    BY <1>1, <1>2, RetryIsTheShare
<1>4. \A c \in drawn : PrizeAmount(drawn, c) \in 0 .. Pool
    BY SharesMakeThePool DEF PrizeInv, PrizeTypeOK
<1>5. jobs \in SUBSET Jobs /\ \A j \in jobs : j.claim \in drawn /\ j.amount = PrizeAmount(drawn, j.claim)
    <2>1. ASSUME NEW c \in due
          PROVE  /\ [claim |-> c, amount |-> RetryAmount(c)] \in Jobs
                 /\ c \in drawn /\ RetryAmount(c) = PrizeAmount(drawn, c)
        <3>1. RetryAmount(c) \in Amounts /\ c \in Entries
            BY <1>2, <1>3, <1>4, PrizeAssumption
        <3> QED BY <1>2, <1>3, <3>1 DEF Jobs
    <2> HIDE DEF due
    <2> QED BY <2>1
<1> HIDE DEF jobs
<1>6. /\ worker'[w].jobs = jobs /\ worker' \in [Workers -> [jobs : SUBSET Jobs, row : 0 .. MaxRows]]
      /\ \A v \in Workers : v # w => worker'[v] = worker[v]
    <2>1. worker \in [Workers -> [jobs : SUBSET Jobs, row : 0 .. MaxRows]]
        BY DEF PrizeInv, PrizeTypeOK
    <2> QED BY <1>1, <1>5, <2>1
<1>7. \A c \in Entries : \/ claim'[c] = claim[c]
                         \/ claim'[c] # "pending" /\ PayoutRowsOf(c) # {}
    BY <1>1 DEF HasConfirmedPayout
<1>8. trans' = trans /\ count' = count
    BY <1>1 DEF outboxVars
<1>9. PrizeTypeOK'
    <2>1. claim' \in [Entries -> {"none", "pending", "success", "failed"}]
        BY <1>1 DEF PrizeInv, PrizeTypeOK
    <2> QED BY <1>1, <1>6, <2>1 DEF IInv, PrizeInv, PrizeTypeOK
<1>10. BeforeTheDraw'
    BY <1>1 DEF BeforeTheDraw
<1>11. SharesOnly'
    <2>1. \A v \in Workers : \A j \in worker'[v].jobs :
              j.claim \in drawn /\ j.amount = PrizeAmount(drawn, j.claim)
        BY <1>5, <1>6 DEF PrizeInv, SharesOnly
    <2>2. \A t \in TransIds : trans[t].status # "absent" =>
              trans[t].slot \in drawn /\ trans[t].amount = PrizeAmount(drawn, trans[t].slot)
        BY DEF PrizeInv, SharesOnly
    <2>3. drawn' = drawn
        BY <1>1
    <2> QED BY <1>8, <2>1, <2>2, <2>3 DEF SharesOnly, PrizeAmount
<1>12. WinnersKnown'
    BY <1>1, <1>7, <1>8, SameRows, RowsOfGoOn, WinnersGoOn DEF PrizeInv, PrizeTypeOK
<1> QED BY <1>9, <1>10, <1>11, <1>12 DEF Kept

(* A worker or the chain goes on: rows may be finalised or given their      *)
(* hash, workers have no new jobs, claims with a row may be settled.        *)
LEMMA GoesOn ==
    ASSUME PrizeInv, IInv', RowsGoOn, count' = count, UNCHANGED <<spot, ended, drawn>>,
           claim' \in [Entries -> {"none", "pending", "success", "failed"}],
           worker' \in [Workers -> [jobs : SUBSET Jobs, row : 0 .. MaxRows]],
           \A w \in Workers : \/ worker'[w].jobs \subseteq worker[w].jobs /\ spot = "completed"
                              \/ worker'[w] \in {Free, worker[w]},
           \A c \in Entries : \/ claim'[c] = claim[c]
                              \/ claim'[c] # "pending" /\ PayoutRowsOf(c) # {}
    PROVE  Kept'
<1>1. PrizeTypeOK'
    BY DEF IInv, PrizeInv, PrizeTypeOK
<1>2. BeforeTheDraw'
    BY DEF PrizeInv, BeforeTheDraw
<1>3. \A w \in Workers : worker'[w].jobs \subseteq worker[w].jobs
    BY DEF Free
<1>4. SharesOnly'
    BY <1>3, SharesGoOn DEF PrizeInv
<1>5. WinnersKnown'
    BY RowsOfGoOn, WinnersGoOn DEF PrizeInv, PrizeTypeOK
<1> QED BY <1>1, <1>2, <1>4, <1>5 DEF Kept

LEMMA SubmitStep ==
    ASSUME PrizeInv, IInv', NEW w \in Workers, SubmitPrize(w)
    PROVE  Kept'
<1> DEFINE j == NextJob(w)
<1>1. UNCHANGED <<spot, ended, claim, drawn>> /\ worker[w].row = 0 /\ worker[w].jobs # {}
    BY DEF SubmitPrize
<1>2. spot = "completed" /\ drawn \subseteq Entries
    BY <1>1, WorkAfterTheDraw DEF Free
<1>3. j \in worker[w].jobs
    BY <1>1, NextJobIsAJob DEF PrizeInv
<1>4. j.claim \in drawn /\ j.amount = PrizeAmount(drawn, j.claim)
    BY <1>3 DEF PrizeInv, SharesOnly
<1> HIDE DEF j
<1>5. /\ claim \in [Entries -> {"none", "pending", "success", "failed"}]
      /\ worker \in [Workers -> [jobs : SUBSET Jobs, row : 0 .. MaxRows]]
    BY DEF PrizeInv, PrizeTypeOK
<1>6. CASE HasNonFailed(j.claim)
    <2>1. worker' = [worker EXCEPT ![w].jobs = @ \ {j}] /\ UNCHANGED outboxVars
        BY <1>6, Zenon DEF SubmitPrize, j
    <2>2. /\ worker' \in [Workers -> [jobs : SUBSET Jobs, row : 0 .. MaxRows]]
          /\ \A v \in Workers : worker'[v].jobs \subseteq worker[v].jobs
        BY <1>5, <2>1
    <2>3. trans' = trans /\ count' = count
        BY <2>1 DEF outboxVars
    <2> QED BY <1>1, <1>2, <1>5, <2>2, <2>3, SameRows, GoesOn
<1>7. CASE ~HasNonFailed(j.claim)
    <2>1. /\ CreateIntent(j.claim, j.amount)
          /\ worker' = [worker EXCEPT ![w] = [jobs |-> @.jobs \ {j}, row |-> count + 1]]
        BY <1>7, Zenon DEF SubmitPrize, j
    <2>2. /\ count + 1 \in TransIds /\ count' = count + 1
          /\ trans[count + 1].status = "absent"
          /\ trans'[count + 1].status = "pending"
          /\ trans'[count + 1].slot = j.claim /\ trans'[count + 1].amount = j.amount
          /\ \A t \in TransIds : t # count + 1 => trans'[t] = trans[t]
        BY <2>1, NewRow DEF PrizeInv
    <2>3. count + 1 \in 0 .. MaxRows
        BY <2>2, OutboxAssumption DEF TransIds
    <2>4. /\ worker' \in [Workers -> [jobs : SUBSET Jobs, row : 0 .. MaxRows]]
          /\ \A v \in Workers : worker'[v].jobs \subseteq worker[v].jobs
        BY <1>5, <2>1, <2>3
    <2>5. PrizeTypeOK'
        BY <1>1, <2>4 DEF IInv, PrizeInv, PrizeTypeOK
    <2>6. BeforeTheDraw'
        BY <1>1, <1>2 DEF BeforeTheDraw
    <2>7. SharesOnly'
        <3>1. \A t \in TransIds : trans'[t].status # "absent" =>
                  trans'[t].slot \in drawn /\ trans'[t].amount = PrizeAmount(drawn, trans'[t].slot)
            BY <1>4, <2>2 DEF PrizeInv, SharesOnly
        <3>2. \A v \in Workers : \A k \in worker'[v].jobs :
                  k.claim \in drawn /\ k.amount = PrizeAmount(drawn, k.claim)
            BY <2>4 DEF PrizeInv, SharesOnly
        <3>3. drawn' = drawn
            BY <1>1
        <3> QED BY <3>1, <3>2, <3>3 DEF SharesOnly, PrizeAmount
    <2>8. WinnersKnown'
        <3>1. \A c \in Entries : PayoutRowsOf(c) \subseteq PayoutRowsOf(c)'
            BY <2>2 DEF PayoutRowsOf
        <3> QED BY <1>1, <1>2, <3>1, WinnersGoOn DEF PrizeInv
    <2> QED BY <2>5, <2>6, <2>7, <2>8 DEF Kept
<1> QED BY <1>6, <1>7

LEMMA SendingStep ==
    ASSUME PrizeInv, IInv', NEW w \in Workers,
           HoldPrize(w) \/ PrizeBroadcast(w) \/ PrizeSent(w) \/ PrizeSendFails(w)
    PROVE  Kept'
<1>1. /\ claim \in [Entries -> {"none", "pending", "success", "failed"}]
      /\ worker \in [Workers -> [jobs : SUBSET Jobs, row : 0 .. MaxRows]]
      /\ 0 \in 0 .. MaxRows
    BY OutboxAssumption DEF PrizeInv, PrizeTypeOK
<1>2. CASE HoldPrize(w)
    <2>1. /\ UNCHANGED <<outboxVars, spot, ended, claim, drawn>> /\ worker[w].jobs # {}
          /\ worker' = [worker EXCEPT ![w].jobs = @ \ {NextJob(w)}]
        BY <1>2 DEF HoldPrize
    <2>2. spot = "completed" /\ trans' = trans /\ count' = count
        BY <2>1, WorkAfterTheDraw DEF Free, outboxVars
    <2>3. /\ worker' \in [Workers -> [jobs : SUBSET Jobs, row : 0 .. MaxRows]]
          /\ \A v \in Workers : worker'[v].jobs \subseteq worker[v].jobs
        BY <1>1, <2>1
    <2> QED BY <1>1, <2>1, <2>2, <2>3, SameRows, GoesOn
<1>3. CASE PrizeBroadcast(w)
    <2>1. UNCHANGED drawVars /\ trans' = trans /\ count' = count
        BY <1>3 DEF PrizeBroadcast, BroadcastOk, Broadcast
    <2> QED BY <1>1, <2>1, SameRows, GoesOn DEF drawVars
<1>4. CASE PrizeSent(w)
    <2>1. /\ UNCHANGED <<spot, ended, claim, drawn>> /\ worker[w].row # 0
          /\ RecordHash(worker[w].row) /\ worker' = [worker EXCEPT ![w].row = 0]
        BY <1>4 DEF PrizeSent
    <2>2. spot = "completed" /\ worker[w].row \in TransIds
        BY <2>1, WorkAfterTheDraw, JobsAreTyped DEF Free, PrizeInv
    <2>3. /\ worker' \in [Workers -> [jobs : SUBSET Jobs, row : 0 .. MaxRows]]
          /\ \A v \in Workers : worker'[v].jobs \subseteq worker[v].jobs
        BY <1>1, <2>1
    <2>4. RowsGoOn /\ count' = count
        BY <2>1, <2>2, HashRows DEF PrizeInv
    <2> QED BY <1>1, <2>1, <2>2, <2>3, <2>4, GoesOn
<1>5. CASE PrizeSendFails(w)
    <2>1. /\ UNCHANGED <<spot, ended, claim, drawn>> /\ trans' = trans /\ count' = count
          /\ worker' = [worker EXCEPT ![w] = Free]
        BY <1>5 DEF PrizeSendFails, BroadcastLost, BroadcastFails, Broadcast
    <2>2. Free \in [jobs : SUBSET Jobs, row : 0 .. MaxRows]
        BY <1>1 DEF Free
    <2>3. /\ worker' \in [Workers -> [jobs : SUBSET Jobs, row : 0 .. MaxRows]]
          /\ \A v \in Workers : worker'[v] \in {Free, worker[v]}
        BY <1>1, <2>1, <2>2
    <2> QED BY <1>1, <2>1, <2>3, SameRows, GoesOn
<1> QED BY <1>2, <1>3, <1>4, <1>5

LEMMA RefresherStep ==
    ASSUME PrizeInv, IInv', NEW t \in TransIds, PrizeConfirmed(t) \/ PrizeFailed(t) \/ PrizeChain(t)
    PROVE  Kept'
<1>1. /\ claim \in [Entries -> {"none", "pending", "success", "failed"}]
      /\ worker \in [Workers -> [jobs : SUBSET Jobs, row : 0 .. MaxRows]]
    BY DEF PrizeInv, PrizeTypeOK
<1>2. CASE PrizeChain(t)
    <2>1. UNCHANGED drawVars /\ trans' = trans /\ count' = count
        BY <1>2 DEF PrizeChain, OutboxChain, ChainExecutes, ChainRejects
    <2> QED BY <1>1, <2>1, SameRows, GoesOn DEF drawVars
<1>3. CASE PrizeConfirmed(t) \/ PrizeFailed(t)
    <2>1. MarkConfirmed(t) \/ MarkFailed(t)
        BY <1>3 DEF PrizeConfirmed, PrizeFailed
    <2>2. trans[t].status = "pending"
        BY <2>1 DEF MarkConfirmed, MarkFailed, ProvenConfirmed, ProvenFailed
    <2>3. trans[t].slot \in drawn /\ drawn \subseteq Entries
        BY <2>2 DEF PrizeInv, SharesOnly, PrizeTypeOK
    <2>4. RowsGoOn /\ count' = count
        BY <2>1, <2>3, FinalRows DEF PrizeInv, Entries
    <2>5. UNCHANGED <<spot, ended, drawn, worker>>
        BY <1>3 DEF PrizeConfirmed, PrizeFailed, drawVars
    <2>6. /\ claim' \in [Entries -> {"none", "pending", "success", "failed"}]
          /\ \A c \in Entries : claim'[c] = claim[c] \/ (c = trans[t].slot /\ claim'[c] = "success")
        BY <1>1, <1>3, <2>3 DEF PrizeConfirmed, PrizeFailed, drawVars
    <2>7. PayoutRowsOf(trans[t].slot) # {}
        BY <2>2 DEF PayoutRowsOf
    <2>8. \A c \in Entries : \/ claim'[c] = claim[c]
                             \/ claim'[c] # "pending" /\ PayoutRowsOf(c) # {}
        BY <2>6, <2>7
    <2> QED BY <1>1, <2>4, <2>5, <2>6, <2>8, GoesOn
<1> QED BY <1>2, <1>3

LEMMA PrizeInvStep == PrizeInv /\ [PrizeNext]_prizeVars => PrizeInv'
<1> SUFFICES ASSUME PrizeInv, [PrizeNext]_prizeVars PROVE PrizeInv'
    OBVIOUS
<1>0. IInv'
    BY PrizeOutboxStep, IInvStep DEF PrizeInv
<1>1. ASSUME drawn' = drawn, Kept' PROVE PrizeInv'
    <2>1. Max({1, PrizeCount})' = Max({1, PrizeCount})
        BY DEF Max
    <2> QED BY <1>0, <1>1, <2>1 DEF Kept, PrizeInv
<1>2. ASSUME NEW c \in Entries, Enter(c) \/ ResolveEntry(c) PROVE PrizeInv'
    <2>1. drawn' = drawn
        BY <1>2 DEF Enter, ResolveEntry
    <2> QED BY <1>0, <1>1, <1>2, <2>1, EntriesStep
<1>3. CASE Draw
    BY <1>0, <1>3, DrawStep
<1>4. ASSUME NEW w \in Workers, PrizeWorker(w) \/ HoldPrize(w) \/ PrizeSendFails(w)
      PROVE  PrizeInv'
    <2>1. drawn' = drawn
        BY <1>4 DEF PrizeWorker, HoldPrize, PrizeSendFails, CollectJobs, SubmitPrize,
                    PrizeBroadcast, PrizeSent, drawVars
    <2>2. Kept'
        BY <1>0, <1>4, CollectStep, SubmitStep, SendingStep DEF PrizeWorker
    <2> QED BY <1>1, <2>1, <2>2
<1>5. ASSUME NEW t \in TransIds, PrizeConfirmed(t) \/ PrizeFailed(t) \/ PrizeChain(t)
      PROVE  PrizeInv'
    <2>1. drawn' = drawn
        BY <1>5 DEF PrizeConfirmed, PrizeFailed, PrizeChain, drawVars
    <2> QED BY <1>0, <1>1, <1>5, <2>1, RefresherStep
<1>6. CASE PrizeCrash \/ EntryPeriodEnds \/ UNCHANGED prizeVars
    <2>1. trans' = trans /\ count' = count /\ UNCHANGED <<spot, claim, drawn>> /\ ended' \in BOOLEAN
        BY <1>6 DEF PrizeCrash, EntryPeriodEnds, prizeVars, outboxVars, drawVars, PrizeInv, PrizeTypeOK
    <2>2. worker' = worker \/ worker' = [w \in Workers |-> Free]
        BY <1>6 DEF PrizeCrash, EntryPeriodEnds, prizeVars, drawVars
    <2>3. Free \in [jobs : SUBSET Jobs, row : 0 .. MaxRows]
        BY OutboxAssumption DEF Free
    <2>4. /\ worker' \in [Workers -> [jobs : SUBSET Jobs, row : 0 .. MaxRows]]
          /\ \A w \in Workers : worker'[w] \in {Free, worker[w]}
        BY <2>2, <2>3 DEF PrizeInv, PrizeTypeOK
    <2>5. PrizeTypeOK'
        BY <1>0, <2>1, <2>4 DEF IInv, PrizeInv, PrizeTypeOK
    <2>6. BeforeTheDraw'
        BY <2>1, <2>4 DEF PrizeInv, BeforeTheDraw
    <2>7. SharesOnly'
        BY <2>1, <2>4, SameRows, SharesGoOn DEF PrizeInv, Free
    <2>8. WinnersKnown'
        BY <2>1, SameRows, RowsOfGoOn, WinnersGoOn DEF PrizeInv, PrizeTypeOK
    <2> QED BY <1>1, <2>1, <2>5, <2>6, <2>7, <2>8 DEF Kept
<1> QED BY <1>2, <1>3, <1>4, <1>5, <1>6, Zenon DEF PrizeNext

LEMMA PrizeInvInit == PrizeInit => PrizeInv
<1> SUFFICES ASSUME PrizeInit PROVE PrizeInv
    OBVIOUS
<1>1. IInv
    BY InitIInv DEF PrizeInit
<1>2. Free \in [jobs : SUBSET Jobs, row : 0 .. MaxRows]
    BY OutboxAssumption DEF Free
<1>3. PrizeTypeOK
    BY <1>1, <1>2 DEF IInv, PrizeInit, PrizeTypeOK
<1>4. count = 0 /\ drawn = {} /\ \A t \in TransIds : trans[t].status = "absent"
    BY DEF PrizeInit, OutboxInit, NoRow
<1>5. BeforeTheDraw /\ SharesOnly /\ WinnersKnown
    BY <1>4 DEF PrizeInit, BeforeTheDraw, SharesOnly, WinnersKnown, Free
<1>6. Cardinality(drawn) =< Max({1, PrizeCount})
    <2>1. \A x \in {1, PrizeCount} : x \in Nat
        BY PrizeAssumption
    <2>2. \E x \in {1, PrizeCount} : \A y \in {1, PrizeCount} : x >= y
        BY <2>1
    <2>3. Max({1, PrizeCount}) \in {1, PrizeCount}
        BY <2>2 DEF Max
    <2>4. Cardinality(drawn) = 0
        BY <1>4, FS_EmptySet
    <2> QED BY <2>1, <2>3, <2>4
<1> QED BY <1>1, <1>3, <1>5, <1>6 DEF PrizeInv

-----------------------------------------------------------------------------
(* What the invariant says of winners and of the pool *)

LEMMA WinnersAreDrawn ==
    ASSUME PrizeInv
    PROVE  WinnersStay
BY DEF PrizeInv, WinnersStay, WinnersKnown, WinnerIds, WithStatus, SharesOnly, PayoutRowsOf,
       PrizeTypeOK

(* Committed prizes are carried to the shares of their winners, one to one; *)
(* when every winner has a confirmed prize the shares are carried back.     *)
LEMMA PoolIsPaid ==
    ASSUME PrizeInv
    PROVE  PoolPaidExactly
<1> DEFINE prize == [t \in TransIds |-> trans[t].amount]
           winner == [t \in TransIds |-> trans[t].slot]
           total == SumFunctionOnSet(prize, Committed)
<1>1. Committed \subseteq TransIds /\ IsFiniteSet(Committed)
    <2>1. Committed \subseteq TransIds
        BY DEF Committed
    <2>2. IsFiniteSet(TransIds)
        BY OutboxAssumption, FS_Interval DEF TransIds
    <2> QED BY <2>1, <2>2, FS_Subset
<1>2. drawn \subseteq Entries /\ IsFiniteSet(drawn)
    BY EntriesFinite DEF EntryIsFinite, PrizeInv, PrizeTypeOK
<1>3. \A t \in Committed : /\ trans[t].slot \in drawn
                           /\ trans[t].amount = PrizeAmount(drawn, trans[t].slot)
    BY <1>1 DEF PrizeInv, SharesOnly, Committed
<1>4. \A t, u \in Committed : trans[t].slot = trans[u].slot => t = u
    BY <1>2, <1>3 DEF Committed, PrizeInv, IInv, UniqueActiveIntent, Entries
<1>5. drawn # {} => /\ Sum(Shares(drawn), drawn) = Pool
                    /\ \A c \in drawn : /\ PrizeAmount(drawn, c) \in 0 .. Pool
                                        /\ Shares(drawn)[c] = PrizeAmount(drawn, c)
    BY <1>2, SharesMakeThePool
<1>6. \A t \in Committed : prize[t] = trans[t].amount /\ winner[t] = trans[t].slot
    BY <1>1
<1>7. \A t \in Committed : prize[t] \in Nat /\ prize[t] = Shares(drawn)[winner[t]]
    BY <1>3, <1>5, <1>6, PrizeAssumption
<1>8. \A c \in drawn : Shares(drawn)[c] \in Nat
    BY <1>5, PrizeAssumption
<1> HIDE DEF prize, winner
<1>9. Sum(prize, Committed) \in Nat
    BY <1>1, <1>7, SumType
<1>10. Sum(prize, Committed) =< Pool
    <2>1. CASE drawn = {}
        <3>1. Committed = {}
            BY <1>3, <2>1
        <3>2. Sum(prize, Committed) = 0
            BY <1>1, <3>1, SumType
        <3> QED BY <3>2, PrizeAssumption
    <2>2. CASE drawn # {}
        <3>1. \A t \in Committed : winner[t] \in drawn /\ prize[t] =< Shares(drawn)[winner[t]]
            BY <1>3, <1>6, <1>7
        <3>2. \A t, u \in Committed : winner[t] = winner[u] => t = u
            BY <1>4, <1>6
        <3>3. Sum(prize, Committed) =< Sum(Shares(drawn), drawn)
            BY <1>1, <1>2, <1>7, <1>8, <3>1, <3>2, SumCarried
        <3> QED BY <1>5, <2>2, <3>3
    <2> QED BY <2>1, <2>2
<1>11. ASSUME drawn # {}, \A c \in drawn : HasConfirmedPayout(c)
       PROVE  Pool =< Sum(prize, Committed)
    <2> DEFINE paid == [c \in drawn |-> CHOOSE t \in PayoutRowsOf(c) : trans[t].status = "confirmed"]
    <2>1. ASSUME NEW c \in drawn
          PROVE  paid[c] \in Committed /\ trans[paid[c]].slot = c
        <3>1. PICK t \in PayoutRowsOf(c) : trans[t].status = "confirmed"
            BY <1>11 DEF HasConfirmedPayout
        <3>2. paid[c] \in PayoutRowsOf(c) /\ trans[paid[c]].status = "confirmed"
            BY <3>1
        <3> QED BY <3>2 DEF PayoutRowsOf, Committed
    <2> HIDE DEF paid
    <2>2. \A c \in drawn : paid[c] \in Committed /\ Shares(drawn)[c] =< prize[paid[c]]
        BY <1>6, <1>7, <1>8, <2>1
    <2>3. \A c, d \in drawn : paid[c] = paid[d] => c = d
        BY <2>1
    <2>4. Sum(Shares(drawn), drawn) =< Sum(prize, Committed)
        BY <1>1, <1>2, <1>7, <1>8, <2>2, <2>3, SumCarried
    <2> QED BY <1>5, <1>11, <2>4
<1>12. total = Sum(prize, Committed)
    BY DEF Sum
<1>13. /\ total =< Pool
       /\ (drawn # {} /\ \A c \in drawn : HasConfirmedPayout(c)) => total = Pool
    <2> HIDE DEF total
    <2> QED BY <1>9, <1>10, <1>11, <1>12, PrizeAssumption
<1> QED BY <1>13 DEF PoolPaidExactly, prize

-----------------------------------------------------------------------------
(* The theorems *)

LEMMA PrizeInvariant == PrizeSpec => []PrizeInv
BY PrizeInvInit, PrizeInvStep, PTL DEF PrizeSpec

(* The types of the Spot, its entries and the workers' jobs never break.    *)
THEOREM PrizeTypes == PrizeSpec => []PrizeTypeOK
<1>1. PrizeInv => PrizeTypeOK
    BY DEF PrizeInv
<1> QED BY <1>1, PrizeInvariant, PTL

(* The winners of settle_prizedraw_spot_if_ready stay what it drew, however *)
(* sends fail, workers restart and payouts are retried or confirmed.        *)
THEOREM WinnersFixed == PrizeSpec => []WinnersStay
BY PrizeInvariant, WinnersAreDrawn, PTL

(* The prizes of retry_pending_prizedraw_payouts_for_spot never promise     *)
(* more than the pool, and pay all of it once every winner is paid.         *)
THEOREM PoolPaid == PrizeSpec => []PoolPaidExactly
BY PrizeInvariant, PoolIsPaid, PTL

(* A Prizedraw writes to the transaction table as the outbox does.          *)
THEOREM PrizeImplements == PrizeSpec => PrizeImplementsOutbox
<1>1. PrizeInit => OutboxInit
    BY DEF PrizeInit
<1>2. PrizeInv /\ [PrizeNext]_prizeVars => [OutboxNext]_outboxVars
    BY PrizeOutboxStep DEF PrizeInv
<1> QED BY <1>1, <1>2, PrizeInvariant, PTL DEF PrizeSpec, OutboxSpec, PrizeImplementsOutbox

(* No prize is sent twice, and the ledger of a draw says what the chain did.*)
THEOREM PrizePaysOnce ==
    PrizeSpec => [](PaidAtMostOnce /\ LedgerMatchesChain) /\ FinalRowsStay /\ PaysOnce
BY PrizeImplements, OutboxPaysAtMostOnce, OutboxLedger, OutboxFinal, OutboxRefinesPaidOnce, PTL
   DEF PrizeImplementsOutbox

-----------------------------------------------------------------------------
(* The payout throttle *)

(* A set of claims inside a count and an amount.                            *)
Budgeted(S, most, luna) ==
    /\ IsFiniteSet(S)
    /\ Cardinality(S) =< most
    /\ LunaOf(S) =< luna

(* What an Open Spot has reserved or paid without an operator: the set      *)
(* LifetimeShareKept is about.                                              *)
Automatic == {c \in OpenClaims : (row[c] # "none" \/ res[c] # NoRes) /\ ~released[c]}

(* Rows and reservations, counted as throttle_decision counts them.         *)
Budgets ==
    /\ Budgeted(CombinedWindow(res, "short", Window), MaxPayoutCount, MaxPayoutLuna)
    /\ Budgeted(CombinedWindow(res, "daily", DailyWindow), DailyMaxPayoutCount, DailyMaxPayoutLuna)
    /\ Budgeted(Automatic, LifetimeMaxCount, LifetimeMaxLuna)

(* What a reservation that is still awaited by a worker guarantees.         *)
Reserved(c) ==
    /\ ~OverAutomaticLimit(c)
    /\ row[c] = "none" => /\ res[c] # NoRes
                          /\ res[c].short < Window
                          /\ res[c].daily < DailyWindow

(* Rows and reservations together stay within the windows, so a worker that *)
(* inserts the row its reservation was for adds nothing to them.            *)
ThrottleInv ==
    /\ ThrottleTypeOK
    /\ Budgets
    /\ \A w \in Payers : payer[w].pc = "permitted" => Reserved(payer[w].claim)
    /\ \A c \in Claims : row[c] # "none" => ~OverAutomaticLimit(c)
    /\ RowsFail => \A w \in Payers : payer[w].pc # "idle" => row[payer[w].claim] = "none"
(* The throttle's constants are numbers, and MaxAge bounds every window.    *)
LEMMA WindowsAreNat ==
    ASSUME ThrottleAssumption
    PROVE  /\ MaxAge \in Nat /\ Window =< MaxAge /\ DailyWindow =< MaxAge /\ SpotWindow =< MaxAge
           /\ Window \in Nat \ {0} /\ DailyWindow \in Nat \ {0} /\ SpotWindow \in Nat \ {0}
<1> DEFINE S == {Window, DailyWindow, SpotWindow}
<1>1. S \subseteq Nat \ {0} /\ Window \in S /\ DailyWindow \in S /\ SpotWindow \in S
    BY DEF ThrottleAssumption
<1>2. IsFiniteSet(S)
    <2>1. IsFiniteSet({Window}) /\ IsFiniteSet({DailyWindow}) /\ IsFiniteSet({SpotWindow})
        BY FS_Singleton
    <2>2. S = {Window} \cup {DailyWindow} \cup {SpotWindow}
        OBVIOUS
    <2> HIDE DEF S
    <2> QED BY <2>1, <2>2, FS_Union
<1>3. MaxAge = Max(S)
    BY DEF MaxAge
<1> HIDE DEF S
<1>4. Max(S) \in S /\ \A y \in S : Max(S) >= y
    BY <1>1, <1>2, Extremes
<1> QED BY <1>1, <1>3, <1>4

LEMMA SharesAreNat ==
    ASSUME ThrottleAssumption
    PROVE  LifetimeMaxCount \in Nat /\ LifetimeMaxLuna \in Nat
<1>1. Capacity \in Nat /\ RewardPool \in Nat /\ LifetimePercent \in Nat
    BY DEF ThrottleAssumption
<1>2. \A x \in Nat : x \div 100 \in Nat
    OBVIOUS
<1>3. \A x, y \in Nat : x * y \in Nat
    OBVIOUS
<1> QED BY <1>1, <1>2, <1>3 DEF LifetimeMaxCount, LifetimeMaxLuna

(* Any set of claims can be counted and summed.                             *)
LEMMA AmountsAreNat ==
    ASSUME ThrottleAssumption, NEW S \in SUBSET Claims
    PROVE  /\ IsFiniteSet(S) /\ Cardinality(S) \in Nat
           /\ \A c \in S : Amount[c] \in Nat
           /\ LunaOf(S) \in Nat
<1>1. IsFiniteSet(S) /\ \A c \in S : Amount[c] \in Nat
    BY FS_Subset DEF ThrottleAssumption
<1> QED BY <1>1, FS_CardinalityType, SumType DEF LunaOf, Sum

(* Part of what is within a budget is within it.                            *)
LEMMA BudgetShrinks ==
    ASSUME ThrottleAssumption, NEW T \in SUBSET Claims, NEW S, S \subseteq T,
           NEW most \in Nat, NEW luna \in Nat, Budgeted(T, most, luna)
    PROVE  Budgeted(S, most, luna)
<1>1. IsFiniteSet(S) /\ Cardinality(S) =< Cardinality(T)
    BY FS_Subset DEF Budgeted
<1>2. LunaOf(S) =< LunaOf(T)
    <2>1. /\ \A c \in S : Amount[c] \in Nat /\ Amount[c] =< Amount[c]
          /\ \A c \in T : Amount[c] \in Nat
        BY AmountsAreNat
    <2> QED BY <2>1, SumMonotone DEF Budgeted, LunaOf, Sum
<1>3. Cardinality(S) \in Nat /\ Cardinality(T) \in Nat /\ LunaOf(S) \in Nat /\ LunaOf(T) \in Nat
    BY AmountsAreNat
<1> QED BY <1>1, <1>2, <1>3 DEF Budgeted

(* A claim that was found within the limits may be added.                   *)
LEMMA BudgetGrows ==
    ASSUME ThrottleAssumption, NEW T \in SUBSET Claims, NEW c \in Claims,
           NEW S, S \subseteq T \cup {c},
           NEW most \in Nat, NEW luna \in Nat, WithinLimits(T, c, most, luna)
    PROVE  Budgeted(S, most, luna)
<1>1. IsFiniteSet(T) /\ Cardinality(T) \in Nat /\ LunaOf(T) \in Nat /\ Amount[c] \in Nat
    BY AmountsAreNat DEF ThrottleAssumption
<1>2. CASE c \in T
    <2>1. Budgeted(T, most, luna)
        BY <1>1 DEF WithinLimits, Budgeted
    <2> QED BY <1>2, <2>1, BudgetShrinks
<1>3. CASE c \notin T
    <2>1. IsFiniteSet(T \cup {c}) /\ Cardinality(T \cup {c}) = Cardinality(T) + 1
        BY <1>1, <1>3, FS_AddElement
    <2>2. LunaOf(T \cup {c}) = Amount[c] + LunaOf(T)
        BY <1>1, <1>3, AmountsAreNat, SumAdd DEF LunaOf, Sum
    <2>3. Budgeted(T \cup {c}, most, luna)
        BY <1>1, <2>1, <2>2 DEF WithinLimits, Budgeted
    <2> QED BY <2>3, BudgetShrinks
<1> QED BY <1>2, <1>3

LEMMA LimitsAreNat ==
    ASSUME ThrottleAssumption
    PROVE  /\ MaxPayoutCount \in Nat /\ MaxPayoutLuna \in Nat
           /\ DailyMaxPayoutCount \in Nat /\ DailyMaxPayoutLuna \in Nat
           /\ LifetimeMaxCount \in Nat /\ LifetimeMaxLuna \in Nat
BY SharesAreNat DEF ThrottleAssumption

-----------------------------------------------------------------------------
LEMMA ThrottleInvInit ==
    ASSUME ThrottleAssumption, ThrottleInit
    PROVE  ThrottleInv
<1>1. ThrottleTypeOK
    <2>1. (CHOOSE c \in Claims : TRUE) \in Claims
        BY DEF ThrottleAssumption
    <2>2. 0 \in Ages /\ 0 \in 0 .. PermitTicks
        BY WindowsAreNat DEF Ages, ThrottleAssumption
    <2>3. Idle \in [pc : {"idle", "ready", "permitted"}, claim : Claims, held : 0 .. PermitTicks]
        BY <2>1, <2>2 DEF Idle
    <2> QED BY <2>2, <2>3 DEF ThrottleInit, ThrottleTypeOK
<1>2. CombinedWindow(res, "short", Window) = {} /\ CombinedWindow(res, "daily", DailyWindow) = {}
    BY DEF ThrottleInit, CombinedWindow, PayoutRows
<1>3. Automatic = {}
    BY DEF ThrottleInit, Automatic, ThrottleAssumption
<1>4. \A n, m \in Nat : Budgeted({}, n, m)
    <2>1. IsFiniteSet({}) /\ Cardinality({}) = 0
        BY FS_EmptySet
    <2>2. LunaOf({}) = 0
        BY <2>1, SumType DEF LunaOf, Sum
    <2> QED BY <2>1, <2>2 DEF Budgeted
<1>5. /\ \A w \in Payers : payer[w].pc = "idle"
      /\ \A c \in Claims : row[c] = "none"
    BY DEF ThrottleInit, Idle
<1> QED BY <1>1, <1>2, <1>3, <1>4, <1>5, LimitsAreNat DEF ThrottleInv, Budgets

(* A step after which the counted payouts are among those counted before    *)
(* keeps the budgets.                                                       *)
Fewer ==
    /\ CombinedWindow(res, "short", Window)' \subseteq CombinedWindow(res, "short", Window)
    /\ CombinedWindow(res, "daily", DailyWindow)' \subseteq CombinedWindow(res, "daily", DailyWindow)
    /\ Automatic' \subseteq Automatic

LEMMA FewerKeepsBudgets ==
    ASSUME ThrottleAssumption, Budgets, Fewer
    PROVE  Budgets'
<1>1. /\ CombinedWindow(res, "short", Window) \in SUBSET Claims
      /\ CombinedWindow(res, "daily", DailyWindow) \in SUBSET Claims
      /\ Automatic \in SUBSET Claims
    BY DEF CombinedWindow, PayoutRows, Automatic, ThrottleAssumption
<1>2. Budgeted(CombinedWindow(res, "short", Window)', MaxPayoutCount, MaxPayoutLuna)
    BY <1>1, BudgetShrinks, LimitsAreNat DEF Budgets, Fewer
<1>3. Budgeted(CombinedWindow(res, "daily", DailyWindow)', DailyMaxPayoutCount, DailyMaxPayoutLuna)
    BY <1>1, BudgetShrinks, LimitsAreNat DEF Budgets, Fewer
<1>4. Budgeted(Automatic', LifetimeMaxCount, LifetimeMaxLuna)
    BY <1>1, BudgetShrinks, LimitsAreNat DEF Budgets, Fewer
<1> QED BY <1>2, <1>3, <1>4 DEF Budgets, Budgeted, LunaOf, LifetimeMaxCount, LifetimeMaxLuna

(* The steps that leave rows, reservations and releases alone and give no   *)
(* new permit.                                                              *)
LEMMA QuietStepKeeps ==
    ASSUME ThrottleAssumption, ThrottleInv, ThrottleTypeOK',
           UNCHANGED <<res, row, rowAge, released>>,
           \A w \in Payers : payer'[w].pc = "idle" \/ payer'[w] = payer[w]
                               \/ (payer'[w].pc = "ready" /\ row[payer'[w].claim] = "none")
    PROVE  ThrottleInv'
<1>1. Fewer
    BY DEF Fewer, CombinedWindow, PayoutRows, Automatic
<1>2. Budgets'
    BY <1>1, FewerKeepsBudgets DEF ThrottleInv
<1>3. \A w \in Payers : payer'[w].pc = "permitted" => Reserved(payer[w].claim)' /\ payer'[w] = payer[w]
    BY DEF ThrottleInv, Reserved, OverAutomaticLimit
<1>4. \A w \in Payers : payer'[w].pc = "permitted" => Reserved(payer[w].claim)
    BY <1>3 DEF ThrottleInv
<1>5. \A w \in Payers : payer'[w].pc = "permitted" => Reserved(payer[w].claim)'
    BY <1>3
<1>6. \A c \in Claims : row'[c] # "none" => ~OverAutomaticLimit(c)'
    BY DEF ThrottleInv, OverAutomaticLimit
<1>7. RowsFail => \A w \in Payers : payer'[w].pc # "idle" => row'[payer'[w].claim] = "none"
    BY DEF ThrottleInv
<1> QED BY <1>2, <1>5, <1>6, <1>7 DEF ThrottleInv

LEMMA BeginPayoutKeeps ==
    ASSUME ThrottleAssumption, ThrottleInv, NEW w \in Payers, NEW c \in Claims, BeginPayout(w, c)
    PROVE  ThrottleInv'
<1>1. ThrottleTypeOK'
    <2>1. 0 \in 0 .. PermitTicks
        BY DEF ThrottleAssumption
    <2> QED BY <2>1 DEF ThrottleInv, ThrottleTypeOK, BeginPayout
<1>2. \A v \in Payers : payer'[v] = payer[v] \/ (payer'[v].pc = "ready" /\ row[payer'[v].claim] = "none")
    BY DEF ThrottleInv, ThrottleTypeOK, BeginPayout
<1>3. UNCHANGED <<res, row, rowAge, released>>
    BY DEF BeginPayout
<1> QED BY <1>1, <1>2, <1>3, QuietStepKeeps

LEMMA CrashKeeps ==
    ASSUME ThrottleAssumption, ThrottleInv, WorkersCrash
    PROVE  ThrottleInv'
<1>1. ThrottleTypeOK'
    <2>1. 0 \in 0 .. PermitTicks /\ (CHOOSE c \in Claims : TRUE) \in Claims
        BY DEF ThrottleAssumption
    <2> QED BY <2>1 DEF ThrottleInv, ThrottleTypeOK, WorkersCrash, Idle
<1>2. \A v \in Payers : payer'[v].pc = "idle"
    BY DEF WorkersCrash, Idle
<1>3. UNCHANGED <<res, row, rowAge, released>>
    BY DEF WorkersCrash
<1> QED BY <1>1, <1>2, <1>3, QuietStepKeeps

LEMMA ReleaseKeeps ==
    ASSUME ThrottleAssumption, ThrottleInv, NEW c \in Claims, ReleaseReview(c)
    PROVE  ThrottleInv'
<1>1. ThrottleTypeOK'
    BY DEF ThrottleInv, ThrottleTypeOK, ReleaseReview
<1>2. Fewer
    BY DEF Fewer, CombinedWindow, PayoutRows, Automatic, ReleaseReview, ThrottleInv, ThrottleTypeOK
<1>3. Budgets'
    BY <1>2, FewerKeepsBudgets DEF ThrottleInv
<1>4. UNCHANGED <<res, row, payer>>
    BY DEF ReleaseReview
<1>5. \A w \in Payers : payer'[w].pc = "permitted" => Reserved(payer[w].claim)'
    BY <1>4 DEF ThrottleInv, Reserved, OverAutomaticLimit
<1>6. \A d \in Claims : row'[d] # "none" => ~OverAutomaticLimit(d)'
    BY <1>4 DEF ThrottleInv, OverAutomaticLimit
<1> QED BY <1>1, <1>3, <1>4, <1>5, <1>6 DEF ThrottleInv

LEMMA ConfirmedKeeps ==
    ASSUME ThrottleAssumption, ThrottleInv, NEW c \in Claims, RowConfirmed(c)
    PROVE  ThrottleInv'
<1>1. ThrottleTypeOK'
    BY DEF ThrottleInv, ThrottleTypeOK, RowConfirmed
<1>2. UNCHANGED <<res, rowAge, released, payer>>
    BY DEF RowConfirmed
<1>3. \A d \in Claims : (row'[d] = "none") <=> (row[d] = "none")
    BY DEF ThrottleInv, ThrottleTypeOK, RowConfirmed
<1>4. Fewer
    BY <1>2, <1>3 DEF Fewer, CombinedWindow, PayoutRows, Automatic, ThrottleAssumption
<1>5. Budgets'
    BY <1>4, FewerKeepsBudgets DEF ThrottleInv
<1>6. \A w \in Payers : payer[w].claim \in Claims
    BY DEF ThrottleInv, ThrottleTypeOK
<1>7. \A w \in Payers : payer'[w].pc = "permitted" => Reserved(payer[w].claim)'
    BY <1>2, <1>3, <1>6 DEF ThrottleInv, Reserved, OverAutomaticLimit
<1>8. \A d \in Claims : row'[d] # "none" => ~OverAutomaticLimit(d)'
    BY <1>3 DEF ThrottleInv, OverAutomaticLimit
<1> QED BY <1>1, <1>2, <1>3, <1>5, <1>6, <1>7, <1>8 DEF ThrottleInv

(* A row that fails had no other worker waiting for it.                     *)
LEMMA FailedKeeps ==
    ASSUME ThrottleAssumption, ThrottleInv, NEW c \in Claims, RowFailed(c)
    PROVE  ThrottleInv'
<1>1. ThrottleTypeOK'
    BY DEF ThrottleInv, ThrottleTypeOK, RowFailed
<1>2. UNCHANGED <<res, rowAge, released, payer>>
    BY DEF RowFailed
<1>3. row'[c] = "none" /\ row[c] # "none" /\ RowsFail /\ \A d \in Claims \ {c} : row'[d] = row[d]
    BY DEF ThrottleInv, ThrottleTypeOK, RowFailed
<1>4. Fewer
    BY <1>2, <1>3 DEF Fewer, CombinedWindow, PayoutRows, Automatic, ThrottleAssumption
<1>5. Budgets'
    BY <1>4, FewerKeepsBudgets DEF ThrottleInv
<1>6. \A w \in Payers : payer[w].claim \in Claims
    BY DEF ThrottleInv, ThrottleTypeOK
<1>7. \A w \in Payers : payer[w].pc # "idle" => row'[payer[w].claim] = row[payer[w].claim]
    BY <1>3, <1>6 DEF ThrottleInv
<1>8. \A w \in Payers : payer'[w].pc = "permitted" => Reserved(payer[w].claim)'
    BY <1>2, <1>7 DEF ThrottleInv, Reserved, OverAutomaticLimit
<1>9. \A d \in Claims : row'[d] # "none" => ~OverAutomaticLimit(d)'
    BY <1>3 DEF ThrottleInv, OverAutomaticLimit
<1> QED BY <1>1, <1>2, <1>3, <1>5, <1>6, <1>7, <1>8, <1>9 DEF ThrottleInv

(* The row takes the place of the reservation that was held for it.         *)
LEMMA SubmitKeeps ==
    ASSUME ThrottleAssumption, ThrottleInv, RowsFail => OneEach,
           NEW w \in Payers, SubmitPermitted(w)
    PROVE  ThrottleInv'
<1> DEFINE c == payer[w].claim
<1>1. c \in Claims /\ payer[w].pc = "permitted" /\ UNCHANGED <<now, res, review, released>>
    BY DEF ThrottleInv, ThrottleTypeOK, SubmitPermitted
<1>2. Idle \in [pc : {"idle", "ready", "permitted"}, claim : Claims, held : 0 .. PermitTicks]
    <2>1. 0 \in 0 .. PermitTicks /\ (CHOOSE d \in Claims : TRUE) \in Claims
        BY DEF ThrottleAssumption
    <2> QED BY <2>1 DEF Idle
<1>3. payer' = [payer EXCEPT ![w] = Idle] /\ Idle.pc = "idle"
    BY DEF SubmitPermitted, Idle
<1>4. ThrottleTypeOK'
    <2>1. 0 \in Ages
        BY WindowsAreNat DEF Ages
    <2> QED BY <1>2, <1>3, <2>1 DEF ThrottleInv, ThrottleTypeOK, SubmitPermitted
<1>5. CASE review[c] \/ row[c] # "none"
    <2>1. UNCHANGED <<row, rowAge>>
        BY <1>5 DEF SubmitPermitted
    <2>2. \A v \in Payers : payer'[v].pc = "idle" \/ payer'[v] = payer[v]
        BY <1>3 DEF ThrottleInv, ThrottleTypeOK
    <2> QED BY <1>1, <1>4, <2>1, <2>2, QuietStepKeeps
<1>6. CASE ~review[c] /\ row[c] = "none"
    <2>1. row' = [row EXCEPT ![c] = "pending"] /\ rowAge' = [rowAge EXCEPT ![c] = 0]
        BY <1>6 DEF SubmitPermitted
    <2>2. /\ row'[c] = "pending" /\ rowAge'[c] = 0
          /\ \A d \in Claims \ {c} : row'[d] = row[d] /\ rowAge'[d] = rowAge[d]
        BY <1>1, <2>1 DEF ThrottleInv, ThrottleTypeOK
    <2>3. Reserved(c)
        BY <1>1 DEF ThrottleInv
    <2>4. res[c] # NoRes /\ res[c].short < Window /\ res[c].daily < DailyWindow
        BY <1>6, <2>3 DEF Reserved
    <2>5. c \in CombinedWindow(res, "short", Window) /\ c \in CombinedWindow(res, "daily", DailyWindow)
        BY <1>1, <2>4 DEF CombinedWindow
    <2>6. Fewer
        BY <1>1, <2>2, <2>4, <2>5 DEF Fewer, CombinedWindow, PayoutRows, Automatic, ThrottleAssumption
    <2>7. Budgets'
        BY <2>6, FewerKeepsBudgets DEF ThrottleInv
    <2>8. \A v \in Payers : payer'[v].pc # "idle" => payer'[v] = payer[v] /\ v # w
        BY <1>3 DEF ThrottleInv, ThrottleTypeOK
    <2>9. \A v \in Payers : payer[v].claim \in Claims
        BY DEF ThrottleInv, ThrottleTypeOK
    <2>10. \A v \in Payers : payer'[v].pc = "permitted" => Reserved(payer[v].claim)'
        BY <1>1, <2>2, <2>8, <2>9 DEF ThrottleInv, Reserved, OverAutomaticLimit
    <2>11. \A d \in Claims : row'[d] # "none" => ~OverAutomaticLimit(d)'
        BY <2>2, <2>3 DEF ThrottleInv, Reserved, OverAutomaticLimit
    <2>12. RowsFail => \A v \in Payers : payer'[v].pc # "idle" => row'[payer'[v].claim] = "none"
        <3> SUFFICES ASSUME RowsFail, NEW v \in Payers, payer'[v].pc # "idle"
                     PROVE  row'[payer'[v].claim] = "none"
            OBVIOUS
        <3>1. payer'[v] = payer[v] /\ v # w /\ payer[v].claim \in Claims
            BY <2>8, <2>9
        <3>2. payer[v].claim # c
            BY <1>1, <3>1 DEF OneEach
        <3> QED BY <2>2, <3>1, <3>2 DEF ThrottleInv
    <2> QED BY <1>4, <2>7, <2>10, <2>11, <2>12 DEF ThrottleInv
<1> QED BY <1>5, <1>6

(* Ages only grow, and no permit outlives its reservation: either the clock *)
(* does not move under a permit, or InTime says so.                         *)
LEMMA TickKeeps ==
    ASSUME ThrottleAssumption, PermitTicks = 0 \/ InTime', ThrottleInv, Tick
    PROVE  ThrottleInv'
<1>1. \A w \in Payers :
        /\ payer'[w].pc = payer[w].pc /\ payer'[w].claim = payer[w].claim
        /\ payer'[w] \in [pc : {"idle", "ready", "permitted"}, claim : Claims, held : 0 .. PermitTicks]
    <2> SUFFICES ASSUME NEW w \in Payers
                 PROVE  /\ payer'[w].pc = payer[w].pc /\ payer'[w].claim = payer[w].claim
                        /\ payer'[w] \in [pc : {"idle", "ready", "permitted"}, claim : Claims,
                                          held : 0 .. PermitTicks]
        OBVIOUS
    <2>1. payer[w] \in [pc : {"idle", "ready", "permitted"}, claim : Claims, held : 0 .. PermitTicks]
        BY DEF ThrottleInv, ThrottleTypeOK
    <2>2. CASE payer[w].pc = "permitted"
        <3>1. payer[w].held < PermitTicks /\ payer'[w] = [payer[w] EXCEPT !.held = @ + 1]
            BY <2>2 DEF Tick
        <3>2. payer[w].held + 1 \in 0 .. PermitTicks
            <4>1. PermitTicks \in Int /\ payer[w].held \in Int /\ payer[w].held >= 0
                BY <2>1, WindowsAreNat DEF ThrottleAssumption
            <4> QED BY <3>1, <4>1
        <3> QED BY <2>1, <3>1, <3>2
    <2>3. CASE payer[w].pc # "permitted"
        BY <2>1, <2>3 DEF Tick
    <2> QED BY <2>2, <2>3
<1>2. payer' \in [Payers -> [pc : {"idle", "ready", "permitted"}, claim : Claims, held : 0 .. PermitTicks]]
    BY <1>1 DEF Tick
<1>3. \A a \in Ages : Older(a) \in Ages /\ Older(a) >= a /\ 0 \in Ages /\ a \in Nat
    BY WindowsAreNat DEF Older, Ages
<1>4. UNCHANGED <<row, review, released>>
    BY DEF Tick
<1>5. \A c \in Claims :
        /\ (res'[c] = NoRes) <=> (res[c] = NoRes)
        /\ res'[c] \in {NoRes} \cup [short : Ages, daily : Ages, spot : Ages]
        /\ res[c] # NoRes => res'[c].short >= res[c].short /\ res'[c].daily >= res[c].daily
    <2> SUFFICES ASSUME NEW c \in Claims
                 PROVE  /\ (res'[c] = NoRes) <=> (res[c] = NoRes)
                        /\ res'[c] \in {NoRes} \cup [short : Ages, daily : Ages, spot : Ages]
                        /\ res[c] # NoRes => res'[c].short >= res[c].short /\ res'[c].daily >= res[c].daily
        OBVIOUS
    <2>1. res'[c] = OlderRes(res[c])
        BY DEF Tick
    <2>2. CASE res[c] = NoRes
        BY <2>1, <2>2 DEF OlderRes
    <2>3. CASE res[c] # NoRes
        <3>1. res[c] \in [short : Ages, daily : Ages, spot : Ages]
            BY <2>3 DEF ThrottleInv, ThrottleTypeOK
        <3>2. res'[c] = [short |-> Older(res[c].short), daily |-> Older(res[c].daily),
                         spot |-> Older(res[c].spot)]
            BY <2>1, <2>3 DEF OlderRes
        <3>3. res[c].short \in Ages /\ res[c].daily \in Ages /\ res[c].spot \in Ages
            BY <3>1
        <3>4. Older(res[c].short) \in Nat
            BY <1>3, <3>3
        <3>5. res'[c].short = Older(res[c].short) /\ NoRes.short = -1
            BY <3>2 DEF NoRes
        <3>6. res'[c] # NoRes
            BY <3>4, <3>5
        <3> QED BY <1>3, <2>3, <3>2, <3>3, <3>6
    <2> QED BY <2>2, <2>3
<1>6. \A c \in Claims : rowAge'[c] \in Ages /\ (row[c] # "none" => rowAge'[c] >= rowAge[c])
    BY <1>3 DEF ThrottleInv, ThrottleTypeOK, Tick
<1>7. ThrottleTypeOK'
    <2>1. now' \in 0 .. 1
        BY DEF ThrottleInv, ThrottleTypeOK, Tick
    <2>2. res' \in [Claims -> {NoRes} \cup [short : Ages, daily : Ages, spot : Ages]]
        BY <1>5 DEF Tick
    <2>3. rowAge' \in [Claims -> Ages]
        BY <1>6 DEF Tick
    <2> QED BY <1>2, <1>4, <2>1, <2>2, <2>3 DEF ThrottleInv, ThrottleTypeOK
<1>8. Fewer
    <2>1. PayoutRows(Window)' \subseteq PayoutRows(Window)
          /\ PayoutRows(DailyWindow)' \subseteq PayoutRows(DailyWindow)
        BY <1>4, <1>6, WindowsAreNat DEF PayoutRows, ThrottleInv, ThrottleTypeOK, Ages
    <2>2. \A c \in Claims : res[c] # NoRes => res[c].short \in Nat /\ res[c].daily \in Nat
                                              /\ res'[c].short \in Nat /\ res'[c].daily \in Nat
        BY <1>5, <1>3 DEF ThrottleInv, ThrottleTypeOK
    <2>3. \A c \in Claims : res'[c] # NoRes /\ res'[c].short < Window => res[c] # NoRes /\ res[c].short < Window
        BY <1>5, <2>2, WindowsAreNat
    <2>4. \A c \in Claims : res'[c] # NoRes /\ res'[c].daily < DailyWindow => res[c] # NoRes /\ res[c].daily < DailyWindow
        BY <1>5, <2>2, WindowsAreNat
    <2>5. Automatic' \subseteq Automatic
        BY <1>4, <1>5 DEF Automatic, ThrottleAssumption
    <2> QED BY <2>1, <2>3, <2>4, <2>5 DEF Fewer, CombinedWindow
<1>9. Budgets'
    BY <1>8, FewerKeepsBudgets DEF ThrottleInv
<1>10. \A w \in Payers : payer'[w].pc = "permitted" => Reserved(payer[w].claim)'
    <2> SUFFICES ASSUME NEW w \in Payers, payer'[w].pc = "permitted"
                 PROVE  Reserved(payer[w].claim)'
        OBVIOUS
    <2>1. CASE PermitTicks = 0
        <3>1. payer[w].pc = "permitted" /\ payer[w].held \in 0 .. PermitTicks /\ payer[w].held < PermitTicks
            BY <1>1 DEF ThrottleInv, ThrottleTypeOK, Tick
        <3> QED BY <2>1, <3>1
    <2>2. CASE InTime'
        <3>1. payer[w].claim \in Claims /\ payer'[w].claim = payer[w].claim /\ Reserved(payer[w].claim)
            BY <1>1 DEF ThrottleInv, ThrottleTypeOK
        <3>2. row'[payer[w].claim] = "none" =>
                /\ res'[payer[w].claim].short < Window
                /\ res'[payer[w].claim].daily < DailyWindow
            BY <2>2, <3>1 DEF InTime
        <3> QED BY <1>4, <1>5, <3>1, <3>2 DEF Reserved, OverAutomaticLimit
    <2> QED BY <2>1, <2>2
<1>11. \A d \in Claims : row'[d] # "none" => ~OverAutomaticLimit(d)'
    BY <1>4 DEF ThrottleInv, OverAutomaticLimit
<1>12. RowsFail => \A w \in Payers : payer'[w].pc # "idle" => row'[payer'[w].claim] = "none"
    BY <1>1, <1>4 DEF ThrottleInv
<1> QED BY <1>7, <1>9, <1>10, <1>11, <1>12 DEF ThrottleInv

-----------------------------------------------------------------------------
(* reserve_payout_slot                                                      *)

(* Pruning only forgets, and never what a permit still rests on.            *)
LEMMA PruningKeeps ==
    ASSUME ThrottleAssumption, ThrottleTypeOK
    PROVE  /\ PruneReservations \in [Claims -> {NoRes} \cup [short : Ages, daily : Ages, spot : Ages]]
           /\ \A d \in Claims : PruneReservations[d] = res[d] \/ PruneReservations[d] = NoRes
           /\ \A d \in Claims : row[d] = "none" /\ res[d] # NoRes /\ res[d].short < Window
                                    => PruneReservations[d] = res[d]
BY DEF ThrottleTypeOK, PruneReservations

(* What a call leaves in the table: what pruning kept and, if it let the    *)
(* claim through, a reservation that is inside every window.                *)
Admits(c) ==
    /\ c \notin PayoutRows(Max({Window, DailyWindow}))
    /\ ThrottleDecision([PruneReservations EXCEPT ![c] = NoRes], c)
    /\ SpotBudgetApplies(c) => SpotDecision([PruneReservations EXCEPT ![c] = NoRes], c)

LEMMA ReserveIs ==
    ASSUME ThrottleAssumption, ThrottleTypeOK, NEW w \in Payers, ReservePayoutSlot(w),
           NEW c, c = payer[w].claim
    PROVE  /\ UNCHANGED <<now, row, rowAge, released>>
           /\ review' \in [Claims -> BOOLEAN]
           /\ \/ /\ Admits(c)
                 /\ res' = [PruneReservations EXCEPT ![c] = res'[c]]
                 /\ res'[c] \in [short : Ages, daily : Ages, spot : Ages]
                 /\ res'[c].short < Window /\ res'[c].daily < DailyWindow
                 /\ payer' = [payer EXCEPT ![w] = [@ EXCEPT !.pc = "permitted"]]
              \/ /\ c \in PayoutRows(Max({Window, DailyWindow}))
                 /\ res' = PruneReservations
                 /\ payer' = [payer EXCEPT ![w] = [@ EXCEPT !.pc = "permitted"]]
              \/ /\ res' = PruneReservations
                 /\ payer' = [payer EXCEPT ![w] = Idle]
<1> DEFINE kept == PruneReservations
           others == [kept EXCEPT ![c] = NoRes]
           existing == kept[c] # NoRes
           materialised == c \in PayoutRows(Max({Window, DailyWindow}))
           global == ThrottleDecision(others, c)
           inShare == SpotBudgetApplies(c) => SpotDecision(others, c)
           allow == materialised \/ (global /\ inShare)
           marks == /\ ~materialised
                    /\ \/ OverAutomaticLimit(c)
                       \/ global /\ SpotBudgetApplies(c) /\ (existing => ~inShare)
           new == IF existing THEN Restamp(kept[c]) ELSE FreshReservation
<1>1. /\ res' = IF allow /\ ~materialised THEN [kept EXCEPT ![c] = new] ELSE kept
      /\ review' = [review EXCEPT ![c] = @ \/ marks]
      /\ payer' = [payer EXCEPT ![w] = IF allow THEN [@ EXCEPT !.pc = "permitted"] ELSE Idle]
      /\ UNCHANGED <<now, row, rowAge, released>>
    BY DEF ReservePayoutSlot
<1>2. c \in Claims /\ kept \in [Claims -> {NoRes} \cup [short : Ages, daily : Ages, spot : Ages]]
    BY PruningKeeps DEF ThrottleTypeOK
<1>3. new \in [short : Ages, daily : Ages, spot : Ages] /\ new.short < Window /\ new.daily < DailyWindow
    <2>1. 0 \in Ages /\ 0 < Window /\ 0 < DailyWindow
        BY WindowsAreNat DEF Ages
    <2> QED BY <1>2, <2>1 DEF Restamp, FreshReservation
<1>4. review' \in [Claims -> BOOLEAN]
    <2> HIDE DEF marks
    <2>1. review \in [Claims -> BOOLEAN]
        BY DEF ThrottleTypeOK
    <2>2. (review[c] \/ marks) \in BOOLEAN
        OBVIOUS
    <2> QED BY <1>1, <2>1, <2>2
<1>5. Admits(c) <=> (~materialised /\ global /\ inShare)
    BY DEF Admits
<1> HIDE DEF kept, new, materialised, global, inShare
<1>6. CASE ~materialised /\ global /\ inShare
    <2>1. res' = [kept EXCEPT ![c] = new] /\ payer' = [payer EXCEPT ![w] = [@ EXCEPT !.pc = "permitted"]]
        BY <1>1, <1>6
    <2>2. res'[c] = new
        BY <1>2, <2>1
    <2>3. res' = [kept EXCEPT ![c] = res'[c]]
        BY <2>1, <2>2
    <2> QED BY <1>1, <1>3, <1>4, <1>5, <1>6, <2>1, <2>2, <2>3 DEF kept
<1>7. CASE materialised
    <2>1. res' = kept /\ payer' = [payer EXCEPT ![w] = [@ EXCEPT !.pc = "permitted"]]
        BY <1>1, <1>7
    <2> QED BY <1>1, <1>4, <1>7, <2>1 DEF kept, materialised
<1>8. CASE ~materialised /\ ~(global /\ inShare)
    <2>1. res' = kept /\ payer' = [payer EXCEPT ![w] = Idle]
        BY <1>1, <1>8
    <2> QED BY <1>1, <1>4, <2>1 DEF kept
<1> QED BY <1>6, <1>7, <1>8

LEMMA ReserveKeepsTypes ==
    ASSUME ThrottleAssumption, ThrottleTypeOK, NEW w \in Payers, ReservePayoutSlot(w)
    PROVE  ThrottleTypeOK'
<1> DEFINE c == payer[w].claim
<1>1. c \in Claims
    BY DEF ThrottleTypeOK
<1>2. Idle \in [pc : {"idle", "ready", "permitted"}, claim : Claims, held : 0 .. PermitTicks]
    <2>1. 0 \in 0 .. PermitTicks /\ (CHOOSE d \in Claims : TRUE) \in Claims
        BY DEF ThrottleAssumption
    <2> QED BY <2>1 DEF Idle
<1>3. payer' \in [Payers -> [pc : {"idle", "ready", "permitted"}, claim : Claims, held : 0 .. PermitTicks]]
    <2>1. \/ payer' = [payer EXCEPT ![w] = [@ EXCEPT !.pc = "permitted"]]
          \/ payer' = [payer EXCEPT ![w] = Idle]
        BY ReserveIs
    <2> QED BY <1>2, <2>1 DEF ThrottleTypeOK
<1>4. res' \in [Claims -> {NoRes} \cup [short : Ages, daily : Ages, spot : Ages]]
    <2> HIDE DEF c
    <2>1. res' = PruneReservations \/ (/\ res' = [PruneReservations EXCEPT ![c] = res'[c]]
                                       /\ res'[c] \in [short : Ages, daily : Ages, spot : Ages])
        BY ReserveIs DEF c
    <2> QED BY <1>1, <2>1, PruningKeeps
<1>5. UNCHANGED <<now, row, rowAge, released>> /\ review' \in [Claims -> BOOLEAN]
    BY ReserveIs
<1> QED BY <1>3, <1>4, <1>5 DEF ThrottleTypeOK

(* The claim that was let through is all that the budgets count anew.       *)
LEMMA AdmittedKeepsBudgets ==
    ASSUME ThrottleAssumption, ThrottleTypeOK, Budgets, NEW c \in Claims, Admits(c),
           UNCHANGED <<row, rowAge, released>>,
           res' = [PruneReservations EXCEPT ![c] = res'[c]]
    PROVE  Budgets'
<1> DEFINE others == [PruneReservations EXCEPT ![c] = NoRes]
<1>1. \A d \in Claims \ {c} : res'[d] = others[d]
    BY PruningKeeps
<1>2. \A d \in Claims : others[d] # NoRes => res[d] # NoRes /\ others[d] = res[d]
    BY PruningKeeps
<1>3. ThrottleDecision(others, c) /\ (SpotBudgetApplies(c) => SpotDecision(others, c))
    BY DEF Admits
<1>4. \A d \in Claims : d = c \/ res'[d] = NoRes \/ res'[d] = res[d]
    BY <1>1, <1>2
<1> HIDE DEF others
<1>5. Budgeted(CombinedWindow(res, "short", Window)', MaxPayoutCount, MaxPayoutLuna)
    <2>1. CombinedWindow(res, "short", Window)' \subseteq CombinedWindow(others, "short", Window) \cup {c}
        BY <1>1 DEF CombinedWindow, PayoutRows
    <2>2. WithinLimits(CombinedWindow(others, "short", Window), c, MaxPayoutCount, MaxPayoutLuna)
        BY <1>3 DEF ThrottleDecision
    <2>3. CombinedWindow(others, "short", Window) \in SUBSET Claims
        BY DEF CombinedWindow, PayoutRows
    <2> QED BY <2>1, <2>2, <2>3, BudgetGrows, LimitsAreNat
<1>6. Budgeted(CombinedWindow(res, "daily", DailyWindow)', DailyMaxPayoutCount, DailyMaxPayoutLuna)
    <2>1. CombinedWindow(res, "daily", DailyWindow)' \subseteq CombinedWindow(others, "daily", DailyWindow) \cup {c}
        BY <1>1 DEF CombinedWindow, PayoutRows
    <2>2. WithinLimits(CombinedWindow(others, "daily", DailyWindow), c, DailyMaxPayoutCount, DailyMaxPayoutLuna)
        BY <1>3 DEF ThrottleDecision
    <2>3. CombinedWindow(others, "daily", DailyWindow) \in SUBSET Claims
        BY DEF CombinedWindow, PayoutRows
    <2> QED BY <2>1, <2>2, <2>3, BudgetGrows, LimitsAreNat
<1>7. Budgeted(Automatic', LifetimeMaxCount, LifetimeMaxLuna)
    <2>1. Automatic \in SUBSET Claims
        BY DEF Automatic, ThrottleAssumption
    <2>2. \A d \in Automatic' : d = c \/ d \in Automatic
        BY <1>4 DEF Automatic
    <2>3. CASE c \notin Automatic' \/ c \in Automatic
        <3>1. Automatic' \subseteq Automatic
            BY <2>2, <2>3
        <3> QED BY <2>1, <3>1, BudgetShrinks, LimitsAreNat DEF Budgets
    <2>4. CASE c \in Automatic' /\ c \notin Automatic
        <3> DEFINE counted == LifetimePayoutRows \cup {d \in OpenClaims : others[d] # NoRes}
        <3>1. SpotBudgetApplies(c)
            BY <2>4 DEF Automatic, SpotBudgetApplies
        <3>2. WithinLimits(counted, c, LifetimeMaxCount, LifetimeMaxLuna)
            <4>1. SpotDecision(others, c)
                BY <1>3, <3>1
            <4>2. SpotLifetimeDecision(others, c)
                BY <2>4, <3>1, <4>1 DEF SpotDecision, SpotBudgetApplies, Automatic
            <4> QED BY <4>2 DEF SpotLifetimeDecision
        <3>3. counted \in SUBSET Claims
            BY DEF LifetimePayoutRows, ThrottleAssumption
        <3>4. Automatic' \subseteq counted \cup {c}
            BY <1>1 DEF Automatic, LifetimePayoutRows, ThrottleAssumption
        <3> HIDE DEF counted
        <3> QED BY <3>2, <3>3, <3>4, BudgetGrows, LimitsAreNat
    <2> QED BY <2>3, <2>4
<1> QED BY <1>5, <1>6, <1>7 DEF Budgets, Budgeted, LunaOf, LifetimeMaxCount, LifetimeMaxLuna

LEMMA ReserveKeeps ==
    ASSUME ThrottleAssumption, ThrottleInv, NEW w \in Payers, ReservePayoutSlot(w)
    PROVE  ThrottleInv'
<1> DEFINE c == payer[w].claim
<1>1. ThrottleTypeOK /\ ThrottleTypeOK' /\ c \in Claims /\ payer[w].pc = "ready" /\ Budgets
    BY ReserveKeepsTypes DEF ThrottleInv, ThrottleTypeOK, ReservePayoutSlot
<1>2. UNCHANGED <<row, rowAge, released>>
    BY <1>1, ReserveIs
<1>3. \/ /\ Admits(c)
         /\ res' = [PruneReservations EXCEPT ![c] = res'[c]]
         /\ res'[c] \in [short : Ages, daily : Ages, spot : Ages]
         /\ res'[c].short < Window /\ res'[c].daily < DailyWindow
         /\ payer' = [payer EXCEPT ![w] = [@ EXCEPT !.pc = "permitted"]]
      \/ /\ c \in PayoutRows(Max({Window, DailyWindow}))
         /\ res' = PruneReservations
         /\ payer' = [payer EXCEPT ![w] = [@ EXCEPT !.pc = "permitted"]]
      \/ /\ res' = PruneReservations
         /\ payer' = [payer EXCEPT ![w] = Idle]
    BY <1>1, ReserveIs
<1>4. Budgets'
    <2>1. CASE res' = PruneReservations
        <3>1. \A d \in Claims : res'[d] = NoRes \/ res'[d] = res[d]
            BY <1>1, <2>1, PruningKeeps
        <3>2. Fewer
            BY <1>2, <3>1 DEF Fewer, CombinedWindow, PayoutRows, Automatic, ThrottleAssumption
        <3> QED BY <1>1, <3>2, FewerKeepsBudgets
    <2>2. CASE Admits(c) /\ res' = [PruneReservations EXCEPT ![c] = res'[c]]
        BY <1>1, <1>2, <2>2, AdmittedKeepsBudgets
    <2> QED BY <1>3, <2>1, <2>2
<1>5. /\ \A v \in Payers \ {w} : payer'[v] = payer[v]
      /\ payer'[w].pc # "idle" => payer'[w].claim = c
    BY <1>1, <1>3 DEF ThrottleTypeOK, Idle
<1>6. \A d \in Claims : Reserved(d) => Reserved(d)'
    <2> SUFFICES ASSUME NEW d \in Claims, Reserved(d) PROVE Reserved(d)'
        OBVIOUS
    <2>1. ~OverAutomaticLimit(d)'
        BY DEF Reserved, OverAutomaticLimit
    <2>2. CASE row[d] = "none"
        <3>1. PruneReservations[d] = res[d] /\ res[d] # NoRes /\ res[d].short < Window /\ res[d].daily < DailyWindow
            BY <1>1, <2>2, PruningKeeps DEF Reserved
        <3>2. CASE res'[d] = PruneReservations[d]
            BY <1>2, <2>1, <3>1, <3>2 DEF Reserved
        <3>3. CASE /\ d = c /\ res'[c] \in [short : Ages, daily : Ages, spot : Ages]
                   /\ res'[c].short < Window /\ res'[c].daily < DailyWindow
            <4>1. res'[c].short \in Nat /\ NoRes.short = -1
                BY <3>3, WindowsAreNat DEF NoRes, Ages
            <4>2. res'[c] # NoRes
                BY <4>1
            <4> QED BY <2>1, <3>3, <4>2 DEF Reserved
        <3>4. d # c => res'[d] = PruneReservations[d]
            BY <1>1, <1>3, PruningKeeps
        <3> QED BY <1>3, <3>2, <3>3, <3>4
    <2>3. CASE row[d] # "none"
        BY <1>2, <2>1, <2>3 DEF Reserved
    <2> QED BY <2>2, <2>3
<1>7. payer'[w].pc = "permitted" => Reserved(c)'
    <2> SUFFICES ASSUME payer'[w].pc = "permitted" PROVE Reserved(c)'
        OBVIOUS
    <2>4. payer'[w].claim = payer[w].claim
        BY <1>5
    <2>1. CASE payer' = [payer EXCEPT ![w] = Idle]
        BY <1>1, <2>1 DEF ThrottleTypeOK, Idle
    <2>2. CASE c \in PayoutRows(Max({Window, DailyWindow}))
        <3>1. row[c] # "none"
            BY <2>2 DEF PayoutRows
        <3>2. ~OverAutomaticLimit(c)
            BY <1>1, <3>1 DEF ThrottleInv
        <3> QED BY <1>2, <2>4, <3>1, <3>2 DEF Reserved, OverAutomaticLimit
    <2>3. CASE /\ Admits(c) /\ res'[c] \in [short : Ages, daily : Ages, spot : Ages]
               /\ res'[c].short < Window /\ res'[c].daily < DailyWindow
        <3>1. ~OverAutomaticLimit(c)
            BY <2>3 DEF Admits, ThrottleDecision
        <3>2. res'[c].short \in Nat /\ NoRes.short = -1
            BY <2>3, WindowsAreNat DEF NoRes, Ages
        <3>3. res'[c] # NoRes
            BY <3>2
        <3> QED BY <2>3, <2>4, <3>1, <3>3 DEF Reserved, OverAutomaticLimit
    <2> QED BY <1>3, <2>1, <2>2, <2>3
<1>8. \A v \in Payers : payer'[v].pc = "permitted" => Reserved(payer[v].claim)'
    <2>1. \A v \in Payers : payer[v].claim \in Claims
        BY <1>1 DEF ThrottleTypeOK
    <2>2. \A v \in Payers : payer[v].pc = "permitted" => Reserved(payer[v].claim)
        BY DEF ThrottleInv
    <2>3. \A v \in Payers \ {w} : payer'[v].pc = "permitted" => Reserved(payer[v].claim)'
                                                                /\ payer'[v] = payer[v]
        BY <1>5, <1>6, <2>1, <2>2 DEF Reserved, OverAutomaticLimit
    <2>4. payer'[w].pc = "permitted" => Reserved(payer[w].claim)'
        BY <1>5, <1>7 DEF Reserved, OverAutomaticLimit
    <2> QED BY <2>3, <2>4
<1>9. \A d \in Claims : row'[d] # "none" => ~OverAutomaticLimit(d)'
    BY <1>2 DEF ThrottleInv, OverAutomaticLimit
<1>10. RowsFail => \A v \in Payers : payer'[v].pc # "idle" => row'[payer'[v].claim] = "none"
    BY <1>1, <1>2, <1>5 DEF ThrottleInv
<1> QED BY <1>1, <1>4, <1>8, <1>9, <1>10 DEF ThrottleInv

-----------------------------------------------------------------------------
(* One step keeps the invariant, given timely permits and one worker a claim.  *)
LEMMA ThrottleStepKeeps ==
    ASSUME ThrottleAssumption, PermitTicks = 0 \/ InTime',
           ThrottleInv, RowsFail => OneEach, [ThrottleNext]_throttleVars
    PROVE  ThrottleInv'
<1>1. CASE UNCHANGED throttleVars
    <2>1. ThrottleTypeOK'
        BY <1>1 DEF throttleVars, ThrottleInv, ThrottleTypeOK
    <2>2. UNCHANGED <<res, row, rowAge, released>> /\ \A w \in Payers : payer'[w] = payer[w]
        BY <1>1 DEF throttleVars
    <2> QED BY <2>1, <2>2, QuietStepKeeps
<1>2. ASSUME NEW w \in Payers, NEW c \in Claims, BeginPayout(w, c) PROVE ThrottleInv'
    BY <1>2, BeginPayoutKeeps
<1>3. ASSUME NEW w \in Payers, ReservePayoutSlot(w) PROVE ThrottleInv'
    BY <1>3, ReserveKeeps
<1>4. ASSUME NEW w \in Payers, SubmitPermitted(w) PROVE ThrottleInv'
    BY <1>4, SubmitKeeps
<1>5. ASSUME NEW c \in Claims, RowConfirmed(c) PROVE ThrottleInv'
    BY <1>5, ConfirmedKeeps
<1>6. ASSUME NEW c \in Claims, RowFailed(c) PROVE ThrottleInv'
    BY <1>6, FailedKeeps
<1>7. ASSUME NEW c \in Claims, ReleaseReview(c) PROVE ThrottleInv'
    BY <1>7, ReleaseKeeps
<1>8. CASE Tick
    BY <1>8, TickKeeps
<1>9. CASE WorkersCrash
    BY <1>9, CrashKeeps
<1> QED BY <1>1, <1>2, <1>3, <1>4, <1>5, <1>6, <1>7, <1>8, <1>9 DEF ThrottleNext, WorkerStep

LEMMA ThrottleInvKeepsLimits ==
    ASSUME ThrottleAssumption, ThrottleInv
    PROVE  PayoutLimitsKept
<1>1. Budgets /\ \A c \in Claims : row[c] # "none" => ~OverAutomaticLimit(c)
    BY DEF ThrottleInv
<1>2. Budgeted(PayoutRows(Window), MaxPayoutCount, MaxPayoutLuna)
    <2>1. CombinedWindow(res, "short", Window) \in SUBSET Claims
          /\ PayoutRows(Window) \subseteq CombinedWindow(res, "short", Window)
        BY DEF CombinedWindow, PayoutRows
    <2> QED BY <1>1, <2>1, BudgetShrinks, LimitsAreNat DEF Budgets
<1>3. Budgeted(PayoutRows(DailyWindow), DailyMaxPayoutCount, DailyMaxPayoutLuna)
    <2>1. CombinedWindow(res, "daily", DailyWindow) \in SUBSET Claims
          /\ PayoutRows(DailyWindow) \subseteq CombinedWindow(res, "daily", DailyWindow)
        BY DEF CombinedWindow, PayoutRows
    <2> QED BY <1>1, <2>1, BudgetShrinks, LimitsAreNat DEF Budgets
<1>4. WindowsHold
    BY <1>1, <1>2, <1>3 DEF WindowsHold, Budgeted
<1>5. LifetimeShareKept
    BY <1>1 DEF LifetimeShareKept, Budgets, Budgeted, Automatic
<1> QED BY <1>4, <1>5 DEF PayoutLimitsKept

(* For any claims, amounts, windows and limits, however workers, retries,   *)
(* crashes and releases from review interleave: the payouts inserted within *)
(* a window stay inside their count and amount, none above the automatic    *)
(* ceiling is inserted, and what an Open Spot reserved or paid without an   *)
(* operator stays inside its lifetime share.  Two things are asked of the   *)
(* behaviour: no reservation runs out under a permit, and, where payouts    *)
(* may fail on chain, no two workers are at one claim: the README says what *)
(* happens otherwise.                                                       *)
THEOREM ThrottleKeepsLimits ==
    ASSUME ThrottleAssumption
    PROVE  ThrottleSpec /\ []InTime /\ [](RowsFail => OneEach) => []PayoutLimitsKept
<1>1. ThrottleInit => ThrottleInv
    BY ThrottleInvInit
<1>2. ThrottleInv /\ InTime' /\ (RowsFail => OneEach) /\ [ThrottleNext]_throttleVars => ThrottleInv'
    BY ThrottleStepKeeps
<1>3. ThrottleInv => PayoutLimitsKept
    BY ThrottleInvKeepsLimits
<1> QED BY <1>1, <1>2, <1>3, PTL DEF ThrottleSpec

(* A permit that is used before the clock moves is always in time.          *)
THEOREM PromptThrottleKeepsLimits ==
    ASSUME ThrottleAssumption, PermitTicks = 0
    PROVE  ThrottleSpec /\ [](RowsFail => OneEach) => []PayoutLimitsKept
<1>1. ThrottleInit => ThrottleInv
    BY ThrottleInvInit
<1>2. ThrottleInv /\ (RowsFail => OneEach) /\ [ThrottleNext]_throttleVars => ThrottleInv'
    BY ThrottleStepKeeps
<1>3. ThrottleInv => PayoutLimitsKept
    BY ThrottleInvKeepsLimits
<1> QED BY <1>1, <1>2, <1>3, PTL DEF ThrottleSpec
=============================================================================
