-------------------------- MODULE SpotMoney_proofs --------------------------
(***************************************************************************)
(* Proofs that a Spot never commits more than its confirmed deposits and   *)
(* ends with nothing missing and nothing left, and that it implements      *)
(* SpotEscrow.  They hold of every behaviour in which no ban lands between *)
(* the status read and the intent of a remainder refund, and no duration   *)
(* claim is still waiting when a cancellation is planned: NoRace.  The     *)
(* model's own counterexamples use nothing else.  What the first race can  *)
(* cost, and what no race can touch, is proved after them.                 *)
(***************************************************************************)
EXTENDS SpotLedger_proofs

NoLateClaim ==
    cancel.pc = "planned" \/ status = "cancelled" => \A c \in Claims : claim[c] # "pending"

NoRace == NoLateClaim /\ (status = "banned" => remainder.pc # "checked")

-----------------------------------------------------------------------------
(* Sums over the table *)

SumOf(slots, sts) == AmountOf(trans, TransIds, slots, sts)

Live == {"pending", "confirmed"}

Active(slots) == SumOf(slots, Live)

Confirmed(slots) == SumOf(slots, {"confirmed"})

(* The amount column of a table, and the rows a sum selects from it. *)
LEMMA Column ==
    ASSUME NEW tab \in [TransIds -> Rows], NEW slots, NEW sts
    PROVE  /\ \A t \in TransIds : AmountColumn(tab)[t] \in Nat
           /\ \A t \in TransIds : AmountColumn(tab)[t] = tab[t].amount
           /\ IsFiniteSet(Rowset(tab, TransIds, slots, sts))
           /\ Rowset(tab, TransIds, slots, sts) \subseteq TransIds
           /\ AmountOf(tab, TransIds, slots, sts)
                = Sum(AmountColumn(tab), Rowset(tab, TransIds, slots, sts))
<1>1. Rowset(tab, TransIds, slots, sts) \subseteq TransIds
    BY DEF Rowset
<1> QED BY <1>1, AmountNat, AmountOfIsSum

(* A sum is the sum of the amount column over the rows it selects. *)
LEMMA SumIs ==
    ASSUME SpotTypeOK, NEW slots, NEW sts
    PROVE  /\ SumOf(slots, sts) = Sum(AmountColumn(trans), Rowset(trans, TransIds, slots, sts))
           /\ SumOf(slots, sts) \in Nat
           /\ IsFiniteSet(Rowset(trans, TransIds, slots, sts))
           /\ Rowset(trans, TransIds, slots, sts) \subseteq TransIds
           /\ \A t \in TransIds : AmountColumn(trans)[t] \in Nat /\ AmountColumn(trans)[t] = trans[t].amount
<1>1. trans \in [TransIds -> Rows]
    BY DEF SpotTypeOK, TypeOK
<1> QED BY <1>1, AmountNat, AmountOfIsSum DEF SumOf, Rowset

(* The names of the model for these sums. *)
LEMMA Names ==
    /\ DepositTotal = Confirmed({Deposit})
    /\ Committed = Active(Payouts)
    /\ Spent = Confirmed(Payouts)
BY DEF DepositTotal, ConfirmedIn, Confirmed, SumOf, Committed, Active, Live, Spent

(* Slots that have no row in common add up. *)
LEMMA SumSplit ==
    ASSUME SpotTypeOK, NEW S, NEW T, S \cap T = {}, NEW sts
    PROVE  SumOf(S \cup T, sts) = SumOf(S, sts) + SumOf(T, sts)
<1> DEFINE A == Rowset(trans, TransIds, S, sts)
           B == Rowset(trans, TransIds, T, sts)
           f == AmountColumn(trans)
<1>1. Rowset(trans, TransIds, S \cup T, sts) = A \cup B /\ A \cap B = {}
    BY DEF Rowset
<1>2. /\ IsFiniteSet(A) /\ IsFiniteSet(B) /\ \A t \in A \cup B : f[t] \in Nat
      /\ SumOf(S, sts) = Sum(f, A) /\ SumOf(T, sts) = Sum(f, B)
      /\ SumOf(S \cup T, sts) = Sum(f, Rowset(trans, TransIds, S \cup T, sts))
    BY SumIs
<1> HIDE DEF A, B, f
<1>3. Sum(f, A \cup B) = Sum(f, A) + Sum(f, B)
    BY <1>1, <1>2, SumUnion
<1> QED BY <1>1, <1>2, <1>3

(* Fewer slots or statuses give no more; no row gives nothing. *)
LEMMA SumGrows ==
    ASSUME SpotTypeOK, NEW S, NEW T, S \subseteq T, NEW sts, NEW sts2, sts \subseteq sts2
    PROVE  SumOf(S, sts) =< SumOf(T, sts2)
<1>1. Rowset(trans, TransIds, S, sts) \subseteq Rowset(trans, TransIds, T, sts2)
    BY DEF Rowset
<1>2. \A t \in Rowset(trans, TransIds, T, sts2) : AmountColumn(trans)[t] \in Nat
    BY SumIs
<1>3. \A t \in Rowset(trans, TransIds, S, sts) : /\ AmountColumn(trans)[t] \in Nat
                                                 /\ AmountColumn(trans)[t] =< AmountColumn(trans)[t]
    BY <1>1, <1>2
<1>4. IsFiniteSet(Rowset(trans, TransIds, T, sts2))
    BY SumIs
<1>5. Sum(AmountColumn(trans), Rowset(trans, TransIds, S, sts))
        =< Sum(AmountColumn(trans), Rowset(trans, TransIds, T, sts2))
    BY <1>1, <1>2, <1>3, <1>4, SumMonotone
<1> QED BY <1>5, SumIs

LEMMA SumNone ==
    ASSUME SpotTypeOK, NEW S, NEW sts, \A t \in TransIds : ~ (trans[t].slot \in S /\ trans[t].status \in sts)
    PROVE  SumOf(S, sts) = 0
<1>1. Rowset(trans, TransIds, S, sts) = {}
    BY DEF Rowset
<1> QED BY <1>1, SumIs, SumType

(* Without pending rows, what is committed is what is confirmed. *)
LEMMA SumSettled ==
    ASSUME SpotTypeOK, NEW S, ~PendingIn(TransIds, S)
    PROVE  Active(S) = Confirmed(S)
<1>1. Rowset(trans, TransIds, S, Live) = Rowset(trans, TransIds, S, {"confirmed"})
    BY DEF Rowset, PendingIn, Live
<1> QED BY <1>1, SumIs DEF Active, Confirmed

-----------------------------------------------------------------------------
(* Sums and steps *)

LEMMA SumKept ==
    ASSUME SpotTypeOK, SpotTypeOK', RowsKept, NEW S, NEW sts
    PROVE  SumOf(S, sts)' = SumOf(S, sts)
<1>1. AmountOf(trans, TransIds, S, sts)' = AmountOf(trans, TransIds, S, sts)
    BY SumUntouched DEF RowsKept
<1> QED BY <1>1 DEF SumOf, AmountOf

(* A new row counts where its slot counts, as pending. *)
LEMMA SumAdded ==
    ASSUME SpotTypeOK, SpotTypeOK', NEW s, NEW a, NEW h, RowAdded(s, a, h), NEW S
    PROVE  /\ Confirmed(S)' = Confirmed(S)
           /\ s \notin S => Active(S)' = Active(S)
           /\ s \in S => Active(S)' = Active(S) + a /\ a \in Nat
<1>1. Confirmed(S)' = Confirmed(S)
    <2>1. AmountOf(trans, TransIds, S, {"confirmed"})' = AmountOf(trans, TransIds, S, {"confirmed"})
        BY SumUntouched DEF RowAdded, Row, NoRow
    <2> QED BY <2>1 DEF Confirmed, SumOf, AmountOf
<1>2. ASSUME s \notin S PROVE Active(S)' = Active(S)
    <2>1. AmountOf(trans, TransIds, S, Live)' = AmountOf(trans, TransIds, S, Live)
        BY <1>2, SumUntouched DEF RowAdded, Row, NoRow, Live
    <2> QED BY <2>1 DEF Active, SumOf, AmountOf
<1>3. ASSUME s \in S PROVE Active(S)' = Active(S) + a /\ a \in Nat
    <2> DEFINE n == count + 1
               R == Rowset(trans, TransIds, S, Live)
               R2 == Rowset(trans', TransIds, S, Live)
               f == AmountColumn(trans)
               g == AmountColumn(trans')
    <2>0. trans \in [TransIds -> Rows] /\ trans' \in [TransIds -> Rows]
        BY DEF SpotTypeOK, TypeOK
    <2>1. R2 = R \cup {n} /\ n \notin R
        BY <1>3 DEF RowAdded, Row, NoRow, Rowset, Live
    <2>a. /\ IsFiniteSet(R) /\ R \subseteq TransIds
          /\ \A t \in TransIds : f[t] \in Nat /\ f[t] = trans[t].amount
        BY <2>0, Column
    <2>b. \A t \in TransIds : g[t] \in Nat /\ g[t] = trans'[t].amount
        BY <2>0, Column
    <2>2. /\ IsFiniteSet(R) /\ R \subseteq TransIds /\ n \in TransIds
          /\ \A t \in TransIds : f[t] \in Nat /\ f[t] = trans[t].amount
          /\ \A t \in TransIds : g[t] \in Nat /\ g[t] = trans'[t].amount
        BY <2>a, <2>b DEF RowAdded
    <2>3. \A t \in R : f[t] \in Nat /\ g[t] = f[t]
        BY <2>1, <2>2 DEF RowAdded
    <2>4. g[n] = a /\ a \in Nat
        BY <2>2 DEF RowAdded, Row
    <2>5. Active(S) = Sum(f, R)
        BY SumIs DEF Active
    <2>6. AmountOf(trans', TransIds, S, Live) = Sum(g, R2)
        BY <2>0, AmountOfIsSum
    <2>7. Active(S)' = Sum(g, R2)
        BY <2>6 DEF Active, SumOf, AmountOf, Live
    <2> HIDE DEF n, R, R2, f, g
    <2>8. Sum(f, R) = Sum(g, R)
        BY <2>2, <2>3, SumSame
    <2>9. \A t \in R : g[t] \in Nat
        BY <2>3
    <2>10. Sum(g, R \cup {n}) = g[n] + Sum(g, R)
        BY <2>1, <2>2, <2>4, <2>9, SumAdd
    <2>11. Sum(g, R) \in Nat
        BY <2>2, <2>9, SumType
    <2> QED BY <2>1, <2>4, <2>5, <2>7, <2>8, <2>10, <2>11
<1> QED BY <1>1, <1>2, <1>3

(* A finalised payment is no more committed than before, a finalised        *)
(* deposit only adds to the deposits.                                       *)
LEMMA SumFinalised ==
    ASSUME SpotTypeOK, SpotTypeOK', NEW u \in TransIds, RowFinalised(u)
    PROVE  /\ \A S \in SUBSET Payouts : Active(S)' =< Active(S)
           /\ \A S : trans[u].slot \notin S =>
                 Active(S)' = Active(S) /\ Confirmed(S)' = Confirmed(S)
           /\ DepositTotal' >= DepositTotal
<1>0. trans \in [TransIds -> Rows] /\ trans' \in [TransIds -> Rows]
    BY DEF SpotTypeOK, TypeOK
<1>1. ASSUME NEW S \in SUBSET Payouts PROVE Active(S)' =< Active(S)
    <2>1. Rowset(trans', TransIds, S, Live) \subseteq Rowset(trans, TransIds, S, Live)
        BY DEF RowFinalised, Rowset, Live
    <2>2. \A t \in Rowset(trans', TransIds, S, Live) : trans'[t].amount = trans[t].amount
        BY DEF RowFinalised, Rowset
    <2>a. /\ \A t \in TransIds : AmountColumn(trans)[t] \in Nat /\ AmountColumn(trans)[t] = trans[t].amount
          /\ IsFiniteSet(Rowset(trans, TransIds, S, Live))
          /\ Rowset(trans, TransIds, S, Live) \subseteq TransIds
        BY <1>0, Column
    <2>b. \A t \in TransIds :
             AmountColumn(trans')[t] \in Nat /\ AmountColumn(trans')[t] = trans'[t].amount
        BY <1>0, Column
    <2>3. /\ \A t \in TransIds : AmountColumn(trans)[t] \in Nat /\ AmountColumn(trans)[t] = trans[t].amount
          /\ \A t \in TransIds :
                AmountColumn(trans')[t] \in Nat /\ AmountColumn(trans')[t] = trans'[t].amount
          /\ IsFiniteSet(Rowset(trans, TransIds, S, Live))
          /\ Rowset(trans, TransIds, S, Live) \subseteq TransIds
        BY <2>a, <2>b
    <2>4. \A t \in Rowset(trans', TransIds, S, Live) :
            AmountColumn(trans')[t] \in Nat /\ AmountColumn(trans')[t] =< AmountColumn(trans)[t]
        BY <2>1, <2>2, <2>3
    <2>5. Sum(AmountColumn(trans'), Rowset(trans', TransIds, S, Live))
            =< Sum(AmountColumn(trans), Rowset(trans, TransIds, S, Live))
        BY <2>1, <2>3, <2>4, SumMonotone
    <2>6. AmountOf(trans', TransIds, S, Live) =< AmountOf(trans, TransIds, S, Live)
        BY <1>0, <2>5, AmountOfIsSum
    <2> QED BY <2>6 DEF Active, SumOf, AmountOf, Live
<1>2. ASSUME NEW S, trans[u].slot \notin S
      PROVE  Active(S)' = Active(S) /\ Confirmed(S)' = Confirmed(S)
    <2>1. AmountOf(trans, TransIds, S, Live)' = AmountOf(trans, TransIds, S, Live)
        BY <1>2, SumUntouched DEF RowFinalised
    <2>2. AmountOf(trans, TransIds, S, {"confirmed"})' = AmountOf(trans, TransIds, S, {"confirmed"})
        BY <1>2, SumUntouched DEF RowFinalised
    <2> QED BY <2>1, <2>2 DEF Active, Confirmed, SumOf, AmountOf, Live
<1>3. DepositTotal' >= DepositTotal
    <2> DEFINE R == Rowset(trans, TransIds, {Deposit}, {"confirmed"})
               R2 == Rowset(trans', TransIds, {Deposit}, {"confirmed"})
               f == AmountColumn(trans)
               g == AmountColumn(trans')
    <2>1. R \subseteq R2
        BY DEF RowFinalised, Rowset
    <2>a. \A t \in TransIds : f[t] \in Nat /\ f[t] = trans[t].amount
        BY <1>0, Column
    <2>b. /\ \A t \in TransIds : g[t] \in Nat /\ g[t] = trans'[t].amount
          /\ IsFiniteSet(R2) /\ R2 \subseteq TransIds
        BY <1>0, Column
    <2>2. /\ \A t \in TransIds : f[t] \in Nat /\ f[t] = trans[t].amount
          /\ \A t \in TransIds : g[t] \in Nat /\ g[t] = trans'[t].amount
          /\ IsFiniteSet(R2) /\ R2 \subseteq TransIds
        BY <2>a, <2>b
    <2>3. \A t \in R : f[t] \in Nat /\ f[t] =< g[t]
        <3> SUFFICES ASSUME NEW t \in R PROVE f[t] \in Nat /\ f[t] =< g[t]
            OBVIOUS
        <3>1. trans'[t] = trans[t] /\ t \in TransIds
            BY DEF RowFinalised, Rowset
        <3>2. f[t] \in Nat /\ f[t] = trans[t].amount /\ g[t] = trans'[t].amount
            BY <2>2, <3>1
        <3> HIDE DEF f, g, R
        <3>3. f[t] = g[t]
            BY <3>1, <3>2
        <3> QED BY <3>2, <3>3
    <2>4. DepositTotal = Sum(f, R)
        BY <1>0, AmountOfIsSum DEF DepositTotal, ConfirmedIn
    <2>5. AmountOf(trans', TransIds, {Deposit}, {"confirmed"}) = Sum(g, R2)
        BY <1>0, AmountOfIsSum
    <2>6. DepositTotal' = Sum(g, R2)
        BY <2>5 DEF DepositTotal, ConfirmedIn, AmountOf
    <2> HIDE DEF R, R2, f, g
    <2>7. \A t \in R2 : g[t] \in Nat
        BY <2>2
    <2>8. Sum(f, R) =< Sum(g, R2)
        BY <2>1, <2>2, <2>3, <2>7, SumMonotone
    <2>9. IsFiniteSet(R) /\ \A t \in R : f[t] \in Nat
        BY <2>1, <2>2, <2>3, FS_Subset
    <2>10. Sum(f, R) \in Nat /\ Sum(g, R2) \in Nat
        BY <2>2, <2>7, <2>9, SumType
    <2> QED BY <2>4, <2>6, <2>8, <2>10
<1> QED BY <1>1, <1>2, <1>3

-----------------------------------------------------------------------------
(***************************************************************************)
(* Claims and their rows: never more successful claims than rewards, the   *)
(* rows of a claim pay one reward each and belong to a successful claim    *)
(* until a ban, and the creation fee is the snapshotted one.               *)
(***************************************************************************)
Successes == {c \in Claims : claim[c] = "success"}

CountKept == IsFiniteSet(Successes) /\ SuccessesIn(claim) =< MaxTotalClaims

DecidedSucceeded == status # "banned" => \A c \in payout : claim[c] = "success"

RewardRows ==
    \A t \in TransIds : trans[t].slot \in Claims =>
        /\ trans[t].amount = Reward
        /\ status # "banned" => claim[trans[t].slot] = "success"

FeeRows == \A t \in TransIds : trans[t].slot = "creation_fee" => trans[t].amount = CreationFee

ClaimsCounted == CountKept /\ DecidedSucceeded /\ RewardRows /\ FeeRows

(* A claim succeeds only below the number of rewards. *)
LEMMA CountStep ==
    ASSUME SpotTypeOK, CountKept, [SpotNext]_vars
    PROVE  CountKept'
<1>0. MaxTotalClaims \in Nat
    BY SpotAssumption
<1>t. claim \in [Claims -> {"none", "pending", "success", "failed"}]
    BY DEF SpotTypeOK
<1>n. Cardinality(Successes) \in Nat /\ Cardinality(Successes) =< MaxTotalClaims
    BY FS_CardinalityType DEF CountKept, SuccessesIn, Successes
<1>1. ASSUME Successes' \subseteq Successes PROVE CountKept'
    <2>1. IsFiniteSet(Successes') /\ Cardinality(Successes') =< Cardinality(Successes)
        BY <1>1, FS_Subset DEF CountKept
    <2>2. Cardinality(Successes') \in Nat
        BY <2>1, FS_CardinalityType
    <2> QED BY <1>0, <1>n, <2>1, <2>2 DEF CountKept, SuccessesIn, Successes
<1>2. ASSUME NEW c \in Claims, Successes' \subseteq Successes \cup {c}, ~CapacityReached
      PROVE  CountKept'
    <2>a. IsFiniteSet(Successes)
        BY DEF CountKept
    <2>b. /\ IsFiniteSet(Successes \cup {c})
          /\ \/ Cardinality(Successes \cup {c}) = Cardinality(Successes)
             \/ Cardinality(Successes \cup {c}) = Cardinality(Successes) + 1
        BY <2>a, FS_AddElement, Zenon
    <2>1. /\ IsFiniteSet(Successes \cup {c})
          /\ Cardinality(Successes \cup {c}) =< Cardinality(Successes) + 1
        BY <1>n, <2>b
    <2>2. IsFiniteSet(Successes') /\ Cardinality(Successes') =< Cardinality(Successes \cup {c})
        BY <1>2, <2>1, FS_Subset
    <2>3. Cardinality(Successes') \in Nat /\ Cardinality(Successes \cup {c}) \in Nat
        BY <2>1, <2>2, FS_CardinalityType
    <2>4. Cardinality(Successes) < MaxTotalClaims
        BY <1>0, <1>2, <1>n DEF CapacityReached, SuccessesIn, Successes
    <2> QED BY <1>0, <1>n, <2>1, <2>2, <2>3, <2>4 DEF CountKept, SuccessesIn, Successes
<1>3. CASE claim' = claim
    BY <1>1, <1>3 DEF Successes
<1>4. CASE BanSpot
    <2>1. Successes' \subseteq Successes
        BY <1>4 DEF BanSpot, FailUncommitted, Successes
    <2> QED BY <1>1, <2>1
<1>5. ASSUME NEW c \in Claims, CreateClaim(c) PROVE CountKept'
    <2>1. Successes' \subseteq Successes \cup {c} /\ ~CapacityReached
        BY <1>5, <1>t DEF CreateClaim, CanClaim, Successes
    <2> QED BY <1>2, <2>1
<1>6. ASSUME NEW c \in Claims, PromoteClaim(c) PROVE CountKept'
    <2>1. CASE CapacityReached
        <3>1. Successes' \subseteq Successes
            BY <1>6, <1>t, <2>1 DEF PromoteClaim, Promote, Successes
        <3> QED BY <1>1, <3>1
    <2>2. CASE ~CapacityReached
        <3>1. claim' = FailPendingIfFull([claim EXCEPT ![c] = "success"])
            BY <1>6, <2>2 DEF PromoteClaim, Promote
        <3>2. \A d \in Claims :
                 claim'[d] = "success" => [claim EXCEPT ![c] = "success"][d] = "success"
            BY <3>1 DEF FailPendingIfFull
        <3>3. Successes' \subseteq Successes \cup {c}
            BY <1>t, <3>2 DEF Successes
        <3> QED BY <1>2, <2>2, <3>3
    <2> QED BY <2>1, <2>2
<1>7. ASSUME NEW c \in Claims, FailClaim(c) PROVE CountKept'
    <2>1. Successes' \subseteq Successes
        BY <1>7, <1>t DEF FailClaim, Successes
    <2> QED BY <1>1, <2>1
<1> QED BY <1>3, <1>4, <1>5, <1>6, <1>7, Frames DEF ClaimStep

(* Only a ban takes a success back. *)
LEMMA SuccessStays ==
    ASSUME SpotTypeOK, [SpotNext]_vars, status' # "banned", NEW c \in Claims, claim[c] = "success"
    PROVE  claim'[c] = "success"
<1>t. claim \in [Claims -> {"none", "pending", "success", "failed"}]
    BY DEF SpotTypeOK
<1>1. ~BanSpot
    BY DEF BanSpot
<1>2. ASSUME NEW d \in Claims, CreateClaim(d) PROVE claim'[c] = "success"
    BY <1>2, <1>t DEF CreateClaim
<1>3. ASSUME NEW d \in Claims, FailClaim(d) PROVE claim'[c] = "success"
    BY <1>3, <1>t DEF FailClaim
<1>4. ASSUME NEW d \in Claims, PromoteClaim(d) PROVE claim'[c] = "success"
    <2>1. CASE CapacityReached
        BY <1>4, <1>t, <2>1 DEF PromoteClaim, Promote
    <2>2. CASE ~CapacityReached
        <3>1. claim' = FailPendingIfFull([claim EXCEPT ![d] = "success"])
            BY <1>4, <2>2 DEF PromoteClaim, Promote
        <3>2. [claim EXCEPT ![d] = "success"][c] = "success"
            BY <1>t
        <3> QED BY <3>1, <3>2 DEF FailPendingIfFull
    <2> QED BY <2>1, <2>2
<1> QED BY <1>1, <1>2, <1>3, <1>4, Frames DEF ClaimStep

LEMMA ClaimsCountedStep ==
    ASSUME Books, ClaimsCounted, [SpotNext]_vars
    PROVE  ClaimsCounted'
<1>0. SpotTypeOK /\ IInv /\ Marks
    BY DEF Books
<1>b. status = "banned" => status' = "banned"
    BY <1>0, Onward
<1>1. CountKept'
    BY <1>0, CountStep DEF ClaimsCounted
<1>p. payout \subseteq Claims
    BY <1>0 DEF SpotTypeOK
<1>2. DecidedSucceeded'
    <2> SUFFICES ASSUME status' # "banned", NEW c \in payout' PROVE claim'[c] = "success"
        BY DEF DecidedSucceeded
    <2>1. CASE c \in payout
        BY <1>0, <1>b, <1>p, <2>1, SuccessStays DEF ClaimsCounted, DecidedSucceeded
    <2>2. CASE c \notin payout
        <3>1. BeginPayout(c)
            BY <2>2, Frames DEF BeginPayout, SubmitPayout, SpotCrash
        <3>2. c \in Claims /\ claim[c] = "success"
            BY <3>1 DEF BeginPayout, Unpaid
        <3> QED BY <1>0, <3>2, SuccessStays
    <2> QED BY <2>1, <2>2
<1>3. ASSUME NEW t \in TransIds, trans'[t].slot \in Payouts,
             trans'[t].slot = trans[t].slot, trans'[t].amount = trans[t].amount
      PROVE  /\ trans'[t].slot \in Claims =>
                    /\ trans'[t].amount = Reward
                    /\ status' # "banned" => claim'[trans'[t].slot] = "success"
             /\ trans'[t].slot = "creation_fee" => trans'[t].amount = CreationFee
    BY <1>0, <1>b, <1>3, SuccessStays DEF ClaimsCounted, RewardRows, FeeRows
<1>4. ASSUME NEW t \in TransIds, trans'[t].slot \in Payouts,
             ~ (trans'[t].slot = trans[t].slot /\ trans'[t].amount = trans[t].amount)
      PROVE  /\ trans'[t].slot \in Claims =>
                    /\ trans'[t].amount = Reward
                    /\ status' # "banned" => claim'[trans'[t].slot] = "success"
             /\ trans'[t].slot = "creation_fee" => trans'[t].amount = CreationFee
    <2>1. ~RowsKept
        BY <1>4 DEF RowsKept
    <2>2. ASSUME NEW u \in TransIds, RowFinalised(u) PROVE FALSE
        BY <1>4, <2>2 DEF RowFinalised
    <2>3. AddStep
        BY <1>0, <2>1, <2>2, StepKinds
    <2>4. ASSUME NEW s, NEW a, NEW h, RowAdded(s, a, h)
          PROVE  trans'[t].slot = s /\ trans'[t].amount = a
        BY <1>4, <2>4 DEF RowAdded, Row
    <2>5. ASSUME NEW s \in {"platform_fee", "refund", "remainder", Deposit},
                 NEW a, NEW h, RowAdded(s, a, h)
          PROVE  trans'[t].slot \notin Claims /\ trans'[t].slot # "creation_fee"
        <3>1. trans'[t].slot = s /\ s # Deposit
            BY <1>4, <2>4, <2>5, OutboxAssumption
        <3> QED BY <3>1, SpotAssumption DEF SpotSlots
    <2>6. ASSUME RowAdded("creation_fee", CreationFee, "local")
          PROVE  trans'[t].slot \notin Claims /\ trans'[t].amount = CreationFee
        BY <2>4, <2>6, SpotAssumption DEF SpotSlots
    <2>7. ASSUME NEW c \in Claims, PaysClaim(c)
          PROVE  /\ trans'[t].slot = c /\ trans'[t].amount = Reward /\ c # "creation_fee"
                 /\ status' # "banned" => claim'[c] = "success"
        <3>1. trans'[t].slot = c /\ trans'[t].amount = Reward
            BY <2>4, <2>7 DEF PaysClaim
        <3>2. claim[c] = "success"
            BY <2>7 DEF PaysClaim, ClaimsCounted, DecidedSucceeded
        <3> QED BY <1>0, <3>1, <3>2, SuccessStays, SpotAssumption DEF SpotSlots
    <2> QED BY <2>3, <2>5, <2>6, <2>7 DEF AddStep
<1>5. ASSUME NEW t \in TransIds
      PROVE  /\ trans'[t].slot \in Claims =>
                    /\ trans'[t].amount = Reward
                    /\ status' # "banned" => claim'[trans'[t].slot] = "success"
             /\ trans'[t].slot = "creation_fee" => trans'[t].amount = CreationFee
    BY <1>3, <1>4, SpotAssumption DEF SpotSlots
<1>6. RewardRows'
    BY <1>5 DEF RewardRows, Reward
<1>7. FeeRows'
    BY <1>5 DEF FeeRows
<1> QED BY <1>1, <1>2, <1>6, <1>7 DEF ClaimsCounted

LEMMA ClaimsCountedInit == SpotInit => ClaimsCounted
<1> SUFFICES ASSUME SpotInit PROVE ClaimsCounted
    OBVIOUS
<1>1. \A t \in TransIds : trans[t].slot = Deposit
    BY DEF SpotInit, OutboxInit, NoRow
<1>2. Deposit \notin Claims /\ Deposit # "creation_fee"
    BY OutboxAssumption, SpotAssumption DEF SpotSlots
<1>3. Successes = {}
    BY DEF SpotInit, Successes
<1>4. IsFiniteSet(Successes) /\ Cardinality(Successes) = 0
    BY <1>3, FS_EmptySet
<1>5. CountKept
    BY <1>4, SpotAssumption DEF CountKept, SuccessesIn, Successes
<1>6. DecidedSucceeded
    BY DEF SpotInit, DecidedSucceeded
<1>7. RewardRows /\ FeeRows
    BY <1>1, <1>2 DEF RewardRows, FeeRows
<1> QED BY <1>5, <1>6, <1>7 DEF ClaimsCounted

LEMMA ClaimsCountedHolds == ASSUME Unbounded PROVE SpotSpec => []ClaimsCounted
<1>1. Books /\ ClaimsCounted /\ [SpotNext]_vars => ClaimsCounted'
    BY ClaimsCountedStep
<1> QED BY <1>1, ClaimsCountedInit, BooksHold, PTL DEF SpotSpec

-----------------------------------------------------------------------------
(***************************************************************************)
(* What the sums of a Spot are made of.  Due is what a Spot owes before    *)
(* anything goes back to its creator.                                      *)
(***************************************************************************)
Due == Claims \cup {"creation_fee"}

LEMMA PayoutParts ==
    ASSUME SpotTypeOK, NEW sts
    PROVE  /\ SumOf(Due, sts) \in Nat /\ SumOf({"platform_fee"}, sts) \in Nat
           /\ SumOf({"refund"}, sts) \in Nat /\ SumOf({"remainder"}, sts) \in Nat
           /\ SumOf(Payouts, sts) = SumOf(Due, sts) + SumOf({"platform_fee"}, sts)
                + SumOf({"refund"}, sts) + SumOf({"remainder"}, sts)
           /\ SumOf(Due, sts) = SumOf(Claims, sts) + SumOf({"creation_fee"}, sts)
           /\ SumOf(CancelSlots, sts) = SumOf({"refund"}, sts) + SumOf({"platform_fee"}, sts)
           /\ SumOf(Due \cup {"remainder"}, sts) = SumOf(Due, sts) + SumOf({"remainder"}, sts)
           /\ SumOf(Claims, sts) \in Nat /\ SumOf({"creation_fee"}, sts) \in Nat
<1>0. Payouts = Claims \cup SpotSlots /\ Claims \cap SpotSlots = {}
    BY SpotAssumption
<1>1. SumOf(Due, sts) = SumOf(Claims, sts) + SumOf({"creation_fee"}, sts)
    <2>1. Claims \cap {"creation_fee"} = {}
        BY <1>0 DEF SpotSlots
    <2> QED BY <2>1, SumSplit DEF Due
<1>2. SumOf(Due \cup {"platform_fee"}, sts) = SumOf(Due, sts) + SumOf({"platform_fee"}, sts)
    <2>1. Due \cap {"platform_fee"} = {}
        BY <1>0 DEF SpotSlots, Due
    <2> QED BY <2>1, SumSplit
<1>3. SumOf((Due \cup {"platform_fee"}) \cup {"refund"}, sts)
        = SumOf(Due \cup {"platform_fee"}, sts) + SumOf({"refund"}, sts)
    <2>1. (Due \cup {"platform_fee"}) \cap {"refund"} = {}
        BY <1>0 DEF SpotSlots, Due
    <2> QED BY <2>1, SumSplit
<1>4. SumOf(((Due \cup {"platform_fee"}) \cup {"refund"}) \cup {"remainder"}, sts)
        = SumOf((Due \cup {"platform_fee"}) \cup {"refund"}, sts) + SumOf({"remainder"}, sts)
    <2>1. ((Due \cup {"platform_fee"}) \cup {"refund"}) \cap {"remainder"} = {}
        BY <1>0 DEF SpotSlots, Due
    <2> QED BY <2>1, SumSplit
<1>5. ((Due \cup {"platform_fee"}) \cup {"refund"}) \cup {"remainder"} = Payouts
    BY <1>0 DEF SpotSlots, Due
<1>6. SumOf(CancelSlots, sts) = SumOf({"refund"}, sts) + SumOf({"platform_fee"}, sts)
    <2>1. {"refund"} \cap {"platform_fee"} = {} /\ CancelSlots = {"refund"} \cup {"platform_fee"}
        BY DEF CancelSlots
    <2> QED BY <2>1, SumSplit
<1>7. SumOf(Due \cup {"remainder"}, sts) = SumOf(Due, sts) + SumOf({"remainder"}, sts)
    <2>1. Due \cap {"remainder"} = {}
        BY <1>0 DEF SpotSlots, Due
    <2> QED BY <2>1, SumSplit
<1>8. /\ SumOf(Due, sts) \in Nat /\ SumOf({"platform_fee"}, sts) \in Nat
      /\ SumOf({"refund"}, sts) \in Nat /\ SumOf({"remainder"}, sts) \in Nat
      /\ SumOf(Claims, sts) \in Nat /\ SumOf({"creation_fee"}, sts) \in Nat
    BY SumIs
<1> QED BY <1>1, <1>2, <1>3, <1>4, <1>5, <1>6, <1>7, <1>8

(* A slot without an active row counts for nothing. *)
LEMMA NoneActive ==
    ASSUME SpotTypeOK, NEW S, \A s \in S : ~HasNonFailed(s)
    PROVE  Active(S) = 0
<1>1. \A t \in TransIds : ~ (trans[t].slot \in S /\ trans[t].status \in Live)
    BY DEF HasNonFailed, Live
<1> QED BY <1>1, SumNone DEF Active

LEMMA NoRowsActive ==
    ASSUME SpotTypeOK, NEW S, ~HasRow(S)
    PROVE  Active(S) = 0 /\ Confirmed(S) = 0
<1>1. \A t \in TransIds : trans[t].slot \notin S
    BY DEF HasRow
<1> QED BY <1>1, SumNone DEF Active, Confirmed

(* The creation fee is committed at most once. *)
LEMMA FeeOnce ==
    ASSUME Books, FeeRows
    PROVE  Active({"creation_fee"}) =< CreationFee
<1>0. SpotTypeOK /\ UniqueActiveIntent /\ "creation_fee" \in Payouts /\ CreationFee \in Nat
    BY SpotAssumption DEF Books, IInv, SpotSlots
<1>1. CASE ~HasNonFailed("creation_fee")
    <2>1. Active({"creation_fee"}) = 0
        BY <1>0, <1>1, NoneActive
    <2> QED BY <1>0, <2>1
<1>2. CASE HasNonFailed("creation_fee")
    <2> DEFINE f == AmountColumn(trans)
    <2>1. PICK t \in TransIds : trans[t].slot = "creation_fee" /\ trans[t].status \in Live
        BY <1>2 DEF HasNonFailed, Live
    <2>2. Rowset(trans, TransIds, {"creation_fee"}, Live) = {t}
        BY <1>0, <2>1 DEF Rowset, UniqueActiveIntent, Live
    <2>3. f[t] = CreationFee
        BY <1>0, <2>1, SumIs DEF FeeRows
    <2>4. Active({"creation_fee"}) = Sum(f, {t})
        BY <1>0, <2>2, SumIs DEF Active
    <2> HIDE DEF f
    <2>5. Sum(f, {} \cup {t}) = f[t] + Sum(f, {})
        BY <1>0, <2>3, SumAdd, FS_EmptySet
    <2>6. Sum(f, {}) = 0 /\ {} \cup {t} = {t}
        BY SumType, FS_EmptySet
    <2> QED BY <1>0, <2>3, <2>4, <2>5, <2>6
<1> QED BY <1>1, <1>2

(* Division rounds down. *)
LEMMA RewardsFit ==
    ASSUME NEW n \in Nat, n =< MaxTotalClaims
    PROVE  n * Reward =< TotalValue /\ n * Reward \in Nat
<1>0. TotalValue \in Nat /\ MaxTotalClaims \in Nat \ {0}
    BY SpotAssumption
<1> DEFINE q == TotalValue \div MaxTotalClaims
<1>1. q \in Nat /\ MaxTotalClaims * q =< TotalValue
    BY <1>0
<1> HIDE DEF q
<1>2. n * q \in Nat /\ MaxTotalClaims * q \in Nat
    BY <1>0, <1>1
<1>3. MaxTotalClaims * q = n * q + (MaxTotalClaims - n) * q
    BY <1>0, <1>1
<1>4. (MaxTotalClaims - n) * q \in Nat
    BY <1>0, <1>1
<1>5. n * q =< MaxTotalClaims * q
    BY <1>2, <1>3, <1>4
<1> QED BY <1>0, <1>1, <1>2, <1>5 DEF Reward, q

(* The rewards committed are at most one per claim that succeeded.          *)
LEMMA RewardsBounded ==
    ASSUME Books, RewardRows, CountKept, status # "banned", NEW S \in SUBSET Successes,
           \A t \in TransIds : trans[t].slot \in Claims /\ trans[t].status \in Live =>
                trans[t].slot \in S
    PROVE  \E n \in Nat : n =< Cardinality(S) /\ Active(Claims) = n * Reward
<1> DEFINE R == Rowset(trans, TransIds, Claims, Live)
           f == AmountColumn(trans)
           m == [t \in R |-> trans[t].slot]
<1>0. SpotTypeOK /\ UniqueActiveIntent /\ Claims \subseteq Payouts /\ Reward \in Nat
    BY SpotAssumption, Quantities DEF Books, IInv
<1>1. m \in Injection(R, S)
    <2>1. m \in [R -> S]
        BY DEF Rowset
    <2>2. \A t, u \in R : m[t] = m[u] => t = u
        BY <1>0 DEF Rowset, UniqueActiveIntent, Live
    <2> QED BY <2>1, <2>2 DEF Injection, IsInjective
<1>2. IsFiniteSet(S)
    BY FS_Subset DEF CountKept
<1>3. \A t \in R : f[t] = Reward
    BY <1>0, SumIs DEF RewardRows, Rowset
<1>4. IsFiniteSet(R) /\ Active(Claims) = Sum(f, R)
    BY <1>0, SumIs DEF Active
<1> HIDE DEF R, f, m
<1>5. Cardinality(R) =< Cardinality(S)
    BY <1>1, <1>2, FS_Injection
<1>6. Sum(f, R) = Cardinality(R) * Reward
    BY <1>0, <1>3, <1>4, SumConstant
<1>7. Cardinality(R) \in Nat
    BY <1>4, FS_CardinalityType
<1> QED BY <1>4, <1>5, <1>6, <1>7

(* All rewards fit into the Spot's value, also with one more to pay. *)
LEMMA RewardsAffordable ==
    ASSUME Books, ClaimsCounted, status # "banned"
    PROVE  /\ Active(Claims) =< TotalValue
           /\ \A c \in Claims :
                 claim[c] = "success" /\ ~HasNonFailed(c) => Active(Claims) + Reward =< TotalValue
<1>0. /\ SpotTypeOK /\ Reward \in Nat /\ MaxTotalClaims \in Nat /\ IsFiniteSet(Successes)
      /\ Cardinality(Successes) \in Nat /\ Cardinality(Successes) =< MaxTotalClaims
    BY SpotAssumption, Quantities, FS_CardinalityType
       DEF Books, ClaimsCounted, CountKept, SuccessesIn, Successes
<1>t. TotalValue \in Nat
    BY SpotAssumption
<1>1. \A t \in TransIds : trans[t].slot \in Claims => trans[t].slot \in Successes
    BY DEF ClaimsCounted, RewardRows, Successes
<1>2. Active(Claims) =< TotalValue
    <2>1. PICK n \in Nat : n =< Cardinality(Successes) /\ Active(Claims) = n * Reward
        BY <1>1, RewardsBounded DEF ClaimsCounted
    <2>2. n =< MaxTotalClaims
        BY <1>0, <2>1
    <2> QED BY <2>1, <2>2, RewardsFit
<1>3. ASSUME NEW c \in Claims, claim[c] = "success", ~HasNonFailed(c)
      PROVE  Active(Claims) + Reward =< TotalValue
    <2>1. c \in Successes
        BY <1>3 DEF Successes
    <2>2. \A t \in TransIds : trans[t].slot \in Claims /\ trans[t].status \in Live =>
             trans[t].slot \in Successes \ {c}
        BY <1>1, <1>3 DEF HasNonFailed, Live
    <2>3. Cardinality(Successes \ {c}) = Cardinality(Successes) - 1
        BY <1>0, <2>1, FS_RemoveElement
    <2>4. PICK n \in Nat : n =< Cardinality(Successes \ {c}) /\ Active(Claims) = n * Reward
        BY <2>2, RewardsBounded DEF ClaimsCounted
    <2>5. n + 1 \in Nat /\ n + 1 =< MaxTotalClaims
        BY <1>0, <2>3, <2>4
    <2>6. (n + 1) * Reward =< TotalValue
        BY <2>5, RewardsFit
    <2>7. (n + 1) * Reward = n * Reward + Reward
        BY <1>0
    <2> QED BY <2>4, <2>6, <2>7
<1> QED BY <1>2, <1>3

(* When a page shows every row, what is read from it is the table.          *)
LEMMA PageSums ==
    ASSUME WholePage, Books, NEW S
    PROVE  /\ ConfirmedIn(trans, Page, S) = Confirmed(S)
           /\ PendingIn(Page, S) <=> PendingIn(TransIds, S)
<1>0. SpotTypeOK /\ Page = 1 .. count /\ Page \subseteq TransIds
    BY PageIsTable DEF Books
<1>1. \A t \in TransIds : t \notin Page => trans[t].status = "absent"
    <2>1. count \in Nat /\ \A t \in TransIds : t > count => trans[t] = NoRow
        BY <1>0, OutboxAssumption DEF Books, IInv, FreshRows, SpotTypeOK, TypeOK
    <2> QED BY <1>0, <2>1 DEF NoRow, TransIds
<1>2. Rowset(trans, Page, S, {"confirmed"}) = Rowset(trans, TransIds, S, {"confirmed"})
    BY <1>0, <1>1 DEF Rowset
<1>3. ConfirmedIn(trans, Page, S) = Confirmed(S)
    BY <1>2, AmountOfIsSum DEF ConfirmedIn, Confirmed, SumOf
<1>4. PendingIn(Page, S) <=> PendingIn(TransIds, S)
    BY <1>0, <1>1 DEF PendingIn
<1> QED BY <1>3, <1>4

-----------------------------------------------------------------------------
(***************************************************************************)
(* Closed books.  From the moment a cancellation plans its sends, or the   *)
(* settlement completes the Spot, every claim is decided and paid, and     *)
(* nothing that could still change the books is pending.                   *)
(***************************************************************************)
ClaimsPaid ==
    \A c \in Claims : claim[c] # "pending" /\ (claim[c] = "success" => HasConfirmed(c))

ClosedBooks == ClaimsPaid /\ ~PendingIn(TransIds, Due \cup {Deposit})

Closing ==
    \/ status \in {"cancelled", "completed"}
    \/ status # "banned" /\ (HasRow(CancelSlots) \/ cancel.pc \in Sending)

BooksClosed == (Closing => ClosedBooks) /\ (settled => ClaimsPaid)

(* Claims that are all paid stay so while no new one is made. *)
LEMMA ClaimsPaidStep ==
    ASSUME Books, ClaimsPaid, [SpotNext]_vars, ~ (status = "published" /\ ~cancelling)
    PROVE  ClaimsPaid'
<1>0. SpotTypeOK /\ IInv
    BY DEF Books
<1>1. \A c \in Claims : HasConfirmed(c) => HasConfirmed(c)'
    BY <1>0, ConfirmedStays
<1>2. \A c \in Claims : claim'[c] \in {claim[c], "failed"}
    <2>1. CASE claim' = claim
        BY <2>1
    <2>2. CASE BanSpot
        BY <2>2 DEF BanSpot, FailUncommitted
    <2>3. ~ ClaimStep
        BY DEF ClaimStep, CreateClaim, CanClaim, PromoteClaim, FailClaim, ClaimsPaid
    <2> QED BY <2>1, <2>2, <2>3, Frames
<1> QED BY <1>1, <1>2 DEF ClaimsPaid

(* A confirmed row is an active one. *)
LEMMA ConfirmedIsActive == ASSUME NEW s PROVE HasConfirmed(s) => HasNonFailed(s)
BY DEF HasConfirmed, HasNonFailed

(* While a Spot is closing, its marker is set or it is completed.           *)
LEMMA ClosingMarked ==
    ASSUME Books, Closing
    PROVE  /\ status # "banned"
           /\ cancelling \/ status = "completed"
           /\ ~ (status \in {"draft", "published"} /\ ~cancelling)
BY DEF Books, Closing, Marks, StatusMarks, CancelMarks

(* A closing Spot gets rows from its cancellation and its remainder only.   *)
LEMMA ClosingAdds ==
    ASSUME Books, Funding, ClaimsCounted, Closing, ClosedBooks, AddStep
    PROVE  \/ CancelFee /\ cancel.fee > 0 /\ RowAdded("platform_fee", cancel.fee, "local")
                 /\ cancel' = [cancel EXCEPT !.pc = "fee_sending", !.row = count + 1]
           \/ CancelRefund /\ cancel.refund > 0 /\ RowAdded("refund", cancel.refund, "local")
                 /\ cancel' = [cancel EXCEPT !.pc = "refund_sending", !.row = count + 1]
           \/ RemainderSubmit /\ RowAdded("remainder", remainder.amount, "local")
<1>0. /\ status # "banned"
      /\ cancelling \/ status = "completed"
      /\ ~ (status \in {"draft", "published"} /\ ~cancelling)
    BY ClosingMarked
<1>1. ASSUME NEW a \in DepositValues, NEW v \in DepositValues \cup {0}, RecordDeposit(a, v)
      PROVE  FALSE
    BY <1>0, <1>1 DEF RecordDeposit
<1>2. ~SubmitCreationFee
    <2>1. status = "completed" => HasNonFailed("creation_fee")
        BY ConfirmedIsActive DEF Funding, PublicIsPaid
    <2> QED BY <1>0, <2>1 DEF SubmitCreationFee, CreateIntent
<1>3. ASSUME NEW c \in Claims, PaysClaim(c) PROVE FALSE
    <2>1. claim[c] = "success"
        BY <1>0, <1>3 DEF PaysClaim, ClaimsCounted, DecidedSucceeded
    <2>2. HasNonFailed(c)
        BY <2>1, ConfirmedIsActive DEF ClosedBooks, ClaimsPaid
    <2> QED BY <1>3, <2>2 DEF PaysClaim
<1>4. ~SweepSubmit
    BY <1>0 DEF SweepSubmit, SweepOpen
<1> QED BY <1>1, <1>2, <1>3, <1>4, Zenon DEF AddStep

(* The steps that begin to close a Spot have seen its books closed.         *)
LEMMA RemainderCloses ==
    ASSUME WholePage, Books, RemainderPrepare
    PROVE  ClosedBooks /\ ~PendingIn(TransIds, {"remainder"})
<1>1. ~PendingIn(TransIds, Claims \cup {Deposit, "creation_fee", "remainder"}) /\ ClaimsPaid
    BY PageSums DEF RemainderPrepare, RemainderReady, ClaimsPaid
<1> QED BY <1>1 DEF ClosedBooks, PendingIn, Due

(* The branches of CancelPrepare that mark the Spot and do not wait. *)
Prepares == CancelPrepare /\ ~NotCancellable /\ ~MustDefer

LEMMA CancelCloses ==
    ASSUME WholePage, Books, Funding, Prepares, NoLateClaim', status' = "cancelled" \/ cancel'.pc = "planned"
    PROVE  ClosedBooks /\ ~PendingIn(TransIds, CancelSlots)
<1>0. status \in {"draft", "published"} /\ claim' = claim
    BY DEF Prepares, CancelPrepare, NotCancellable
<1>1. \A c \in Claims : claim[c] # "pending"
    BY <1>0 DEF NoLateClaim
<1>2. ~PendingIn(TransIds, Claims \cup CancelSlots \cup {"creation_fee"})
    BY PageSums DEF Prepares, MustDefer
<1>3. ~PendingIn(TransIds, {Deposit})
    <2>1. CASE status = "draft"
        BY <2>1, PageSums DEF Prepares, MustDefer
    <2>2. CASE status = "published"
        BY <2>2 DEF Funding, PublicIsPaid, DepositMissing, PendingDeposit, PendingIn
    <2> QED BY <1>0, <2>1, <2>2
<1>4. ASSUME NEW c \in Claims, claim[c] = "success" PROVE HasConfirmed(c)
    <2>1. status = "published"
        BY <1>0, <1>4 DEF Funding, ClaimsAfterFunds
    <2>2. HasNonFailed(c)
        BY <1>4, <2>1 DEF Prepares, MustDefer, Unpaid
    <2> QED BY <1>2, <2>2 DEF HasNonFailed, HasConfirmed, PendingIn
<1> QED BY <1>1, <1>2, <1>3, <1>4 DEF ClosedBooks, ClaimsPaid, PendingIn, Due

(* A step after which a Spot is closing: it was, or the step begins it.     *)
LEMMA ClosingBegins ==
    ASSUME Books, [SpotNext]_vars, Closing', ~Closing
    PROVE  \/ RemainderPrepare
           \/ Prepares /\ (status' = "cancelled" \/ cancel'.pc = "planned")
<1>0. SpotTypeOK /\ IInv /\ Marks
    BY DEF Books
<1>b. status # "banned" /\ status' # "banned"
    BY <1>0, Onward DEF Closing
<1>c. cancel \in Cancellations
    BY <1>0 DEF SpotTypeOK
<1>1. ASSUME CancelPrepare, status' = "cancelled" \/ cancel'.pc = "planned"
      PROVE  Prepares
    <2>1. status # "cancelled" /\ cancel.pc # "planned"
        BY <1>b, <1>1 DEF Closing, Sending
    <2>2. cancel' = [cancel EXCEPT !.pc = "release"] => cancel'.pc # "planned"
        BY <1>c DEF Cancellations
    <2> QED BY <1>1, <2>1, <2>2, Zenon DEF CancelPrepare, Prepares
<1>2. CASE status' \in {"cancelled", "completed"}
    <2>1. status' # status
        BY <1>2 DEF Closing
    <2>2. ~Publish /\ ~BanSpot
        BY <1>2 DEF Publish, BanSpot
    <2>3. ASSUME NEW t \in TransIds, RefreshRow(t) PROVE FALSE
        <3>1. FinalizesCancellation(trans') /\ count' = count
            BY <2>1, <2>3, <1>0, RefreshFinalises DEF RefreshRow, RowFinalised
        <3>2. Page \subseteq TransIds
            BY <1>0, PageRows DEF SpotTypeOK
        <3>3. HasRow(CancelSlots)'
            BY <3>1, <3>2 DEF FinalizesCancellation, HasRow
        <3>4. HasRow(CancelSlots)
            BY <1>0, <2>3, <3>3, HasRowKept, RefreshFinalises DEF RefreshRow
        <3> QED BY <1>b, <3>4 DEF Closing
    <2>4. CancelPrepare => status' = "cancelled"
        BY <2>1 DEF CancelPrepare
    <2> QED BY <1>1, <2>1, <2>2, <2>3, <2>4, Frames DEF RefreshStepOf
<1>3. CASE HasRow(CancelSlots)'
    <2>1. ~HasRow(CancelSlots) /\ cancel.pc \notin Sending
        BY <1>b DEF Closing
    <2>2. AddStep
        BY <1>0, <1>3, <2>1, StepKinds, HasRowKept
    <2>3. ASSUME NEW s \in Claims \cup {"creation_fee", "remainder", Deposit},
                 NEW a, NEW h, RowAdded(s, a, h)
          PROVE  FALSE
        <3>1. s \notin CancelSlots /\ Deposit \notin CancelSlots
            BY SpotAssumption, OutboxAssumption DEF CancelSlots, SpotSlots
        <3> QED BY <1>3, <2>1, <2>3, <3>1, HasRowAdded
    <2>4. CancelFee \/ CancelRefund \/ SweepSubmit
        BY <2>2, <2>3 DEF AddStep, PaysClaim
    <2> QED BY <1>b, <2>1, <2>4 DEF CancelFee, CancelRefund, SweepSubmit, SweepOpen, Sending
<1>4. CASE cancel'.pc \in Sending
    <2>1. cancel.pc \notin Sending
        BY <1>b DEF Closing
    <2>2. cancel' # cancel /\ ~SpotCrash /\ ~CancelCheck /\ ~CancelLease /\ ~CancelEnd
        BY <1>4, <2>1, CancelStarts DEF SpotCrash, CancelEnd, NoCancel, Sending
    <2>3. ~CancelResolveFails /\ ~CancelFee /\ ~CancelRefund /\ ~CancelSent
        BY <2>1 DEF CancelResolveFails, CancelFee, CancelRefund, CancelSent, Sending
    <2>4. CancelPrepare
        BY <2>2, <2>3, Frames DEF CancelStep
    <2>5. cancel'.pc = "planned"
        <3>1. \/ cancel' = [cancel EXCEPT !.pc = "release"]
              \/ cancel' = [cancel EXCEPT !.pc = "planned", !.fee = FeeDue, !.refund = RefundDue]
            BY <2>4, Zenon DEF CancelPrepare
        <3> QED BY <1>4, <1>c, <3>1 DEF Cancellations, Sending
    <2> QED BY <1>1, <2>4, <2>5
<1> QED BY <1>2, <1>3, <1>4 DEF Closing

LEMMA BooksClosedStep ==
    ASSUME WholePage, Books, Funding, ClaimsCounted, BooksClosed, NoLateClaim', [SpotNext]_vars
    PROVE  BooksClosed'
<1>0. SpotTypeOK /\ IInv /\ Marks
    BY DEF Books
<1>1. ASSUME ClosedBooks, ClaimsPaid', UNCHANGED <<trans, count>> \/ RowsKept
      PROVE  ClosedBooks'
    <2>1. ~PendingIn(TransIds, Due \cup {Deposit})'
        BY <1>1 DEF ClosedBooks, PendingIn, RowsKept
    <2> QED BY <1>1, <2>1 DEF ClosedBooks
<1>2. ASSUME Closing' PROVE ClosedBooks'
    <2>1. CASE Closing
        <3>0. ClosedBooks
            BY <2>1 DEF BooksClosed
        <3>1. ClaimsPaid'
            BY <2>1, <3>0, ClosingMarked, ClaimsPaidStep DEF ClosedBooks
        <3>2. CASE RowsKept
            BY <1>1, <3>0, <3>1, <3>2
        <3>3. ASSUME NEW t \in TransIds, RowFinalised(t) PROVE ClosedBooks'
            <4>1. ~PendingIn(TransIds, Due \cup {Deposit})'
                BY <3>0, <3>3 DEF ClosedBooks, PendingIn, RowFinalised
            <4> QED BY <3>1, <4>1 DEF ClosedBooks
        <3>4. CASE AddStep
            <4>1. \E s \in {"platform_fee", "refund", "remainder"} : \E a, h : RowAdded(s, a, h)
                BY <2>1, <3>0, <3>4, ClosingAdds
            <4>2. \A s \in {"platform_fee", "refund", "remainder"} : s \notin Due \cup {Deposit}
                BY SpotAssumption, OutboxAssumption DEF SpotSlots, Due
            <4>3. ~PendingIn(TransIds, Due \cup {Deposit})'
                BY <3>0, <4>1, <4>2 DEF ClosedBooks, PendingIn, RowAdded, Row
            <4> QED BY <3>1, <4>3 DEF ClosedBooks
        <3> QED BY <1>0, <3>2, <3>3, <3>4, StepKinds
    <2>2. CASE ~Closing
        <3>1. ClosedBooks
            BY <1>2, <2>2, ClosingBegins, RemainderCloses, CancelCloses
        <3>2. RemainderPrepare \/ Prepares
            BY <1>2, <2>2, ClosingBegins
        <3>3. claim' = claim /\ UNCHANGED <<trans, count>>
            BY <3>2 DEF RemainderPrepare, Prepares, CancelPrepare, outboxVars
        <3>4. ClaimsPaid'
            BY <3>1, <3>3 DEF ClosedBooks, ClaimsPaid, HasConfirmed
        <3> QED BY <1>1, <3>1, <3>3, <3>4
    <2> QED BY <2>1, <2>2
<1>3. ASSUME settled' PROVE ClaimsPaid'
    <2>1. CASE settled
        <3>1. status \in {"completed", "banned"}
            BY <1>0, <2>1 DEF Marks, RemainderMarks
        <3> QED BY <2>1, <3>1, ClaimsPaidStep DEF BooksClosed
    <2>2. CASE RemainderPrepare
        <3>1. ClaimsPaid /\ claim' = claim /\ UNCHANGED trans
            BY <2>2, RemainderCloses DEF RemainderPrepare, outboxVars, ClosedBooks
        <3> QED BY <3>1 DEF ClaimsPaid, HasConfirmed
    <2> QED BY <1>3, <2>1, <2>2, Frames
<1> QED BY <1>2, <1>3 DEF BooksClosed

LEMMA BooksClosedInit == SpotInit => BooksClosed
<1> SUFFICES ASSUME SpotInit PROVE BooksClosed
    OBVIOUS
<1>1. \A t \in TransIds : trans[t].slot = Deposit
    BY DEF SpotInit, OutboxInit, NoRow
<1>2. ~HasRow(CancelSlots)
    BY <1>1, SpotAssumption, OutboxAssumption DEF HasRow, CancelSlots, SpotSlots
<1> QED BY <1>2 DEF SpotInit, NoCancel, Sending, Closing, BooksClosed

-----------------------------------------------------------------------------
(***************************************************************************)
(* Budgets.  What is confirmed and not due is left to go back: a part of   *)
(* it is the platform's, the rest the creator's, and what a cancellation   *)
(* has sent and still plans to send stays within them.  A remainder that   *)
(* is decided and not yet recorded is covered as well.                     *)
(***************************************************************************)
Left == Minus(DepositTotal, Confirmed(Due))

FeeShare == Min({CancellationFee, Left})

FeePlanned == IF cancel.pc = "planned" THEN cancel.fee ELSE 0

RefundPlanned == IF cancel.pc \in {"planned", "fee_sending", "refund"} THEN cancel.refund ELSE 0

CancelBudget ==
    status # "banned" =>
        /\ Active({"platform_fee"}) + FeePlanned =< FeeShare
        /\ Active({"refund"}) + RefundPlanned =< Left - FeeShare

RemainderBudget ==
    remainder.pc # "idle" /\ status = "completed" => Committed + remainder.amount =< DepositTotal

Budgets == NoOvercommit /\ CancelBudget /\ RemainderBudget

Ledger == Books /\ Funding /\ ClaimsCounted /\ BooksClosed

(* The numbers of a Spot that has not overcommitted.                        *)
LEMMA Shares ==
    ASSUME Books
    PROVE  /\ DepositTotal \in Nat /\ Left \in Nat /\ FeeShare \in Nat
           /\ FeeShare =< Left /\ FeeShare =< CancellationFee
           /\ FeePlanned \in Nat /\ RefundPlanned \in Nat /\ remainder.amount \in Nat
           /\ Committed \in Nat /\ Spent \in Nat
           /\ NoOvercommit => Confirmed(Due) =< DepositTotal /\ Left = DepositTotal - Confirmed(Due)
<1>0. SpotTypeOK
    BY DEF Books
<1>1. DepositTotal \in Nat /\ Confirmed(Due) \in Nat /\ Committed \in Nat /\ Spent \in Nat
    BY <1>0, SumIs, Names DEF Confirmed, Active
<1>2. Left \in Nat
    BY <1>1, MinusNat DEF Left
<1>3. FeeShare \in Nat /\ FeeShare =< Left /\ FeeShare =< CancellationFee
    <2>1. FeeShare = IF CancellationFee =< Left THEN CancellationFee ELSE Left
        BY <1>2, MinOfTwo, SpotAssumption DEF FeeShare
    <2> QED BY <1>2, <2>1, SpotAssumption
<1>4. FeePlanned \in Nat /\ RefundPlanned \in Nat /\ remainder.amount \in Nat
    <2>1. cancel.fee \in Nat /\ cancel.refund \in Nat /\ remainder.amount \in Nat
        BY <1>0 DEF SpotTypeOK, Cancellations
    <2> QED BY <2>1 DEF FeePlanned, RefundPlanned
<1>5. ASSUME NoOvercommit
      PROVE  Confirmed(Due) =< DepositTotal /\ Left = DepositTotal - Confirmed(Due)
    <2>1. Due \subseteq Payouts /\ {"confirmed"} \subseteq Live
        BY SpotAssumption DEF Due, SpotSlots, Live
    <2>2. Confirmed(Due) =< Active(Payouts)
        BY <1>0, <2>1, SumGrows DEF Confirmed, Active
    <2>3. Active(Payouts) =< DepositTotal
        BY <1>5, Names DEF NoOvercommit
    <2>4. Confirmed(Due) =< DepositTotal
        BY <1>1, <2>2, <2>3, Names
    <2> QED BY <1>1, <2>4 DEF Left, Minus
<1> QED BY <1>1, <1>2, <1>3, <1>4, <1>5

(* What a Spot has committed, by what it is for. *)
LEMMA CommittedParts ==
    ASSUME Books
    PROVE  /\ Active(Due) \in Nat /\ Active({"platform_fee"}) \in Nat
           /\ Active({"refund"}) \in Nat /\ Active({"remainder"}) \in Nat
           /\ Committed = Active(Due) + Active({"platform_fee"}) + Active({"refund"})
                            + Active({"remainder"})
           /\ Active(Due) = Active(Claims) + Active({"creation_fee"})
           /\ Active(Claims) \in Nat /\ Active({"creation_fee"}) \in Nat
BY PayoutParts, Names DEF Active, Books

(* A Spot that is not closing has committed rewards and its fee only. *)
LEMMA OpenCommitted ==
    ASSUME Books, status # "banned", ~Closing
    PROVE  /\ Committed = Active(Claims) + Active({"creation_fee"})
           /\ Active({"platform_fee"}) = 0 /\ Active({"refund"}) = 0 /\ Active({"remainder"}) = 0
           /\ FeePlanned = 0 /\ RefundPlanned = 0
<1>0. SpotTypeOK
    BY DEF Books
<1>1. ~HasRow({"platform_fee"}) /\ ~HasRow({"refund"})
    BY DEF Closing, HasRow, CancelSlots
<1>2. ~HasRow({"remainder"})
    BY DEF Books, Marks, RemainderMarks, Closing
<1>3. Active({"platform_fee"}) = 0 /\ Active({"refund"}) = 0 /\ Active({"remainder"}) = 0
    BY <1>0, <1>1, <1>2, NoRowsActive
<1>4. FeePlanned = 0 /\ RefundPlanned = 0
    BY DEF Closing, Sending, FeePlanned, RefundPlanned
<1> QED BY <1>3, <1>4, CommittedParts

(* In closed books what is due is confirmed, and nobody but the creator and *)
(* the platform gets more.                                                  *)
LEMMA ClosedCommitted ==
    ASSUME Books, ClosedBooks
    PROVE  Active(Due) = Confirmed(Due)
<1>1. SpotTypeOK /\ ~PendingIn(TransIds, Due)
    BY DEF Books, ClosedBooks, PendingIn
<1> QED BY <1>1, SumSettled

(* Before a cancellation has ended there is no remainder. *)
LEMMA NoRemainderYet ==
    ASSUME Books, status \in {"draft", "published", "cancelled"}
    PROVE  Active({"remainder"}) = 0 /\ ~PendingIn(TransIds, {"remainder"})
<1>1. SpotTypeOK /\ ~HasRow({"remainder"})
    BY DEF Books, Marks, RemainderMarks
<1> QED BY <1>1, NoRowsActive DEF HasRow, PendingIn

(***************************************************************************)
(* No new row overcommits the Spot: each coroutine adds what it decided    *)
(* earlier, and what the others did in between leaves room for it.         *)
(***************************************************************************)
LEMMA CreationFeeFits ==
    ASSUME Ledger, SubmitCreationFee
    PROVE  Committed + CreationFee =< DepositTotal
<1>0. Books /\ Funding /\ ClaimsCounted /\ SpotTypeOK
    BY DEF Ledger, Books
<1>1. ~HasNonFailed("creation_fee") /\ Funded /\ ~cancelling
    BY DEF SubmitCreationFee, CreateIntent
<1>2. status \in {"draft", "published"}
    BY <1>0, <1>1, ConfirmedIsActive DEF SubmitCreationFee, Funding, PublicIsPaid
<1>3. ~Closing /\ status # "banned"
    BY <1>0, <1>1, <1>2, ClosingMarked
<1>4. Active({"creation_fee"}) = 0
    BY <1>0, <1>1, NoneActive
<1>5. Active(Claims) =< TotalValue
    BY <1>0, <1>3, RewardsAffordable
<1>6. Committed = Active(Claims) + Active({"creation_fee"}) /\ Active(Claims) \in Nat
    BY <1>0, <1>3, OpenCommitted, CommittedParts
<1>7. DepositTotal >= TotalValue + CreationFee /\ DepositTotal \in Nat
    BY <1>0, <1>1, Shares DEF Funded, Required
<1> QED BY <1>4, <1>5, <1>6, <1>7, SpotAssumption

LEMMA RewardFits ==
    ASSUME Ledger, NEW c \in Claims, PaysClaim(c)
    PROVE  Committed + Reward =< DepositTotal
<1>0. Books /\ Funding /\ ClaimsCounted /\ BooksClosed /\ SpotTypeOK
    BY DEF Ledger, Books
<1>1. ~HasNonFailed(c) /\ status # "banned" /\ claim[c] = "success"
    BY <1>0 DEF PaysClaim, ClaimsCounted, DecidedSucceeded
<1>2. ~Closing
    BY <1>0, <1>1, ConfirmedIsActive DEF BooksClosed, ClosedBooks, ClaimsPaid
<1>3. Active(Claims) + Reward =< TotalValue
    BY <1>0, <1>1, RewardsAffordable
<1>4. Active({"creation_fee"}) =< CreationFee
    BY <1>0, FeeOnce DEF ClaimsCounted
<1>5. /\ Committed = Active(Claims) + Active({"creation_fee"})
      /\ Active(Claims) \in Nat /\ Active({"creation_fee"}) \in Nat
    BY <1>0, <1>1, <1>2, OpenCommitted, CommittedParts
<1>6. DepositTotal >= TotalValue + CreationFee /\ DepositTotal \in Nat
    BY <1>0, <1>1, Shares DEF Funded, Required, Funding, ClaimsAfterFunds
<1>7. Reward \in Nat
    BY <1>0, Quantities
<1> QED BY <1>3, <1>4, <1>5, <1>6, <1>7, SpotAssumption

LEMMA LegsFit ==
    ASSUME Ledger, NoOvercommit, CancelBudget, cancel.pc \in Sending
    PROVE  Committed + FeePlanned + RefundPlanned =< DepositTotal
<1>0. Books /\ BooksClosed /\ Marks
    BY DEF Ledger, Books
<1>1. status \in {"draft", "published", "cancelled"}
    BY <1>0 DEF Marks, StatusMarks, CancelMarks
<1>2. ClosedBooks
    BY <1>0, <1>1 DEF BooksClosed, Closing
<1>3. Active(Due) = Confirmed(Due) /\ Active({"remainder"}) = 0
    BY <1>0, <1>1, <1>2, ClosedCommitted, NoRemainderYet
<1>4. /\ Active({"platform_fee"}) + FeePlanned =< FeeShare
      /\ Active({"refund"}) + RefundPlanned =< Left - FeeShare
    BY <1>1 DEF CancelBudget
<1>5. /\ Confirmed(Due) =< DepositTotal /\ Left = DepositTotal - Confirmed(Due)
      /\ DepositTotal \in Nat /\ Left \in Nat /\ FeeShare \in Nat
      /\ FeePlanned \in Nat /\ RefundPlanned \in Nat
    BY <1>0, Shares
<1>6. /\ Active(Due) \in Nat /\ Active({"platform_fee"}) \in Nat
      /\ Active({"refund"}) \in Nat /\ Active({"remainder"}) \in Nat
      /\ Committed = Active(Due) + Active({"platform_fee"}) + Active({"refund"})
                       + Active({"remainder"})
    BY <1>0, CommittedParts
<1> QED BY <1>3, <1>4, <1>5, <1>6

LEMMA SweepFits ==
    ASSUME WholePage, Ledger, NoOvercommit, ~PendingIn(Page, Slots)
    PROVE  /\ Committed = Spent /\ Spent + Unswept = DepositTotal /\ Unswept \in Nat
           /\ ~PendingIn(TransIds, Slots)
<1>0. Books /\ SpotTypeOK
    BY DEF Ledger, Books
<1>1. ~PendingIn(TransIds, Slots)
    BY <1>0, PageSums
<1>2. ~PendingIn(TransIds, Payouts)
    BY <1>1 DEF PendingIn, Slots
<1>3. Committed = Spent
    BY <1>0, <1>2, SumSettled, Names
<1>4. Unswept = Minus(DepositTotal, Spent)
    BY <1>0, PageSums, Names DEF Unswept
<1>5. Spent =< DepositTotal /\ Spent \in Nat /\ DepositTotal \in Nat
    BY <1>0, <1>3, Shares DEF NoOvercommit
<1> QED BY <1>1, <1>3, <1>4, <1>5 DEF Minus

LEMMA AddFits ==
    ASSUME WholePage, Ledger, Budgets, NoRace, AddStep
    PROVE  \E s, a, h : RowAdded(s, a, h) /\ (s \in Payouts => Committed + a =< DepositTotal)
<1>0. Books /\ Deposit \notin Payouts /\ cancel \in Cancellations
    BY OutboxAssumption DEF Ledger, Books, SpotTypeOK
<1>n. /\ DepositTotal \in Nat /\ Committed \in Nat /\ FeePlanned \in Nat /\ RefundPlanned \in Nat
    BY <1>0, Shares
<1>1. ASSUME NEW d, RowAdded(Deposit, d, "chain")
      PROVE  \E s, a, h : RowAdded(s, a, h) /\ (s \in Payouts => Committed + a =< DepositTotal)
    BY <1>0, <1>1
<1>2. CASE SubmitCreationFee /\ RowAdded("creation_fee", CreationFee, "local")
    BY <1>2, CreationFeeFits
<1>3. ASSUME NEW c \in Claims, PaysClaim(c)
      PROVE  RowAdded(c, Reward, "local") /\ Committed + Reward =< DepositTotal
    BY <1>3, RewardFits DEF PaysClaim
<1>4. CASE CancelFee /\ RowAdded("platform_fee", cancel.fee, "local")
    <2>1. cancel.pc \in Sending /\ FeePlanned = cancel.fee
        BY <1>4 DEF CancelFee, Sending, FeePlanned
    <2>2. Committed + FeePlanned + RefundPlanned =< DepositTotal
        BY <2>1, LegsFit DEF Budgets
    <2>3. Committed + cancel.fee =< DepositTotal
        BY <1>n, <2>1, <2>2
    <2> QED BY <1>4, <2>3
<1>5. CASE CancelRefund /\ RowAdded("refund", cancel.refund, "local")
    <2>1. cancel.pc \in Sending /\ RefundPlanned = cancel.refund
        BY <1>5 DEF CancelRefund, Sending, RefundPlanned
    <2>2. Committed + FeePlanned + RefundPlanned =< DepositTotal
        BY <2>1, LegsFit DEF Budgets
    <2>3. Committed + cancel.refund =< DepositTotal
        BY <1>n, <2>1, <2>2
    <2> QED BY <1>5, <2>3
<1>6. CASE RemainderSubmit /\ RowAdded("remainder", remainder.amount, "local")
    <2>1. remainder.pc = "checked"
        BY <1>6 DEF RemainderSubmit
    <2>2. status = "completed"
        BY <1>0, <2>1 DEF NoRace, Books, Marks, RemainderMarks
    <2> QED BY <1>6, <2>1, <2>2 DEF Budgets, RemainderBudget
<1>7. CASE SweepSubmit /\ RowAdded("platform_fee", Unswept, "local")
    <2>1. ~PendingIn(Page, Slots)
        BY <1>7 DEF SweepSubmit
    <2>2. Committed + Unswept = DepositTotal
        BY <2>1, SweepFits DEF Budgets
    <2> QED BY <1>7, <1>n, <2>2
<1> QED BY <1>1, <1>2, <1>3, <1>4, <1>5, <1>6, <1>7, Zenon DEF AddStep

LEMMA NoOvercommitStep ==
    ASSUME WholePage, Ledger, Ledger', Budgets, NoRace, [SpotNext]_vars
    PROVE  NoOvercommit' /\ DepositTotal' >= DepositTotal
<1>0. SpotTypeOK /\ SpotTypeOK' /\ IInv /\ Books /\ Deposit \notin Payouts
    BY OutboxAssumption DEF Ledger, Books
<1>n. DepositTotal \in Nat /\ Committed \in Nat /\ Committed = Active(Payouts)
    BY <1>0, Shares, Names
<1>p. Committed' = Active(Payouts)'
    BY Names DEF Committed, Active, SumOf, Live, AmountOf
<1>m. Active(Payouts)' \in Nat
    <2>1. trans' \in [TransIds -> Rows]
        BY <1>0 DEF SpotTypeOK, TypeOK
    <2>2. AmountOf(trans', TransIds, Payouts, Live) \in Nat
        BY <2>1, AmountNat
    <2> QED BY <2>2 DEF Active, SumOf, Live, AmountOf
<1>1. CASE RowsKept
    <2>1. Active(Payouts)' = Active(Payouts)
        BY <1>0, <1>1, SumKept DEF Active
    <2>2. DepositTotal' = DepositTotal
        BY <1>0, <1>1, DepositTotalKept
    <2> QED BY <1>n, <1>p, <2>1, <2>2 DEF NoOvercommit, Budgets
<1>2. CASE AddStep
    <2>1. PICK s, a, h : RowAdded(s, a, h) /\ (s \in Payouts => Committed + a =< DepositTotal)
        BY <1>2, AddFits
    <2>2. DepositTotal' = DepositTotal
        BY <1>0, <2>1, DepositTotalKept
    <2>3. s \in Payouts => Active(Payouts)' = Active(Payouts) + a
        BY <1>0, <2>1, SumAdded
    <2>4. s \notin Payouts => Active(Payouts)' = Active(Payouts)
        BY <1>0, <2>1, SumAdded
    <2> QED BY <1>n, <1>p, <2>1, <2>2, <2>3, <2>4 DEF NoOvercommit, Budgets
<1>3. ASSUME NEW t \in TransIds, RowFinalised(t) PROVE NoOvercommit' /\ DepositTotal' >= DepositTotal
    <2>1. Active(Payouts)' =< Active(Payouts) /\ DepositTotal' >= DepositTotal
        BY <1>0, <1>3, SumFinalised
    <2>2. DepositTotal' \in Nat
        <3>1. trans' \in [TransIds -> Rows]
            BY <1>0 DEF SpotTypeOK, TypeOK
        <3>2. AmountOf(trans', TransIds, {Deposit}, {"confirmed"}) \in Nat
            BY <3>1, AmountNat
        <3> QED BY <3>2 DEF DepositTotal, ConfirmedIn, AmountOf
    <2> QED BY <1>n, <1>p, <1>m, <2>1, <2>2 DEF NoOvercommit, Budgets
<1> QED BY <1>0, <1>1, <1>2, <1>3, StepKinds

(* Once a Spot is closing, what is left to go back no longer moves. *)
LEMMA LeftKept ==
    ASSUME Ledger, Ledger', Closing, [SpotNext]_vars
    PROVE  Left' = Left /\ FeeShare' = FeeShare
<1>0. SpotTypeOK /\ SpotTypeOK' /\ IInv /\ ClosedBooks
    BY DEF Ledger, Books, BooksClosed
<1>1. DepositTotal' = DepositTotal /\ Confirmed(Due)' = Confirmed(Due)
    <2>1. CASE RowsKept
        BY <1>0, <2>1, DepositTotalKept, SumKept DEF Confirmed
    <2>2. CASE AddStep
        <3>1. PICK s, a, h : RowAdded(s, a, h)
            BY <2>2 DEF AddStep, PaysClaim
        <3> QED BY <1>0, <3>1, DepositTotalKept, SumAdded
    <2>3. ASSUME NEW t \in TransIds, RowFinalised(t)
          PROVE  DepositTotal' = DepositTotal /\ Confirmed(Due)' = Confirmed(Due)
        <3>1. trans[t].slot \notin Due /\ trans[t].slot # Deposit
            BY <1>0, <2>3 DEF ClosedBooks, PendingIn, RowFinalised
        <3> QED BY <1>0, <2>3, <3>1, DepositTotalKept, SumFinalised
    <2> QED BY <1>0, <2>1, <2>2, <2>3, StepKinds
<1>2. Left' = Left
    BY <1>1 DEF Left, Minus
<1> QED BY <1>2 DEF FeeShare

(* A cancellation plans its sends once; later steps only use the plan up.   *)
PlanDrawn ==
    /\ FeePlanned' = IF cancel'.pc = "planned" THEN FeePlanned ELSE 0
    /\ RefundPlanned' = IF cancel'.pc \in {"planned", "fee_sending", "refund"}
                        THEN RefundPlanned ELSE 0

LEMMA PlansStep ==
    ASSUME SpotTypeOK, IInv, [SpotNext]_vars
    PROVE  \/ /\ Prepares
              /\ cancel' = [cancel EXCEPT !.pc = "planned", !.fee = FeeDue, !.refund = RefundDue]
           \/ PlanDrawn
<1>c. cancel \in Cancellations
    BY DEF SpotTypeOK
<1>1. CASE cancel' = cancel
    BY <1>1 DEF PlanDrawn, FeePlanned, RefundPlanned
<1>2. CASE SpotCrash \/ CancelCheck \/ CancelLease \/ CancelEnd
    <2>1. cancel'.pc \notin {"planned", "fee_sending", "refund"}
        BY <1>2, CancelStarts DEF SpotCrash, CancelEnd, NoCancel
    <2> QED BY <2>1 DEF PlanDrawn, FeePlanned, RefundPlanned
<1>3. CASE CancelPrepare
    <2>1. CASE cancel' = [cancel EXCEPT !.pc = "release"]
        BY <1>c, <2>1 DEF PlanDrawn, FeePlanned, RefundPlanned, Cancellations
    <2>2. CASE cancel' # [cancel EXCEPT !.pc = "release"]
        BY <1>3, <2>2, Zenon DEF CancelPrepare, Prepares
    <2> QED BY <2>1, <2>2
<1>4. CASE CancelResolveFails
    BY <1>c, <1>4 DEF CancelResolveFails, PlanDrawn, FeePlanned, RefundPlanned, Cancellations
<1>5. CASE CancelFee
    <2>1. /\ cancel.pc = "planned"
          /\ \/ cancel' = [cancel EXCEPT !.pc = "refund"]
             \/ cancel' = [cancel EXCEPT !.pc = "release"]
             \/ cancel' = [cancel EXCEPT !.pc = "fee_sending", !.row = count + 1]
        BY <1>5, Zenon DEF CancelFee, CancelSend
    <2> QED BY <1>c, <2>1 DEF PlanDrawn, FeePlanned, RefundPlanned, Cancellations
<1>6. CASE CancelRefund
    <2>1. /\ cancel.pc = "refund"
          /\ \/ cancel' = [cancel EXCEPT !.pc = "release"]
             \/ cancel' = [cancel EXCEPT !.pc = "refund_sending", !.row = count + 1]
        BY <1>6, Zenon DEF CancelRefund, CancelSend
    <2> QED BY <1>c, <2>1 DEF PlanDrawn, FeePlanned, RefundPlanned, Cancellations
<1>7. CASE CancelSent
    <2>1. \/ cancel' = [cancel EXCEPT !.row = 0, !.pc = "block"]
          \/ cancel' = [cancel EXCEPT !.row = 0, !.pc = "release"]
          \/ cancel.pc = "fee_sending" /\ cancel' = [cancel EXCEPT !.row = 0, !.pc = "refund"]
        BY <1>7, Zenon DEF CancelSent
    <2> QED BY <1>c, <2>1 DEF PlanDrawn, FeePlanned, RefundPlanned, Cancellations
<1> QED BY <1>1, <1>2, <1>3, <1>4, <1>5, <1>6, <1>7, Frames DEF CancelStep

(* The two amounts CancelPrepare computes are what the shares still lack.   *)
LEMMA PlanIsShare ==
    ASSUME WholePage, Books
    PROVE  /\ Remaining(trans) = Left
           /\ FeeDue = Minus(FeeShare, Confirmed({"platform_fee"}))
           /\ RefundDue = Minus(Minus(Left, FeeShare), Confirmed({"refund"}))
<1>1. Remaining(trans) = Left
    BY PageSums, Names DEF Remaining, Left, Due
<1> QED BY <1>1, PageSums DEF FeeDue, RefundDue, FeeShare

(* Both legs before and after a step that leaves the Spot unbanned. *)
LEMMA LegsStep ==
    ASSUME SpotTypeOK, SpotTypeOK', IInv, [SpotNext]_vars, status # "banned"
    PROVE  /\ \/ Active({"platform_fee"})' =< Active({"platform_fee"})
              \/ SendsFee /\ Active({"platform_fee"})' = Active({"platform_fee"}) + cancel.fee
           /\ \/ Active({"refund"})' =< Active({"refund"})
              \/ SendsRefund /\ Active({"refund"})' = Active({"refund"}) + cancel.refund
<1>0. /\ "platform_fee" \in Payouts /\ "refund" \in Payouts /\ Deposit \notin Payouts
      /\ "platform_fee" \notin Claims /\ "refund" \notin Claims
    BY SpotAssumption, OutboxAssumption DEF SpotSlots
<1>n. Active({"platform_fee"}) \in Nat /\ Active({"refund"}) \in Nat
    BY SumIs DEF Active
<1>1. CASE RowsKept
    BY <1>1, <1>n, SumKept DEF Active
<1>2. ASSUME NEW t \in TransIds, RowFinalised(t)
      PROVE  /\ Active({"platform_fee"})' =< Active({"platform_fee"})
             /\ Active({"refund"})' =< Active({"refund"})
    BY <1>0, <1>2, SumFinalised
<1>3. CASE AddStep
    <2>1. ASSUME NEW s, s \notin CancelSlots, NEW a, NEW h, RowAdded(s, a, h)
          PROVE  /\ Active({"platform_fee"})' = Active({"platform_fee"})
                 /\ Active({"refund"})' = Active({"refund"})
        <3>1. s \notin {"platform_fee"} /\ s \notin {"refund"}
            BY <2>1 DEF CancelSlots
        <3>2. Active({"platform_fee"})' = Active({"platform_fee"})
            BY <2>1, <3>1, SumAdded, Zenon
        <3>3. Active({"refund"})' = Active({"refund"})
            BY <2>1, <3>1, SumAdded, Zenon
        <3> QED BY <3>2, <3>3
    <2>2. SendsFee => Active({"platform_fee"})' = Active({"platform_fee"}) + cancel.fee
        BY SumAdded DEF SendsFee
    <2>3. SendsRefund => Active({"refund"})' = Active({"refund"}) + cancel.refund
        BY SumAdded DEF SendsRefund
    <2>4. SendsFee => Active({"refund"})' = Active({"refund"})
        BY SumAdded DEF SendsFee
    <2>5. SendsRefund => Active({"platform_fee"})' = Active({"platform_fee"})
        BY SumAdded DEF SendsRefund
    <2>6. ~SweepSubmit
        BY DEF SweepSubmit, SweepOpen
    <2>7. \/ \E s, a, h : s \notin CancelSlots /\ RowAdded(s, a, h)
          \/ SendsFee \/ SendsRefund
        <3>1. /\ Deposit \notin CancelSlots /\ "creation_fee" \notin CancelSlots
              /\ "remainder" \notin CancelSlots /\ \A c \in Claims : c \notin CancelSlots
            BY <1>0 DEF CancelSlots
        <3> QED BY <1>3, <2>6, <3>1, Zenon DEF AddStep, PaysClaim, SendsFee, SendsRefund
    <2> QED BY <1>n, <2>1, <2>2, <2>3, <2>4, <2>5, <2>7
<1> QED BY <1>1, <1>2, <1>3, StepKinds

(* No share is ever negative. *)
LEMMA SharesNext ==
    Books' => (0 =< FeeShare /\ 0 =< Left - FeeShare)'
<1>1. Books => 0 =< FeeShare /\ 0 =< Left - FeeShare
    BY Shares
<1> QED BY <1>1, PTL

(* A part of a share that is drawn from what is planned stays within it. *)
LEMMA Drawn ==
    ASSUME NEW a \in Nat, NEW b \in Nat, NEW p \in Nat, NEW q \in Nat, NEW share \in Nat,
           a + p =< share, q =< p, b =< a \/ (b = a + p /\ q = 0)
    PROVE  b + q =< share
OBVIOUS

LEMMA CancelBudgetStep ==
    ASSUME WholePage, Ledger, Ledger', Budgets, [SpotNext]_vars
    PROVE  CancelBudget'
<1> SUFFICES ASSUME status' # "banned"
             PROVE  /\ Active({"platform_fee"})' + FeePlanned' =< FeeShare'
                    /\ Active({"refund"})' + RefundPlanned' =< Left' - FeeShare'
    BY DEF CancelBudget
<1>0. SpotTypeOK /\ SpotTypeOK' /\ IInv /\ Books /\ Marks
    BY DEF Ledger, Books
<1>b. status # "banned"
    BY <1>0, Onward
<1>n. Active({"platform_fee"}) \in Nat /\ Active({"refund"}) \in Nat
    BY <1>0, CommittedParts
<1>m. Active({"platform_fee"})' \in Nat /\ Active({"refund"})' \in Nat
    <2>1. trans' \in [TransIds -> Rows]
        BY <1>0 DEF SpotTypeOK, TypeOK
    <2>2. /\ AmountOf(trans', TransIds, {"platform_fee"}, Live) \in Nat
          /\ AmountOf(trans', TransIds, {"refund"}, Live) \in Nat
        BY <2>1, AmountNat
    <2> QED BY <2>2 DEF Active, SumOf, Live, AmountOf
<1>s. /\ Left \in Nat /\ FeeShare \in Nat /\ FeeShare =< Left
      /\ FeePlanned \in Nat /\ RefundPlanned \in Nat
    BY <1>0, Shares
<1>t. 0 =< FeeShare' /\ 0 =< Left' - FeeShare'
    BY SharesNext DEF Ledger
<1>l. /\ Active({"platform_fee"})' =< Active({"platform_fee"}) \/ (SendsFee /\ Active({"platform_fee"})' = Active({"platform_fee"}) + cancel.fee)
      /\ Active({"refund"})' =< Active({"refund"}) \/ (SendsRefund /\ Active({"refund"})' = Active({"refund"}) + cancel.refund)
    BY <1>0, <1>b, LegsStep
<1>i. Active({"platform_fee"}) + FeePlanned =< FeeShare /\ Active({"refund"}) + RefundPlanned =< Left - FeeShare
    BY <1>b DEF Budgets, CancelBudget
<1>f. SendsFee => FeePlanned = cancel.fee /\ cancel.pc \in Sending /\ ~Prepares /\ cancel'.pc # "planned"
    <2>1. SendsFee => cancel.pc = "planned" /\ cancel' = [cancel EXCEPT !.pc = "fee_sending", !.row = count + 1]
        BY DEF SendsFee, CancelFee
    <2>2. cancel \in Cancellations
        BY <1>0 DEF SpotTypeOK
    <2> QED BY <2>1, <2>2 DEF FeePlanned, Sending, Prepares, CancelPrepare, Cancellations
<1>r. SendsRefund => /\ RefundPlanned = cancel.refund /\ cancel.pc \in Sending /\ ~Prepares
                     /\ cancel'.pc \notin {"planned", "fee_sending", "refund"}
    <2>1. SendsRefund => cancel.pc = "refund" /\ cancel' = [cancel EXCEPT !.pc = "refund_sending", !.row = count + 1]
        BY DEF SendsRefund, CancelRefund
    <2>2. cancel \in Cancellations
        BY <1>0 DEF SpotTypeOK
    <2> QED BY <2>1, <2>2 DEF RefundPlanned, Sending, Prepares, CancelPrepare, Cancellations
<1>1. CASE Prepares /\ cancel' = [cancel EXCEPT !.pc = "planned", !.fee = FeeDue, !.refund = RefundDue]
    <2>1. RowsKept
        BY <1>0, <1>1, OthersKeep DEF Prepares, CancelPrepare
    <2>2. Left' = Left /\ FeeShare' = FeeShare
        <3>1. DepositTotal' = DepositTotal /\ Confirmed(Due)' = Confirmed(Due)
            BY <1>0, <2>1, DepositTotalKept, SumKept DEF Confirmed
        <3>2. Left' = Left
            BY <3>1 DEF Left, Minus
        <3> QED BY <3>2 DEF FeeShare
    <2>3. Active({"platform_fee"})' = Active({"platform_fee"}) /\ Active({"refund"})' = Active({"refund"})
        BY <1>0, <2>1, SumKept DEF Active
    <2>4. FeePlanned' = FeeDue /\ RefundPlanned' = RefundDue
        BY <1>0, <1>1 DEF FeePlanned, RefundPlanned, SpotTypeOK, Cancellations
    <2>5. Active({"platform_fee"}) = Confirmed({"platform_fee"}) /\ Active({"refund"}) = Confirmed({"refund"})
        <3>1. ~PendingIn(TransIds, {"platform_fee"}) /\ ~PendingIn(TransIds, {"refund"})
            <4>1. ~PendingIn(TransIds, Claims \cup CancelSlots \cup {"creation_fee"})
                BY <1>0, <1>1, PageSums DEF Prepares, MustDefer
            <4> QED BY <4>1 DEF PendingIn, CancelSlots
        <3> QED BY <1>0, <3>1, SumSettled
    <2>6. FeeDue = Minus(FeeShare, Active({"platform_fee"})) /\ RefundDue = Minus(Minus(Left, FeeShare), Active({"refund"}))
        BY <1>0, <2>5, PlanIsShare
    <2>7. FeeDue = FeeShare - Active({"platform_fee"})
        BY <1>n, <1>s, <1>i, <2>6 DEF Minus
    <2>8. Minus(Left, FeeShare) = Left - FeeShare
        BY <1>s DEF Minus
    <2>9. RefundDue = Left - FeeShare - Active({"refund"})
        BY <1>n, <1>s, <1>i, <2>6, <2>8 DEF Minus
    <2> QED BY <1>n, <1>s, <2>2, <2>3, <2>4, <2>7, <2>9
<1>2. CASE PlanDrawn
    <2>0. /\ FeePlanned' =< FeePlanned /\ FeePlanned' \in Nat
          /\ RefundPlanned' =< RefundPlanned /\ RefundPlanned' \in Nat
        BY <1>2, <1>s DEF PlanDrawn
    <2>f. \/ Active({"platform_fee"})' =< Active({"platform_fee"})
          \/ Active({"platform_fee"})' = Active({"platform_fee"}) + FeePlanned /\ FeePlanned' = 0 /\ cancel.pc \in Sending
        <3>1. SendsFee => FeePlanned' = 0
            BY <1>2, <1>f DEF PlanDrawn
        <3> QED BY <1>l, <1>f, <3>1
    <2>r. \/ Active({"refund"})' =< Active({"refund"})
          \/ Active({"refund"})' = Active({"refund"}) + RefundPlanned /\ RefundPlanned' = 0 /\ cancel.pc \in Sending
        <3>1. SendsRefund => RefundPlanned' = 0
            BY <1>2, <1>r DEF PlanDrawn
        <3> QED BY <1>l, <1>r, <3>1
    <2>1. CASE Closing
        <3>1. Left' = Left /\ FeeShare' = FeeShare
            BY <2>1, LeftKept
        <3>2. Active({"platform_fee"})' + FeePlanned' =< FeeShare
            BY <1>n, <1>m, <1>s, <1>i, <2>0, <2>f, Drawn
        <3>3. Active({"refund"})' + RefundPlanned' =< Left - FeeShare
            <4>1. Left - FeeShare \in Nat
                BY <1>s
            <4> QED BY <1>n, <1>m, <1>s, <1>i, <2>0, <2>r, <4>1, Drawn
        <3> QED BY <3>1, <3>2, <3>3
    <2>2. CASE ~Closing
        <3>1. /\ Active({"platform_fee"}) = 0 /\ Active({"refund"}) = 0
              /\ FeePlanned = 0 /\ RefundPlanned = 0 /\ cancel.pc \notin Sending
            BY <1>0, <1>b, <2>2, OpenCommitted DEF Closing
        <3>2. Active({"platform_fee"})' = 0 /\ FeePlanned' = 0
            BY <1>m, <2>0, <2>f, <3>1
        <3>3. Active({"refund"})' = 0 /\ RefundPlanned' = 0
            BY <1>m, <2>0, <2>r, <3>1
        <3>4. Active({"platform_fee"})' + FeePlanned' = 0
            BY <3>2
        <3>5. Active({"refund"})' + RefundPlanned' = 0
            BY <3>3
        <3> QED BY <1>t, <3>4, <3>5
    <2> QED BY <2>1, <2>2
<1> QED BY <1>0, <1>1, <1>2, PlansStep

(* What a ready Spot has committed, and what its remainder is taken from.   *)
LEMMA RemainderLeft ==
    ASSUME WholePage, Ledger, NoOvercommit, RemainderPrepare
    PROVE  Committed + RemainderDue = DepositTotal
<1>0. SpotTypeOK /\ Books /\ Marks
    BY DEF Ledger, Books
<1>n. DepositTotal \in Nat /\ Committed \in Nat
    BY <1>0, Shares
<1>1. ClosedBooks /\ ~PendingIn(TransIds, {"remainder"})
    BY <1>0, RemainderCloses
<1>2. ~HasRow(CancelSlots)
    BY <1>0 DEF RemainderPrepare, RemainderReady, Marks, CancelMarks
<1>3. Active({"platform_fee"}) = 0 /\ Active({"refund"}) = 0
    BY <1>0, <1>2, NoRowsActive DEF HasRow, CancelSlots
<1>4. Active(Due) = Confirmed(Due) /\ Active({"remainder"}) = Confirmed({"remainder"})
    BY <1>0, <1>1, ClosedCommitted, SumSettled
<1>5. RemainderDue = Minus(DepositTotal, Confirmed(Due \cup {"remainder"}))
    <2>1. Claims \cup {"creation_fee", "remainder"} = Due \cup {"remainder"}
        BY DEF Due
    <2> QED BY <1>0, <2>1, PageSums, Names DEF RemainderDue
<1>6. Confirmed(Due \cup {"remainder"}) = Confirmed(Due) + Confirmed({"remainder"})
    BY <1>0, PayoutParts DEF Confirmed
<1>7. Committed = Active(Due) + Active({"platform_fee"}) + Active({"refund"})
                     + Active({"remainder"})
       /\ Active(Due) \in Nat /\ Active({"remainder"}) \in Nat
    BY <1>0, CommittedParts
<1>8. Committed = Confirmed(Due \cup {"remainder"})
    BY <1>3, <1>4, <1>6, <1>7
<1>9. Committed =< DepositTotal
    BY DEF NoOvercommit
<1> QED BY <1>n, <1>5, <1>8, <1>9 DEF Minus

(* A decided remainder stays covered: nothing else is paid out meanwhile. *)
LEMMA RemainderBudgetStep ==
    ASSUME WholePage, Ledger, Ledger', Budgets, NoRace, [SpotNext]_vars
    PROVE  RemainderBudget'
<1> SUFFICES ASSUME remainder'.pc # "idle", status' = "completed"
             PROVE  Committed' + remainder'.amount =< DepositTotal'
    BY DEF RemainderBudget
<1>0. SpotTypeOK /\ SpotTypeOK' /\ IInv /\ Books /\ Marks /\ Funding /\ ClaimsCounted /\ BooksClosed
    BY DEF Ledger, Books
<1>n. DepositTotal \in Nat /\ Committed \in Nat /\ remainder.amount \in Nat /\ Committed = Active(Payouts)
    BY <1>0, Shares, Names
<1>p. Committed' = Active(Payouts)'
    BY Names DEF Committed, Active, SumOf, Live, AmountOf
<1>m. Committed' \in Nat /\ DepositTotal' \in Nat
    <2>1. Books => Committed \in Nat /\ DepositTotal \in Nat
        BY Shares
    <2>2. Books' => Committed' \in Nat /\ DepositTotal' \in Nat
        <3>1. trans' \in [TransIds -> Rows]
            BY <1>0 DEF SpotTypeOK, TypeOK
        <3>2. /\ AmountOf(trans', TransIds, Payouts, {"pending", "confirmed"}) \in Nat
              /\ AmountOf(trans', TransIds, {Deposit}, {"confirmed"}) \in Nat
            BY <3>1, AmountNat
        <3> QED BY <3>2 DEF Committed, DepositTotal, ConfirmedIn, AmountOf
    <2> QED BY <2>2 DEF Ledger
<1>d. NoOvercommit' /\ DepositTotal' >= DepositTotal
    BY NoOvercommitStep
<1>1. CASE RemainderPrepare
    <2>1. RowsKept
        BY <1>0, <1>1, OthersKeep DEF RemainderPrepare
    <2>2. Active(Payouts)' = Active(Payouts) /\ DepositTotal' = DepositTotal
        BY <1>0, <2>1, SumKept, DepositTotalKept DEF Active
    <2>3. remainder'.amount = RemainderDue
        BY <1>1 DEF RemainderPrepare, NoRemainder
    <2>4. Committed + RemainderDue = DepositTotal
        BY <1>1, RemainderLeft DEF Budgets
    <2> QED BY <1>n, <1>p, <2>2, <2>3, <2>4
<1>2. CASE ~RemainderPrepare
    <2>1. remainder.pc # "idle" /\ remainder'.amount = remainder.amount /\ ~RemainderSubmit
        <3>1. ~SpotCrash /\ ~RemainderResolveFails /\ ~RemainderSubmit
            BY DEF SpotCrash, RemainderResolveFails, RemainderSubmit, NoRemainder
        <3>2. RemainderCheck => remainder.pc # "idle" /\ remainder'.amount = remainder.amount
            BY <1>0 DEF RemainderCheck, SpotTypeOK, NoRemainder
        <3> QED BY <1>2, <3>1, <3>2, Frames DEF RemainderStep
    <2>2. status = "completed"
        BY <1>0, <2>1, Onward DEF Marks, RemainderMarks
    <2>3. Committed + remainder.amount =< DepositTotal
        BY <2>1, <2>2 DEF Budgets, RemainderBudget
    <2>4. Committed' =< Committed
        <3>1. CASE RowsKept
            <4>1. Active(Payouts)' = Active(Payouts)
                BY <1>0, <3>1, SumKept DEF Active
            <4> QED BY <1>n, <1>p, <4>1
        <3>2. ASSUME NEW t \in TransIds, RowFinalised(t) PROVE Committed' =< Committed
            <4>1. Active(Payouts)' =< Active(Payouts)
                BY <1>0, <3>2, SumFinalised
            <4> QED BY <1>n, <1>p, <4>1
        <3>3. ~AddStep
            <4>1. Closing /\ ClosedBooks /\ cancel.pc \notin Sending
                BY <1>0, <2>2 DEF Closing, BooksClosed, Marks, CancelMarks, StatusMarks
            <4> QED BY <1>0, <2>1, <4>1, ClosingAdds DEF CancelFee, CancelRefund, Sending
        <3> QED BY <1>0, <3>1, <3>2, <3>3, StepKinds
    <2> QED BY <1>n, <1>m, <1>d, <2>1, <2>3, <2>4
<1> QED BY <1>1, <1>2

-----------------------------------------------------------------------------
(***************************************************************************)
(* Square books.  Whichever way a Spot ends, everything deposited has been *)
(* paid out and nothing is on its way.                                     *)
(***************************************************************************)
Square == Spent = DepositTotal /\ ~PendingIn(TransIds, Slots)

EndsSquare == Ended => Square

(* A Spot that may not overcommit is square when nothing is pending and     *)
(* what is confirmed covers the deposits.                                   *)
LEMMA CoveredIsSquare ==
    ASSUME Books, NoOvercommit, ~PendingIn(TransIds, Slots), Spent >= DepositTotal
    PROVE  Square
<1>1. ~PendingIn(TransIds, Payouts)
    BY DEF PendingIn, Slots
<1>2. Committed = Spent
    BY <1>1, SumSettled, Names DEF Books
<1>3. Spent \in Nat /\ DepositTotal \in Nat /\ Committed =< DepositTotal
    BY Shares DEF NoOvercommit
<1> QED BY <1>2, <1>3 DEF Square

(* Two legs that cover what is left. *)
LEMMA LegsCover ==
    ASSUME Books, NoOvercommit, ClosedBooks, status \in {"draft", "published", "cancelled"},
           ~PendingIn(TransIds, CancelSlots), Confirmed(CancelSlots) >= Left
    PROVE  Square
<1>0. SpotTypeOK
    BY DEF Books
<1>1. ~PendingIn(TransIds, {"remainder"})
    BY NoRemainderYet
<1>2. ~PendingIn(TransIds, Slots)
    <2>1. Slots = Due \cup {Deposit} \cup CancelSlots \cup {"remainder"}
        BY SpotAssumption DEF Slots, Due, CancelSlots, SpotSlots
    <2> QED BY <1>1, <2>1 DEF ClosedBooks, PendingIn
<1>3. /\ Confirmed(Due) \in Nat /\ Confirmed({"platform_fee"}) \in Nat
      /\ Confirmed({"refund"}) \in Nat /\ Confirmed({"remainder"}) \in Nat
      /\ Spent = Confirmed(Due) + Confirmed({"platform_fee"}) + Confirmed({"refund"})
                   + Confirmed({"remainder"})
      /\ Confirmed(CancelSlots) = Confirmed({"refund"}) + Confirmed({"platform_fee"})
    BY <1>0, PayoutParts, Names DEF Confirmed
<1>4. /\ DepositTotal \in Nat /\ Left \in Nat
      /\ Confirmed(Due) =< DepositTotal /\ Left = DepositTotal - Confirmed(Due)
    BY Shares
<1>5. Spent >= DepositTotal
    BY <1>3, <1>4
<1> QED BY <1>2, <1>5, CoveredIsSquare

(* The test of the refresher, on the table it has just written.             *)
Covers(tab) ==
    /\ \A t \in Page : tab[t].slot \in CancelSlots => tab[t].status # "pending"
    /\ ConfirmedIn(tab, Page, CancelSlots) >= Remaining(tab)

LEMMA CoversIsSquare ==
    WholePage =>
        (Books /\ NoOvercommit /\ ClosedBooks /\ status = "cancelled" /\ Covers(trans) => Square)
<1> SUFFICES ASSUME WholePage, Books, NoOvercommit, ClosedBooks, status = "cancelled", Covers(trans)
             PROVE  Square
    OBVIOUS
<1>1. ~PendingIn(TransIds, CancelSlots)
    <2>1. ~PendingIn(Page, CancelSlots)
        BY DEF Covers, PendingIn
    <2> QED BY <2>1, PageSums
<1>2. Confirmed(CancelSlots) >= Left
    BY PageSums, PlanIsShare DEF Covers
<1> QED BY <1>1, <1>2, LegsCover

LEMMA CoversIsSquareNext ==
    ASSUME WholePage
    PROVE  (Books /\ NoOvercommit /\ ClosedBooks /\ status = "cancelled" /\ Covers(trans))' => Square'
<1>1. Books /\ NoOvercommit /\ ClosedBooks /\ status = "cancelled" /\ Covers(trans) => Square
    BY CoversIsSquare
<1> QED BY <1>1, PTL

(* Rows that keep what counts keep the books square. *)
LEMMA SquareRows ==
    ASSUME SpotTypeOK, SpotTypeOK', Square, RowsKept
    PROVE  Square'
<1>1. Confirmed(Payouts)' = Confirmed(Payouts) /\ DepositTotal' = DepositTotal
    BY SumKept, DepositTotalKept DEF Confirmed
<1>2. Spent' = Confirmed(Payouts)' /\ Spent = Confirmed(Payouts)
    BY Names DEF Spent, ConfirmedIn, Confirmed, SumOf, AmountOf
<1>3. ~PendingIn(TransIds, Slots)'
    BY DEF Square, PendingIn, RowsKept
<1> QED BY <1>1, <1>2, <1>3 DEF Square

(* An ended Spot whose books are square gets no row any more. *)
LEMMA EndedRests ==
    ASSUME WholePage, Ledger, Budgets, NoRace, Ended, Square, [SpotNext]_vars
    PROVE  RowsKept
<1>0. /\ SpotTypeOK /\ IInv /\ Books /\ Marks /\ Funding /\ ClaimsCounted
      /\ BooksClosed /\ NoOvercommit /\ CancelBudget
    BY DEF Ledger, Books, Budgets
<1>n. /\ DepositTotal \in Nat /\ Committed \in Nat /\ FeePlanned \in Nat /\ RefundPlanned \in Nat
      /\ Committed = DepositTotal
    <2>1. ~PendingIn(TransIds, Payouts)
        BY DEF Square, PendingIn, Slots
    <2>2. Committed = Spent
        BY <1>0, <2>1, SumSettled, Names
    <2> QED BY <1>0, <2>2, Shares DEF Square
<1>s. status \in {"cancelled", "completed", "banned"}
    BY <1>0 DEF Ended, Marks, RemainderMarks, BanMarks
<1>2. ASSUME NEW t \in TransIds, RowFinalised(t) PROVE FALSE
    <2>1. trans[t].slot \in Slots
        BY <1>0 DEF SpotTypeOK, TypeOK, Rows
    <2> QED BY <1>2, <2>1 DEF Square, PendingIn, RowFinalised
<1>3. ASSUME NEW a \in DepositValues, NEW v \in DepositValues \cup {0}, RecordDeposit(a, v)
      PROVE  FALSE
    BY <1>s, <1>3 DEF RecordDeposit
<1>4. ~SubmitCreationFee
    <2>1. SubmitCreationFee => Committed + CreationFee =< DepositTotal
        BY CreationFeeFits
    <2> QED BY <1>n, <2>1, SpotAssumption
<1>5. ASSUME NEW c \in Claims, PaysClaim(c) PROVE FALSE
    <2>1. ~HasNonFailed(c) /\ status # "banned" /\ claim[c] = "success"
        BY <1>0, <1>5 DEF PaysClaim, ClaimsCounted, DecidedSucceeded
    <2>2. Closing
        BY <1>s, <2>1 DEF Closing
    <2> QED BY <1>0, <2>1, <2>2, ConfirmedIsActive DEF BooksClosed, ClosedBooks, ClaimsPaid
<1>6. ~ (CancelFee /\ cancel.fee > 0)
    <2>1. CancelFee => cancel.pc \in Sending /\ FeePlanned = cancel.fee
        BY DEF CancelFee, Sending, FeePlanned
    <2>2. CancelFee => Committed + FeePlanned + RefundPlanned =< DepositTotal
        BY <1>0, <2>1, LegsFit
    <2>3. CancelFee => FeePlanned = 0
        BY <1>n, <2>2
    <2> QED BY <2>1, <2>3
<1>7. ~ (CancelRefund /\ cancel.refund > 0)
    <2>1. CancelRefund => cancel.pc \in Sending /\ RefundPlanned = cancel.refund
        BY DEF CancelRefund, Sending, RefundPlanned
    <2>2. CancelRefund => Committed + FeePlanned + RefundPlanned =< DepositTotal
        BY <1>0, <2>1, LegsFit
    <2>3. CancelRefund => RefundPlanned = 0
        BY <1>n, <2>2
    <2> QED BY <2>1, <2>3
<1>8. ~RemainderSubmit
    BY <1>0 DEF RemainderSubmit, Ended, NoRace, Marks, RemainderMarks, BanMarks
<1>9. ~SweepSubmit
    <2>1. SweepSubmit => Unswept > 0 /\ ~PendingIn(Page, Slots)
        BY DEF SweepSubmit
    <2>2. SweepSubmit => Spent + Unswept = DepositTotal /\ Unswept \in Nat
        BY <1>0, <2>1, SweepFits
    <2> QED BY <1>n, <2>1, <2>2 DEF Square
<1>10. ~AddStep
    BY <1>3, <1>4, <1>5, <1>6, <1>7, <1>8, <1>9, Zenon DEF AddStep
<1> QED BY <1>0, <1>2, <1>10, StepKinds

LEMMA SquareStays ==
    ASSUME WholePage, Ledger, Ledger', Budgets, NoRace, Ended, Square, [SpotNext]_vars
    PROVE  Square'
BY EndedRests, SquareRows DEF Ledger, Books

(***************************************************************************)
(* A step that ends a Spot has seen that nothing is left.                  *)
(***************************************************************************)
(* A cancellation with no amount to send. *)
LEMMA CancelEndsSquare ==
    ASSUME WholePage, Ledger, Budgets, NoLateClaim', CancelPrepare,
           status # "cancelled", status' = "cancelled"
    PROVE  Square /\ UNCHANGED <<trans, count>>
<1>0. Books /\ SpotTypeOK /\ Funding /\ NoOvercommit
    BY DEF Ledger, Books, Budgets
<1>1. Prepares /\ FeeDue + RefundDue = 0 /\ UNCHANGED <<trans, count>>
    BY Zenon DEF CancelPrepare, Prepares, outboxVars
<1>2. ClosedBooks /\ ~PendingIn(TransIds, CancelSlots) /\ status \in {"draft", "published"}
    BY <1>0, <1>1, CancelCloses DEF Prepares, NotCancellable
<1>3. /\ FeeDue = Minus(FeeShare, Confirmed({"platform_fee"}))
      /\ RefundDue = Minus(Minus(Left, FeeShare), Confirmed({"refund"}))
    BY <1>0, PlanIsShare
<1>4. FeeDue \in Nat /\ RefundDue \in Nat
    BY <1>0, Quantities
<1>5. FeeDue = 0 /\ RefundDue = 0
    BY <1>1, <1>4
<1>6. /\ Confirmed({"platform_fee"}) \in Nat /\ Confirmed({"refund"}) \in Nat
      /\ Confirmed(CancelSlots) = Confirmed({"refund"}) + Confirmed({"platform_fee"})
    BY <1>0, PayoutParts DEF Confirmed
<1>7. Left \in Nat /\ FeeShare \in Nat /\ FeeShare =< Left
    BY <1>0, Shares
<1>8. Confirmed({"platform_fee"}) >= FeeShare
    BY <1>3, <1>5, <1>6, <1>7 DEF Minus
<1>9. Minus(Left, FeeShare) = Left - FeeShare /\ Left - FeeShare \in Nat
    BY <1>7 DEF Minus
<1>10. Confirmed({"refund"}) >= Left - FeeShare
    BY <1>3, <1>5, <1>6, <1>9 DEF Minus
<1>11. Confirmed(CancelSlots) >= Left
    BY <1>6, <1>7, <1>8, <1>10
<1> QED BY <1>0, <1>1, <1>2, <1>11, LegsCover

(* A remainder of nothing. *)
LEMMA RemainderEndsSquare ==
    ASSUME WholePage, Ledger, Budgets, RemainderPrepare, RemainderDue = 0
    PROVE  Square /\ UNCHANGED <<trans, count>>
<1>0. Books /\ SpotTypeOK /\ NoOvercommit /\ Marks
    BY DEF Ledger, Books, Budgets
<1>1. ClosedBooks /\ ~PendingIn(TransIds, {"remainder"})
    BY <1>0, RemainderCloses
<1>2. ~HasRow(CancelSlots)
    BY <1>0 DEF RemainderPrepare, RemainderReady, Marks, CancelMarks
<1>3. ~PendingIn(TransIds, Slots)
    <2>1. Slots = Due \cup {Deposit} \cup CancelSlots \cup {"remainder"}
        BY SpotAssumption DEF Slots, Due, CancelSlots, SpotSlots
    <2> QED BY <1>1, <1>2, <2>1 DEF ClosedBooks, PendingIn, HasRow
<1>4. ~PendingIn(TransIds, Payouts)
    BY <1>3 DEF PendingIn, Slots
<1>5. Committed = Spent /\ Committed + 0 = DepositTotal /\ Committed \in Nat
    BY <1>0, <1>4, SumSettled, Names, RemainderLeft, Shares
<1> QED BY <1>3, <1>5 DEF Square, RemainderPrepare, outboxVars

LEMMA EndsBegins ==
    ASSUME WholePage, Ledger, Ledger', Budgets, NoOvercommit', NoRace', Ended', ~Ended,
           [SpotNext]_vars
    PROVE  Square'
<1>0. SpotTypeOK /\ SpotTypeOK' /\ IInv /\ Books /\ NoOvercommit /\ Books'
    BY DEF Ledger, Books, Budgets
<1>1. ASSUME Square, UNCHANGED <<trans, count>> PROVE Square'
    BY <1>0, <1>1, OthersKeep, SquareRows
<1>2. CASE settled'
    <2>1. RemainderPrepare /\ RemainderDue = 0
        BY <1>2, Frames DEF Ended, RemainderPrepare
    <2> QED BY <1>1, <2>1, RemainderEndsSquare
<1>3. CASE ban' = "swept"
    <2>1. SweepReview
        BY <1>3, Frames DEF Ended, BanSpot, SweepSent
    <2>2. ~PendingIn(Page, Slots) /\ Unswept = 0 /\ UNCHANGED <<trans, count>>
        BY <1>3, <2>1 DEF SweepReview, outboxVars
    <2>3. Spent + 0 = DepositTotal /\ ~PendingIn(TransIds, Slots) /\ Spent \in Nat
        BY <1>0, <2>2, SweepFits, Shares
    <2> QED BY <1>1, <2>2, <2>3 DEF Square
<1>4. CASE status' = "cancelled"
    <2>0. status # "cancelled"
        BY DEF Ended
    <2>1. CASE CancelPrepare
        BY <1>1, <1>4, <2>0, <2>1, CancelEndsSquare DEF NoRace
    <2>2. ASSUME NEW t \in TransIds, RefreshRow(t) PROVE Square'
        <3>1. FinalizesCancellation(trans') /\ count' = count
            BY <1>0, <1>4, <2>0, <2>2, RefreshFinalises DEF RefreshRow, RowFinalised
        <3>2. Page' = Page
            BY <3>1 DEF Page
        <3>3. Covers(trans)'
            BY <3>1, <3>2 DEF FinalizesCancellation, Covers, ConfirmedIn, AmountOf, Remaining
        <3>4. ClosedBooks'
            BY <1>4 DEF Ledger, BooksClosed, Closing
        <3> QED BY <1>0, <1>4, <3>3, <3>4, CoversIsSquareNext
    <2>3. ~Publish /\ ~RemainderPrepare /\ ~BanSpot
        BY <1>4 DEF Publish, RemainderPrepare, BanSpot
    <2> QED BY <1>4, <2>0, <2>1, <2>2, <2>3, Frames DEF RefreshStepOf
<1> QED BY <1>2, <1>3, <1>4 DEF Ended

-----------------------------------------------------------------------------
(***************************************************************************)
(* The invariant.  Books, Funding and ClaimsCounted hold of every          *)
(* behaviour; the rest is inductive as long as no race of NoRace happens.  *)
(***************************************************************************)
Money == BooksClosed /\ Budgets /\ EndsSquare

LEMMA MoneyInit == SpotInit => Money
<1> SUFFICES ASSUME SpotInit PROVE Money
    OBVIOUS
<1>0. SpotTypeOK /\ Books
    BY BooksInit DEF Books
<1>1. \A t \in TransIds : trans[t].slot = Deposit /\ trans[t].status = "absent"
    BY DEF SpotInit, OutboxInit, NoRow
<1>2. \A S, sts : "absent" \notin sts => SumOf(S, sts) = 0
    BY <1>0, <1>1, SumNone
<1>3. Committed = 0 /\ Active({"platform_fee"}) = 0 /\ Active({"refund"}) = 0
    BY <1>2, Names DEF Active, Live
<1>4. cancel.pc = "idle" /\ remainder.pc = "idle" /\ status = "draft" /\ ~settled /\ ban = "none"
    BY DEF SpotInit, NoCancel, NoRemainder
<1>5. FeePlanned = 0 /\ RefundPlanned = 0
    BY <1>4 DEF FeePlanned, RefundPlanned
<1>6. /\ DepositTotal \in Nat /\ Left \in Nat /\ FeeShare \in Nat /\ FeeShare =< Left
    BY <1>0, Shares
<1>7. NoOvercommit /\ CancelBudget /\ RemainderBudget
    BY <1>3, <1>4, <1>5, <1>6 DEF NoOvercommit, CancelBudget, RemainderBudget
<1> QED BY <1>4, <1>7, BooksClosedInit DEF Money, Budgets, EndsSquare, Ended

LEMMA MoneyStep ==
    ASSUME WholePage, Books, Books', Funding, Funding', ClaimsCounted, ClaimsCounted', Money,
           NoRace, NoRace', [SpotNext]_vars
    PROVE  Money'
<1>1. Ledger /\ Budgets /\ BooksClosed /\ EndsSquare
    BY DEF Money, Ledger
<1>2. BooksClosed'
    BY <1>1, BooksClosedStep DEF NoRace
<1>3. Ledger'
    BY <1>2 DEF Ledger
<1>4. Budgets'
    BY <1>1, <1>3, NoOvercommitStep, CancelBudgetStep, RemainderBudgetStep DEF Budgets
<1>5. ASSUME Ended' PROVE Square'
    <2>1. CASE Ended
        BY <1>1, <1>3, <2>1, SquareStays DEF EndsSquare
    <2>2. CASE ~Ended
        BY <1>1, <1>3, <1>4, <1>5, <2>2, EndsBegins DEF Budgets
    <2> QED BY <2>1, <2>2
<1> QED BY <1>2, <1>4, <1>5 DEF Money, EndsSquare

LEMMA MoneyHolds ==
    ASSUME Unbounded, WholePage
    PROVE  SpotSpec /\ []NoRace => [](Books /\ Money)
<1>1. Books /\ Books' /\ Funding /\ Funding' /\ ClaimsCounted /\ ClaimsCounted' /\ Money
        /\ NoRace /\ NoRace' /\ [SpotNext]_vars => Money'
    BY MoneyStep
<1> QED BY <1>1, MoneyInit, BooksHold, FundingHolds, ClaimsCountedHolds, PTL DEF SpotSpec

(* Without the two races, the Spot never commits more than its confirmed    *)
(* deposits, whatever rewards, creation fee, cancellation legs, remainder   *)
(* and sweep are decided by claim_settlement, trans_updater and moderation  *)
(* at the same time.                                                        *)
THEOREM SpotNeverOvercommits ==
    ASSUME Unbounded, WholePage
    PROVE  SpotSpec /\ []NoRace => []NoOvercommit
<1>1. Money => NoOvercommit
    BY DEF Money, Budgets
<1> QED BY <1>1, MoneyHolds, PTL

(* Without them, a Spot that was cancelled, settled or swept has paid out   *)
(* exactly what was deposited, owes no reward and waits for no transaction. *)
THEOREM SpotMoneyIsSquare ==
    ASSUME Unbounded, WholePage
    PROVE  SpotSpec /\ []NoRace => []MoneyIsSquare
<1>1. ASSUME Money PROVE MoneyIsSquare
    <2>1. Ended => Square
        BY <1>1 DEF Money, EndsSquare
    <2>2. status = "cancelled" \/ settled => ClaimsPaid
        BY <1>1 DEF Money, BooksClosed, Closing, ClosedBooks
    <2>3. CancelledIsSquare
        BY <2>1, <2>2 DEF CancelledIsSquare, Ended, Square, ClaimsPaid
    <2>4. SettledIsSquare
        BY <2>1, <2>2 DEF SettledIsSquare, Ended, Square, ClaimsPaid
    <2>5. SweptIsSquare
        BY <2>1 DEF SweptIsSquare, Ended, Square
    <2> QED BY <2>3, <2>4, <2>5 DEF MoneyIsSquare
<1> QED BY <1>1, MoneyHolds, PTL

-----------------------------------------------------------------------------
(***************************************************************************)
(* The escrow account.  What the chain has executed lies between what is   *)
(* confirmed and what is committed, also while answers are lost.           *)
(***************************************************************************)
PaidRows == {t \in TransIds : trans[t].slot \in Payouts /\ chain[t] = "executed"}

LEMMA PaidOutIs ==
    ASSUME SpotTypeOK
    PROVE  /\ PaidOut = Sum(moved, PaidRows) /\ PaidOut \in Nat
           /\ IsFiniteSet(PaidRows) /\ PaidRows \subseteq TransIds
           /\ \A t \in TransIds : moved[t] \in Nat
<1>1. PaidRows \subseteq TransIds /\ IsFiniteSet(PaidRows)
    <2>1. PaidRows \subseteq TransIds
        BY DEF PaidRows
    <2> QED BY <2>1, RowsFinite
<1>2. \A t \in TransIds : moved[t] \in Nat
    <2>1. \A t \in TransIds : moved[t] \in Amounts \cup {0}
        BY DEF SpotTypeOK, TypeOK
    <2> QED BY <2>1, AmountsAreNat
<1>3. PaidOut = Sum(moved, PaidRows)
    BY DEF PaidOut, PaidRows, Sum
<1>4. Sum(moved, PaidRows) \in Nat
    BY <1>1, <1>2, SumType
<1> QED BY <1>1, <1>2, <1>3, <1>4

(* An executed payment moved the amount of a row that has not failed, and a *)
(* confirmed row was executed.                                              *)
LEMMA PaidBetween ==
    ASSUME Books
    PROVE  Spent =< PaidOut /\ PaidOut =< Committed
<1> DEFINE A == Rowset(trans, TransIds, Payouts, {"confirmed"})
           B == Rowset(trans, TransIds, Payouts, Live)
           f == AmountColumn(trans)
<1>0. SpotTypeOK /\ LedgerMatchesChain /\ LiveRowsHoldTheirSlot
    BY DEF Books, IInv
<1>1. A \subseteq PaidRows /\ PaidRows \subseteq B
    BY <1>0 DEF Rowset, PaidRows, LedgerMatchesChain, LiveRowsHoldTheirSlot, Live
<1>2. /\ \A t \in TransIds : f[t] \in Nat /\ f[t] = trans[t].amount
      /\ IsFiniteSet(A) /\ A \subseteq TransIds /\ IsFiniteSet(B) /\ B \subseteq TransIds
      /\ Spent = Sum(f, A) /\ Committed = Sum(f, B)
    BY <1>0, SumIs, Names DEF Confirmed, Active
<1>3. /\ PaidOut = Sum(moved, PaidRows) /\ IsFiniteSet(PaidRows) /\ PaidRows \subseteq TransIds
      /\ \A t \in TransIds : moved[t] \in Nat
    BY <1>0, PaidOutIs
<1>4. \A t \in PaidRows : moved[t] = trans[t].amount
    BY <1>0 DEF PaidRows, LiveRowsHoldTheirSlot
<1> HIDE DEF A, B, f
<1>5. Sum(f, A) =< Sum(moved, PaidRows)
    <2>1. \A t \in A : f[t] \in Nat /\ f[t] =< moved[t]
        BY <1>1, <1>2, <1>3, <1>4
    <2> QED BY <1>1, <1>3, <2>1, SumMonotone
<1>6. Sum(moved, PaidRows) =< Sum(f, B)
    <2>1. \A t \in PaidRows : moved[t] \in Nat /\ moved[t] =< f[t]
        BY <1>2, <1>3, <1>4
    <2> QED BY <1>1, <1>2, <2>1, SumMonotone
<1> QED BY <1>2, <1>3, <1>5, <1>6

(* Only the chain pays, and it changes no row. *)
LEMMA PaidStepOf ==
    ASSUME IInv, [OutboxNext]_outboxVars
    PROVE  \/ /\ PaidRows' = PaidRows
              /\ \A t \in PaidRows : moved'[t] = moved[t]
           \/ /\ PaidRows \subseteq PaidRows' /\ moved' = moved
              /\ UNCHANGED <<trans, count>>
<1> DEFINE Same == PaidRows' = PaidRows /\ \A t \in PaidRows : moved'[t] = moved[t]
<1> USE DEF IInv, TypeOK, Rows
<1>1. ASSUME \A t \in TransIds : /\ chain'[t] = "executed" <=> chain[t] = "executed"
                                 /\ chain[t] = "executed" => /\ trans'[t].slot = trans[t].slot
                                                             /\ moved'[t] = moved[t]
      PROVE  Same
    BY <1>1 DEF PaidRows
<1>2. ASSUME NEW s, NEW a, NEW h, Insert(s, a, h), NEW t \in TransIds, chain[t] = "executed"
      PROVE  trans'[t].slot = trans[t].slot /\ t # count + 1
    <2>1. t # count + 1
        BY <1>2, NextRow DEF FreshRows, Insert, TransIds
    <2> QED BY <1>2, <2>1 DEF Insert
<1>3. ASSUME NEW s \in Payouts, NEW a \in Amounts, CreateIntent(s, a) PROVE Same
    BY <1>1, <1>2, <1>3 DEF CreateIntent
<1>4. ASSUME NEW a \in Amounts, NEW v \in Amounts \cup {0}, InsertDeposit(a, v) PROVE Same
    <2>1. chain[count + 1] # "executed" /\ count + 1 \in TransIds
        BY <1>4, NextRow DEF FreshRows, InsertDeposit, Insert
    <2>2. /\ chain' = [chain EXCEPT ![count + 1] = "mempool"]
          /\ moved' = [moved EXCEPT ![count + 1] = v]
        BY <1>4 DEF InsertDeposit
    <2>3. \A t \in TransIds : chain[t] = "executed" => trans'[t].slot = trans[t].slot /\ t # count + 1
        BY <1>2, <1>4 DEF InsertDeposit
    <2> QED BY <1>1, <2>1, <2>2, <2>3
<1>5. ASSUME NEW t \in TransIds, OutboxSend(t) PROVE Same
    <2>1. CASE BroadcastOk(t) \/ BroadcastLost(t)
        BY <1>1, <2>1 DEF BroadcastOk, BroadcastLost, Broadcast, SendersAreAhead
    <2>2. CASE BroadcastFails(t)
        BY <1>1, <2>2 DEF BroadcastFails
    <2>3. CASE RecordHash(t)
        BY <1>1, <2>3 DEF RecordHash
    <2> QED BY <1>5, <2>1, <2>2, <2>3 DEF OutboxSend
<1>6. ASSUME NEW t \in TransIds, OutboxRefresh(t) PROVE Same
    <2>1. /\ chain' = chain /\ moved' = moved
          /\ \A u \in TransIds : trans'[u].slot = trans[u].slot
        <3>1. CASE MarkConfirmed(t) \/ RejectSender(t)
            BY <3>1 DEF MarkConfirmed, RejectSender
        <3>2. CASE MarkFailed(t) \/ RejectDeposit(t) \/ ExpireDeposit(t)
            BY <3>2 DEF MarkFailed, RejectDeposit, ExpireDeposit, SetStatus
        <3> QED BY <1>6, <3>1, <3>2 DEF OutboxRefresh
    <2> QED BY <1>1, <2>1
<1>7. ASSUME NEW t \in TransIds, ChainRejects(t) PROVE Same
    BY <1>1, <1>7 DEF ChainRejects
<1>8. ASSUME NEW t \in TransIds, ChainExecutes(t)
      PROVE  PaidRows \subseteq PaidRows' /\ moved' = moved /\ UNCHANGED <<trans, count>>
    BY <1>8 DEF ChainExecutes, PaidRows
<1>9. CASE Crash
    BY <1>1, <1>9 DEF Crash
<1>10. ASSUME NEW t \in TransIds, RecoverIntent(t) PROVE Same
    BY <1>1, <1>10 DEF RecoverIntent
<1>11. CASE UNCHANGED outboxVars
    BY <1>1, <1>11 DEF outboxVars
<1> QED BY <1>3, <1>4, <1>5, <1>6, <1>7, <1>8, <1>9, <1>10, <1>11 DEF OutboxNext, OutboxChain

LEMMA PaidOutStep ==
    ASSUME IInv, SpotTypeOK, SpotTypeOK', [OutboxNext]_outboxVars
    PROVE  /\ PaidOut' \in Nat
           /\ PaidOut' = PaidOut \/ (PaidOut' > PaidOut /\ UNCHANGED <<trans, count>>)
<1>1. /\ PaidOut = Sum(moved, PaidRows) /\ PaidOut \in Nat
      /\ IsFiniteSet(PaidRows) /\ PaidRows \subseteq TransIds
      /\ \A t \in TransIds : moved[t] \in Nat
    BY PaidOutIs
<1>2. /\ PaidOut' = Sum(moved', PaidRows') /\ PaidOut' \in Nat
      /\ IsFiniteSet(PaidRows') /\ PaidRows' \subseteq TransIds
      /\ \A t \in TransIds : moved'[t] \in Nat
    <2>1. /\ PaidRows' \subseteq TransIds
          /\ PaidOut' = Sum(moved', PaidRows')
        BY DEF PaidRows, PaidOut, Sum
    <2>2. \A t \in TransIds : moved'[t] \in Nat
        <3>1. \A t \in TransIds : moved'[t] \in Amounts \cup {0}
            BY DEF SpotTypeOK, TypeOK
        <3> QED BY <3>1, AmountsAreNat
    <2>3. IsFiniteSet(PaidRows')
        BY <2>1, RowsFinite
    <2>4. Sum(moved', PaidRows') \in Nat
        BY <2>1, <2>2, <2>3, SumType
    <2> QED BY <2>1, <2>2, <2>3, <2>4
<1>3. CASE PaidRows' = PaidRows /\ \A t \in PaidRows : moved'[t] = moved[t]
    <2>1. Sum(moved, PaidRows) = Sum(moved', PaidRows)
        BY <1>1, <1>3, SumSame
    <2> QED BY <1>1, <1>2, <1>3, <2>1
<1>4. CASE PaidRows \subseteq PaidRows' /\ moved' = moved /\ UNCHANGED <<trans, count>>
    <2>1. Sum(moved, PaidRows) =< Sum(moved, PaidRows')
        BY <1>1, <1>2, <1>4, SumMonotone
    <2> QED BY <1>1, <1>2, <1>4, <2>1
<1> QED BY <1>3, <1>4, PaidStepOf

(* The account of a Spot whose books are square is empty. *)
LEMMA SquareAccount ==
    Books /\ Square => Committed = DepositTotal /\ PaidOut = DepositTotal
<1> SUFFICES ASSUME Books, Square PROVE Committed = DepositTotal /\ PaidOut = DepositTotal
    OBVIOUS
<1>1. ~PendingIn(TransIds, Payouts)
    BY DEF Square, PendingIn, Slots
<1>2. Committed = Spent
    BY <1>1, SumSettled, Names DEF Books
<1>3. PaidOut \in Nat /\ Spent \in Nat /\ DepositTotal \in Nat
    BY PaidOutIs, Shares DEF Books
<1> QED BY <1>2, <1>3, PaidBetween DEF Square

LEMMA SquareAccountNext ==
    (Books /\ Square)' => (Committed = DepositTotal /\ PaidOut = DepositTotal)'
<1> QED BY SquareAccount, PTL

LEMMA PaidBetweenNext == Books' => (PaidOut =< Committed)'
<1>1. Books => PaidOut =< Committed
    BY PaidBetween
<1> QED BY <1>1, PTL

LEMMA SumsNext == Books' => (DepositTotal \in Nat /\ Committed \in Nat)'
<1>1. Books => DepositTotal \in Nat /\ Committed \in Nat
    BY Shares
<1> QED BY <1>1, PTL

(* A step that records a payment promises it; one that finalises a row      *)
(* receives a deposit or withdraws a failed payment; any other moves what   *)
(* the chain moves.                                                         *)
LEMMA EscrowMoves ==
    ASSUME Unbounded, WholePage, Books, Books', Funding, ClaimsCounted, Money, NoRace,
           [SpotNext]_vars
    PROVE  \/ Escrow!Rest \/ Escrow!Receive \/ Escrow!Promise \/ Escrow!Pay \/ Escrow!Withdraw
<1>0. /\ SpotTypeOK /\ SpotTypeOK' /\ IInv /\ Ledger /\ Budgets /\ EndsSquare
      /\ Deposit \notin Payouts
    BY OutboxAssumption DEF Money, Ledger, Books
<1>n. /\ DepositTotal \in Nat /\ Committed \in Nat /\ PaidOut \in Nat
      /\ DepositTotal' \in Nat /\ Committed' \in Nat /\ PaidOut' \in Nat
      /\ PaidOut =< Committed /\ PaidOut' =< Committed'
    <2>1. [OutboxNext]_outboxVars
        BY <1>0, OutboxStep
    <2> QED BY <1>0, <2>1, Shares, SumsNext, PaidBetween, PaidBetweenNext, PaidOutIs, PaidOutStep
<1>p. PaidOut' = PaidOut \/ (PaidOut' > PaidOut /\ UNCHANGED <<trans, count>>)
    BY <1>0, OutboxStep, PaidOutStep
<1>c. Committed' = Active(Payouts)' /\ Committed = Active(Payouts)
    BY Names DEF Committed, Active, SumOf, Live, AmountOf
<1>e. Ended => RowsKept /\ Committed = DepositTotal /\ PaidOut = DepositTotal
    BY <1>0, EndedRests, SquareAccount DEF EndsSquare
<1>1. CASE RowsKept
    <2>1. Committed' = Committed /\ DepositTotal' = DepositTotal
        BY <1>0, <1>1, <1>c, SumKept, DepositTotalKept DEF Active
    <2>2. CASE PaidOut' = PaidOut
        BY <2>1, <2>2 DEF Escrow!Rest, Escrow!account
    <2>3. CASE PaidOut' > PaidOut
        <3>1. ~Ended
            BY <1>n, <1>e, <2>1, <2>3
        <3> QED BY <1>n, <2>1, <2>3, <3>1 DEF Escrow!Pay
    <2> QED BY <1>p, <2>2, <2>3
<1>2. CASE ~RowsKept /\ AddStep
    <2>1. PICK s, a, h : RowAdded(s, a, h) /\ (s \in Payouts => Committed + a =< DepositTotal)
        BY <1>0, <1>2, AddFits
    <2>2. DepositTotal' = DepositTotal
        BY <1>0, <2>1, DepositTotalKept
    <2>3. PaidOut' = PaidOut
        BY <1>p, <2>1 DEF RowAdded
    <2>4. CASE s \in Payouts
        <3>1. Committed' = Committed + a /\ a \in Nat
            BY <1>0, <1>c, <2>1, <2>4, SumAdded
        <3>2. CASE a = 0
            BY <1>n, <2>2, <2>3, <3>1, <3>2 DEF Escrow!Rest, Escrow!account
        <3>3. CASE a > 0
            <4>1. Committed' > Committed /\ Committed' =< DepositTotal
                BY <1>n, <2>1, <2>4, <3>1, <3>3
            <4> QED BY <1>2, <1>e, <2>2, <2>3, <4>1 DEF Escrow!Promise
        <3> QED BY <3>1, <3>2, <3>3
    <2>5. CASE s \notin Payouts
        <3>1. Committed' = Committed
            BY <1>0, <1>c, <2>1, <2>5, SumAdded
        <3> QED BY <2>2, <2>3, <3>1 DEF Escrow!Rest, Escrow!account
    <2> QED BY <2>4, <2>5
<1>3. ASSUME ~RowsKept, NEW t \in TransIds, RowFinalised(t)
      PROVE  Escrow!Rest \/ Escrow!Receive \/ Escrow!Withdraw
    <2>1. PaidOut' = PaidOut
        <3>1. trans'[t] # trans[t]
            BY <1>3 DEF RowFinalised
        <3> QED BY <1>p, <3>1
    <2>2. CASE trans[t].slot \in Payouts
        <3>1. DepositTotal' = DepositTotal
            BY <1>0, <1>3, <2>2, DepositTotalKept
        <3>2. Committed' =< Committed
            BY <1>0, <1>3, <1>c, SumFinalised
        <3>3. CASE Committed' = Committed
            BY <2>1, <3>1, <3>3 DEF Escrow!Rest, Escrow!account
        <3>4. CASE Committed' # Committed
            <4>1. Committed' < Committed /\ Committed' >= PaidOut
                BY <1>n, <2>1, <3>2, <3>4
            <4> QED BY <1>3, <1>e, <2>1, <3>1, <4>1 DEF Escrow!Withdraw
        <3> QED BY <3>3, <3>4
    <2>3. CASE trans[t].slot \notin Payouts
        <3>1. Committed' = Committed /\ DepositTotal' >= DepositTotal
            BY <1>0, <1>3, <1>c, <2>3, SumFinalised
        <3>2. CASE DepositTotal' = DepositTotal
            BY <2>1, <3>1, <3>2 DEF Escrow!Rest, Escrow!account
        <3>3. CASE DepositTotal' # DepositTotal
            <4>1. DepositTotal' > DepositTotal
                BY <1>n, <3>1, <3>3
            <4> QED BY <1>3, <1>e, <2>1, <3>1, <4>1 DEF Escrow!Receive
        <3> QED BY <3>2, <3>3
    <2> QED BY <2>2, <2>3
<1> QED BY <1>0, <1>1, <1>2, <1>3, StepKinds

LEMMA EscrowStep ==
    ASSUME Unbounded, WholePage, Books, Books', Funding, ClaimsCounted, Money, Money', NoRace,
           [SpotNext]_vars
    PROVE  Escrow!Next
<1>1. Ended' => (Committed = DepositTotal /\ PaidOut = DepositTotal)'
    BY SquareAccountNext DEF Money, EndsSquare
<1> QED BY <1>1, EscrowMoves DEF Escrow!Next

LEMMA EscrowInit == SpotInit => Escrow!Init
<1> SUFFICES ASSUME SpotInit PROVE Escrow!Init
    OBVIOUS
<1>0. SpotTypeOK /\ Books
    BY BooksInit DEF Books
<1>1. \A t \in TransIds : trans[t].status = "absent" /\ chain[t] = "absent"
    BY DEF SpotInit, OutboxInit, NoRow
<1>2. \A S, sts : "absent" \notin sts => SumOf(S, sts) = 0
    BY <1>0, <1>1, SumNone
<1>3. Committed = 0 /\ DepositTotal = 0
    BY <1>2, Names DEF Active, Confirmed, Live
<1>4. PaidOut = 0
    <2>1. PaidOut \in Nat /\ PaidOut =< Committed
        BY <1>0, PaidOutIs, PaidBetween
    <2> QED BY <1>3, <2>1
<1>5. ~Ended
    BY DEF SpotInit, Ended
<1> QED BY <1>3, <1>4, <1>5 DEF Escrow!Init

(* Without the two races, the Spot implements the escrow account SpotEscrow *)
(* whatever answers are lost and whichever of the routes, loops and the     *)
(* moderation decides first: it pays on the chain, in any order of steps,   *)
(* only what it promised, promises only what it received, and closes with   *)
(* everything received paid out.                                            *)
THEOREM SpotImplementsEscrow ==
    ASSUME Unbounded, WholePage
    PROVE  SpotSpec /\ []NoRace => ImplementsEscrow
<1>1. Books /\ Books' /\ Funding /\ ClaimsCounted /\ Money /\ Money' /\ NoRace /\ [SpotNext]_vars
        => [Escrow!Next]_<<Escrow!account, Ended>>
    BY EscrowStep
<1> QED BY <1>1, EscrowInit, MoneyHolds, FundingHolds, ClaimsCountedHolds, PTL
        DEF SpotSpec, ImplementsEscrow, Escrow!Spec

-----------------------------------------------------------------------------
(***************************************************************************)
(* With the ban race.  Until a ban the money invariant holds as above.     *)
(* After it, the remainder that a coroutine has already decided and the    *)
(* sweep may both be recorded, each covered without the other.             *)
(***************************************************************************)
RemainderPlanned == IF remainder.pc # "idle" THEN remainder.amount ELSE 0

ReturnsFit ==
    /\ Active(Payouts \ {"remainder"}) =< DepositTotal
    /\ Active(Payouts \ {"platform_fee"}) + RemainderPlanned =< DepositTotal

Fits ==
    /\ BooksClosed
    /\ status # "banned" => Budgets /\ EndsSquare
    /\ settled => Square
    /\ status = "banned" => ReturnsFit

LEMMA ActiveNext ==
    ASSUME SpotTypeOK', NEW S
    PROVE  Active(S)' \in Nat /\ DepositTotal' \in Nat
<1>1. trans' \in [TransIds -> Rows]
    BY DEF SpotTypeOK, TypeOK
<1>2. AmountOf(trans', TransIds, S, Live) \in Nat /\ AmountOf(trans', TransIds, {Deposit}, {"confirmed"}) \in Nat
    BY <1>1, AmountNat
<1> QED BY <1>2 DEF Active, SumOf, Live, AmountOf, DepositTotal, ConfirmedIn

LEMMA SmallerFits ==
    ASSUME SpotTypeOK, NoOvercommit, NEW S \in SUBSET Payouts
    PROVE  Active(S) =< DepositTotal /\ Active(S) =< Committed
<1>1. Active(S) =< Active(Payouts)
    BY SumGrows DEF Active
<1>2. Active(S) \in Nat /\ Active(Payouts) \in Nat /\ DepositTotal \in Nat
    BY SumIs, Names DEF Active, Confirmed
<1> QED BY <1>1, <1>2, Names DEF NoOvercommit

(* The ban itself: what was covered with the remainder is covered without.  *)
LEMMA FitsAtBan ==
    ASSUME SpotTypeOK, SpotTypeOK', IInv, Books, Fits, status # "banned", status' = "banned",
           [SpotNext]_vars
    PROVE  ReturnsFit' /\ (settled' => Square')
<1>1. BanSpot /\ RowsKept
    <2>1. BanSpot
        BY Frames, FinishesMarked DEF RefreshStepOf, RefreshRow, Publish, CancelPrepare, RemainderPrepare
    <2> QED BY <2>1, OthersKeep DEF BanSpot
<1>2. remainder' = remainder /\ settled' = settled
    BY <1>1 DEF BanSpot, workVars
<1>n. /\ Budgets /\ DepositTotal \in Nat /\ Committed \in Nat /\ remainder.amount \in Nat
    BY Shares DEF Fits
<1>3. /\ Active(Payouts \ {"remainder"}) =< DepositTotal
      /\ Active(Payouts \ {"platform_fee"}) =< Committed
      /\ Active(Payouts \ {"platform_fee"}) \in Nat
    <2>1. Payouts \ {"remainder"} \in SUBSET Payouts /\ Payouts \ {"platform_fee"} \in SUBSET Payouts
        OBVIOUS
    <2>2. Active(Payouts \ {"platform_fee"}) \in Nat
        BY SumIs DEF Active
    <2> QED BY <1>n, <2>1, <2>2, SmallerFits DEF Budgets
<1>4. Active(Payouts \ {"platform_fee"}) + RemainderPlanned =< DepositTotal
    <2>1. CASE remainder.pc = "idle"
        BY <1>n, <1>3, <2>1 DEF RemainderPlanned, Budgets, NoOvercommit
    <2>2. CASE remainder.pc # "idle"
        <3>1. status = "completed"
            BY <2>2 DEF Books, Marks, RemainderMarks
        <3> QED BY <1>n, <1>3, <2>2, <3>1 DEF RemainderPlanned, Budgets, RemainderBudget
    <2> QED BY <2>1, <2>2
<1>5. /\ Active(Payouts \ {"remainder"})' = Active(Payouts \ {"remainder"})
      /\ Active(Payouts \ {"platform_fee"})' = Active(Payouts \ {"platform_fee"})
      /\ DepositTotal' = DepositTotal /\ RemainderPlanned' = RemainderPlanned
    BY <1>1, <1>2, SumKept, DepositTotalKept DEF Active, RemainderPlanned
<1> QED BY <1>1, <1>2, <1>3, <1>4, <1>5, SquareRows DEF ReturnsFit, Fits

(* A settled Spot that is banned moves no money any more.                   *)
LEMMA SettledBannedRests ==
    ASSUME WholePage, Ledger, Fits, status = "banned", settled, [SpotNext]_vars
    PROVE  RowsKept
<1>0. Books /\ Marks /\ SpotTypeOK /\ Square
    BY DEF Ledger, Books, Fits
<1>1. NoOvercommit
    <2>1. Committed = DepositTotal /\ DepositTotal \in Nat
        BY <1>0, SquareAccount, Shares
    <2> QED BY <2>1 DEF NoOvercommit
<1>2. Budgets
    BY <1>1 DEF Budgets, CancelBudget, RemainderBudget
<1>3. NoRace
    BY <1>0 DEF Marks, StatusMarks, CancelMarks, RemainderMarks, NoRace, NoLateClaim, Sending
<1> QED BY <1>0, <1>2, <1>3, EndedRests DEF Ended

(* After the ban: only the decided remainder and the sweep are recorded.    *)
LEMMA BannedAdds ==
    ASSUME Books, status = "banned", AddStep
    PROVE  \/ RemainderSubmit /\ RowAdded("remainder", remainder.amount, "local")
           \/ SweepSubmit /\ RowAdded("platform_fee", Unswept, "local")
<1>1. cancel.pc \notin Sending
    BY DEF Books, Marks, StatusMarks, CancelMarks
<1>2. ~CancelFee /\ ~CancelRefund
    BY <1>1 DEF CancelFee, CancelRefund, Sending
<1>3. ~SubmitCreationFee
    BY DEF SubmitCreationFee
<1>4. \A a, v : ~RecordDeposit(a, v)
    BY DEF RecordDeposit
<1>5. \A c \in Claims : ~PaysClaim(c)
    BY DEF PaysClaim
<1> QED BY <1>2, <1>3, <1>4, <1>5 DEF AddStep

(* A sweep of what is unspent fits without the remainder.                   *)
LEMMA SweepFitsAlone ==
    ASSUME WholePage, Books, ~PendingIn(Page, Slots), Unswept > 0
    PROVE  Active(Payouts \ {"remainder"}) + Unswept =< DepositTotal /\ Unswept \in Nat
<1>0. SpotTypeOK
    BY DEF Books
<1>1. ~PendingIn(TransIds, Payouts \ {"remainder"})
    BY PageSums DEF PendingIn, Slots
<1>2. Active(Payouts \ {"remainder"}) = Confirmed(Payouts \ {"remainder"})
    BY <1>0, <1>1, SumSettled
<1>3. Confirmed(Payouts \ {"remainder"}) =< Spent
    BY <1>0, SumGrows, Names DEF Confirmed
<1>4. Unswept = Minus(DepositTotal, Spent)
    BY PageSums, Names DEF Unswept
<1>5. DepositTotal \in Nat /\ Spent \in Nat /\ Confirmed(Payouts \ {"remainder"}) \in Nat
    BY <1>0, Shares, SumIs DEF Confirmed
<1> QED BY <1>2, <1>3, <1>4, <1>5 DEF Minus

LEMMA ReturnsFitStep ==
    ASSUME WholePage, Ledger, Books', Fits, status = "banned", status' = "banned", [SpotNext]_vars
    PROVE  ReturnsFit'
<1> DEFINE A == Payouts \ {"remainder"}
           B == Payouts \ {"platform_fee"}
<1>0. /\ SpotTypeOK /\ SpotTypeOK' /\ IInv /\ Books /\ ReturnsFit
      /\ Deposit \notin Payouts /\ {"remainder", "platform_fee"} \subseteq Payouts
    BY OutboxAssumption, SpotAssumption DEF Ledger, Books, Fits, SpotSlots
<1>n. /\ Active(A) \in Nat /\ Active(B) \in Nat /\ DepositTotal \in Nat
      /\ Active(A)' \in Nat /\ Active(B)' \in Nat /\ DepositTotal' \in Nat
      /\ remainder.amount \in Nat /\ RemainderPlanned \in Nat
    <2>1. remainder.amount \in Nat /\ Active(A) \in Nat /\ Active(B) \in Nat /\ DepositTotal \in Nat
        BY <1>0, Shares, SumIs DEF Active
    <2> QED BY <1>0, <2>1, ActiveNext DEF RemainderPlanned
<1>r. RemainderPlanned' \in Nat /\ RemainderPlanned' =< RemainderPlanned
    <2>1. remainder' = remainder \/ remainder'.pc = "idle" \/ RemainderCheck
        BY Frames DEF RemainderPrepare, RemainderReady, RemainderResolveFails, RemainderSubmit,
                      RemainderStep, NoRemainder, SpotCrash
    <2>2. RemainderCheck => remainder'.pc = "idle"
        BY DEF RemainderCheck, NoRemainder
    <2> QED BY <1>n, <2>1, <2>2 DEF RemainderPlanned
<1>1. CASE RowsKept
    <2>1. Active(A)' = Active(A) /\ Active(B)' = Active(B) /\ DepositTotal' = DepositTotal
        BY <1>0, <1>1, SumKept, DepositTotalKept DEF Active
    <2> QED BY <1>0, <1>n, <1>r, <2>1 DEF ReturnsFit
<1>2. CASE RemainderSubmit /\ RowAdded("remainder", remainder.amount, "local")
    <2>1. /\ Active(A)' = Active(A) /\ Active(B)' = Active(B) + remainder.amount
          /\ DepositTotal' = DepositTotal
        BY <1>0, <1>2, SumAdded, DepositTotalKept
    <2>2. RemainderPlanned = remainder.amount /\ RemainderPlanned' = 0
        BY <1>2 DEF RemainderPlanned, RemainderSubmit, NoRemainder
    <2> QED BY <1>0, <1>n, <2>1, <2>2 DEF ReturnsFit
<1>3. CASE SweepSubmit /\ RowAdded("platform_fee", Unswept, "local")
    <2>1. /\ Active(A)' = Active(A) + Unswept /\ Active(B)' = Active(B)
          /\ DepositTotal' = DepositTotal
        BY <1>0, <1>3, SumAdded, DepositTotalKept
    <2>2. Active(A) + Unswept =< DepositTotal
        BY <1>0, <1>3, SweepFitsAlone DEF SweepSubmit
    <2> QED BY <1>0, <1>n, <1>r, <2>1, <2>2 DEF ReturnsFit
<1>4. ASSUME NEW t \in TransIds, RowFinalised(t) PROVE ReturnsFit'
    <2>1. Active(A)' =< Active(A) /\ Active(B)' =< Active(B) /\ DepositTotal' >= DepositTotal
        BY <1>0, <1>4, SumFinalised
    <2> QED BY <1>0, <1>n, <1>r, <2>1 DEF ReturnsFit
<1> QED BY <1>0, <1>1, <1>2, <1>3, <1>4, StepKinds, BannedAdds

LEMMA FitsStep ==
    ASSUME WholePage, Books, Books', Funding, Funding', ClaimsCounted, ClaimsCounted', Fits,
           NoLateClaim, NoLateClaim', [SpotNext]_vars
    PROVE  Fits'
<1>0. /\ SpotTypeOK /\ SpotTypeOK' /\ IInv /\ Marks /\ BooksClosed /\ Ledger
      /\ status = "banned" => status' = "banned"
    <2>1. SpotTypeOK /\ SpotTypeOK' /\ IInv /\ Marks /\ BooksClosed /\ Ledger
        BY DEF Books, Fits, Ledger
    <2> QED BY <2>1, Onward
<1>1. BooksClosed'
    BY <1>0, BooksClosedStep
<1>2. CASE status' # "banned"
    <2>1. Money /\ NoRace /\ NoRace'
        BY <1>0, <1>2 DEF Money, Fits, NoRace
    <2>2. Money'
        BY <2>1, MoneyStep
    <2> QED BY <1>2, <2>2 DEF Money, Fits, EndsSquare, Ended
<1>3. CASE status # "banned" /\ status' = "banned"
    BY <1>0, <1>1, <1>3, FitsAtBan DEF Fits
<1>4. CASE status = "banned" /\ status' = "banned"
    <2>1. ReturnsFit'
        BY <1>0, <1>4, ReturnsFitStep
    <2>2. settled' => settled
        BY <1>4, Frames DEF RemainderPrepare, RemainderReady
    <2>3. settled' => Square'
        BY <1>0, <1>4, <2>2, SettledBannedRests, SquareRows DEF Fits
    <2> QED BY <1>1, <1>4, <2>1, <2>3 DEF Fits
<1> QED BY <1>0, <1>2, <1>3, <1>4

LEMMA FitsHold ==
    ASSUME Unbounded, WholePage
    PROVE  SpotSpec /\ []NoLateClaim => [](Books /\ Fits)
<1>1. SpotInit => Fits
    BY MoneyInit DEF Money, Fits, EndsSquare, SpotInit
<1>2. Books /\ Books' /\ Funding /\ Funding' /\ ClaimsCounted /\ ClaimsCounted' /\ Fits
        /\ NoLateClaim /\ NoLateClaim' /\ [SpotNext]_vars => Fits'
    BY FitsStep
<1> QED BY <1>1, <1>2, BooksHold, FundingHolds, ClaimsCountedHolds, PTL DEF SpotSpec

(* Also when a ban is committed between the status read of                  *)
(* submit_spot_remainder_refund_transaction and its intent: the Spot keeps  *)
(* within its deposits until the ban, and after it with either of the two   *)
(* returns, and every reward and fee, alone.                                *)
THEOREM SpotReturnsFit ==
    ASSUME Unbounded, WholePage
    PROVE  SpotSpec /\ []NoLateClaim => []EitherReturnFits
<1>1. ASSUME Books, Fits PROVE EitherReturnFits
    <2>0. SpotTypeOK
        BY <1>1 DEF Books
    <2>1. CASE status # "banned"
        <3>1. NoOvercommit
            BY <1>1, <2>1 DEF Fits, Budgets
        <3>2. \A s : Payouts \ {s} \in SUBSET Payouts
            OBVIOUS
        <3>3. \A s : Active(Payouts \ {s}) =< DepositTotal
            BY <2>0, <3>1, <3>2, SmallerFits
        <3> QED BY <3>1, <3>3 DEF EitherReturnFits, Active, SumOf, Live
    <2>2. CASE status = "banned"
        <3>1. RemainderPlanned \in Nat /\ DepositTotal \in Nat /\ Active(Payouts \ {"platform_fee"}) \in Nat
            BY <1>1, <2>0, Shares, SumIs DEF RemainderPlanned, Active
        <3>2. /\ Active(Payouts \ {"remainder"}) =< DepositTotal
              /\ Active(Payouts \ {"platform_fee"}) =< DepositTotal
            BY <1>1, <2>2, <3>1 DEF Fits, ReturnsFit
        <3> QED BY <2>2, <3>2 DEF EitherReturnFits, Active, SumOf, Live
    <2> QED BY <2>1, <2>2
<1> QED BY <1>1, FitsHold, PTL

(* The ban race cannot touch a Spot that was cancelled or settled: its      *)
(* books are square.                                                        *)
THEOREM SpotClosedIsSquare ==
    ASSUME Unbounded, WholePage
    PROVE  SpotSpec /\ []NoLateClaim => [](CancelledIsSquare /\ SettledIsSquare)
<1>1. ASSUME Fits PROVE CancelledIsSquare /\ SettledIsSquare
    <2>1. status = "cancelled" \/ settled => Square
        BY <1>1 DEF Fits, EndsSquare, Ended
    <2>2. status = "cancelled" \/ settled => ClaimsPaid
        BY <1>1 DEF Fits, BooksClosed, Closing, ClosedBooks
    <2> QED BY <2>1, <2>2 DEF CancelledIsSquare, SettledIsSquare, Square, ClaimsPaid
<1> QED BY <1>1, FitsHold, PTL

(***************************************************************************)
(* In every behaviour, with every race and on any page.  What a Spot owes  *)
(* others, its rewards and its creation fee, is covered by what it has     *)
(* received: only what goes back to its creator or to the platform is ever *)
(* at stake.                                                               *)
(***************************************************************************)
DueCovered == Active(Due) =< DepositTotal

LEMMA DueCoveredOpen ==
    ASSUME Books, Funding, ClaimsCounted, status # "banned"
    PROVE  DueCovered
<1>0. SpotTypeOK
    BY DEF Books
<1>n. /\ Active(Due) \in Nat /\ Active(Claims) \in Nat /\ Active({"creation_fee"}) \in Nat
      /\ Active(Due) = Active(Claims) + Active({"creation_fee"}) /\ DepositTotal \in Nat
    BY <1>0, PayoutParts, Shares DEF Active
<1>1. CASE HasRow(Due)
    <2>1. Funded
        <3>1. PICK t \in TransIds : trans[t].slot \in Claims \/ trans[t].slot = "creation_fee"
            BY <1>1 DEF HasRow, Due
        <3>2. CASE trans[t].slot = "creation_fee"
            BY <3>2 DEF Funding, FeeAfterFunds, HasRow
        <3>3. CASE trans[t].slot \in Claims
            BY <3>3 DEF ClaimsCounted, RewardRows, Funding, ClaimsAfterFunds
        <3> QED BY <3>1, <3>2, <3>3
    <2>2. Active(Claims) =< TotalValue /\ Active({"creation_fee"}) =< CreationFee
        BY RewardsAffordable, FeeOnce DEF ClaimsCounted
    <2> QED BY <1>n, <2>1, <2>2, SpotAssumption DEF DueCovered, Funded, Required
<1>2. CASE ~HasRow(Due)
    BY <1>0, <1>n, <1>2, NoRowsActive DEF DueCovered
<1> QED BY <1>1, <1>2

LEMMA DueCoveredStep ==
    ASSUME Books, Books', Funding, ClaimsCounted, DueCovered, [SpotNext]_vars,
           status = "banned" \/ status' = "banned"
    PROVE  DueCovered'
<1>0. /\ SpotTypeOK /\ SpotTypeOK' /\ IInv /\ Due \in SUBSET Payouts
      /\ {"remainder", "platform_fee"} \cap Due = {}
    BY SpotAssumption DEF Books, Due, SpotSlots
<1>n. /\ Active(Due) \in Nat /\ DepositTotal \in Nat
      /\ Active(Due)' \in Nat /\ DepositTotal' \in Nat
    BY <1>0, SumIs, Names, ActiveNext DEF Active, Confirmed
<1>1. CASE RowsKept
    BY <1>0, <1>1, SumKept, DepositTotalKept DEF DueCovered, Active
<1>2. CASE status = "banned" /\ AddStep
    <2>1. PICK s, a, h : s \in {"remainder", "platform_fee"} /\ RowAdded(s, a, h)
        BY <1>2, BannedAdds
    <2>2. Active(Due)' = Active(Due) /\ DepositTotal' = DepositTotal
        BY <1>0, <2>1, SumAdded, DepositTotalKept
    <2> QED BY <2>2 DEF DueCovered
<1>3. ASSUME NEW t \in TransIds, RowFinalised(t) PROVE DueCovered'
    <2>1. Active(Due)' =< Active(Due) /\ DepositTotal' >= DepositTotal
        BY <1>0, <1>3, SumFinalised
    <2> QED BY <1>n, <2>1 DEF DueCovered
<1>4. CASE status # "banned"
    <2>1. BanSpot
        BY <1>0, <1>4, Frames, FinishesMarked
           DEF Books, RefreshStepOf, RefreshRow, Publish, CancelPrepare, RemainderPrepare
    <2>2. RowsKept
        BY <1>0, <2>1, OthersKeep DEF BanSpot
    <2> QED BY <1>1, <2>2
<1> QED BY <1>0, <1>1, <1>2, <1>3, <1>4, StepKinds

(* No race of bans, cancellations, payouts and the end of the period makes  *)
(* the rewards and the creation fee of a Spot exceed its confirmed          *)
(* deposits: create_claim_attempt, the promotion's count and the funding    *)
(* check of the creation fee see to it, whatever anybody else decides.      *)
THEOREM SpotCoversRewards == ASSUME Unbounded PROVE SpotSpec => []DueCovered
<1>1. Books /\ Funding /\ ClaimsCounted /\ status # "banned" => DueCovered
    BY DueCoveredOpen
<1>2. SpotInit => status # "banned"
    BY DEF SpotInit
<1>3. Books /\ Books' /\ Funding /\ ClaimsCounted /\ DueCovered /\ [SpotNext]_vars
        /\ ~(status # "banned")' => DueCovered'
    BY DueCoveredStep
<1> QED BY <1>1, <1>2, <1>3, BooksHold, FundingHolds, ClaimsCountedHolds, PTL DEF SpotSpec

-----------------------------------------------------------------------------
(***************************************************************************)
(* Where the races cannot happen.  A Spot whose claims take no time has no *)
(* waiting claim, a Spot that nobody cancels has no refund to plan, and a  *)
(* Spot that nobody bans has no sweep.                                     *)
(***************************************************************************)
NoneWaiting == \A c \in Claims : claim[c] # "pending"

NotCancelling == ~cancelling /\ cancel.pc = "idle"

NotBanned == status # "banned"

(* An immediate claim is promoted by the transaction that creates it.       *)
LEMMA NoneWaitingStep ==
    ASSUME ~Duration, SpotTypeOK, NoneWaiting, [SpotNext]_vars
    PROVE  NoneWaiting'
<1>0. claim \in [Claims -> {"none", "pending", "success", "failed"}]
    BY DEF SpotTypeOK
<1>1. CASE BanSpot
    BY <1>1 DEF BanSpot, FailUncommitted, NoneWaiting
<1>2. ASSUME NEW c \in Claims, CreateClaim(c) PROVE NoneWaiting'
    BY <1>0, <1>2 DEF CreateClaim, NoneWaiting
<1>3. ASSUME NEW c \in Claims, PromoteClaim(c) \/ FailClaim(c) PROVE FALSE
    BY <1>3 DEF PromoteClaim, FailClaim, NoneWaiting
<1>4. CASE claim' = claim
    BY <1>4 DEF NoneWaiting
<1> QED BY <1>1, <1>2, <1>3, <1>4, Frames DEF ClaimStep

(* Retries only pick up a cancellation that somebody has asked for.         *)
LEMMA NotCancellingStep ==
    ASSUME "cancel" \notin Requests, NotCancelling, [SpotNext]_vars
    PROVE  NotCancelling'
<1>1. ~CancelStep
    <2>1. ~CancelCheck
        BY Zenon DEF NotCancelling, CancelCheck
    <2>2. ~ (CancelLease \/ CancelPrepare \/ CancelResolveFails \/ CancelFee \/ CancelRefund)
        BY DEF NotCancelling, CancelLease, CancelPrepare, CancelResolveFails, CancelFee, CancelRefund
    <2>3. ~ (CancelSent \/ CancelEnd)
        BY DEF NotCancelling, CancelSent, CancelEnd
    <2> QED BY <2>1, <2>2, <2>3, Zenon DEF CancelStep
<1>2. cancelling' = cancelling
    BY <1>1, Frames DEF CancelStep
<1>3. cancel' = cancel \/ cancel' = NoCancel
    BY <1>1, Frames DEF SpotCrash
<1> QED BY <1>2, <1>3 DEF NotCancelling, NoCancel

LEMMA NotBannedStep ==
    ASSUME "ban" \notin Requests, NotBanned, [SpotNext]_vars
    PROVE  NotBanned'
<1>1. ~BanSpot
    BY DEF BanSpot
<1>2. RefreshStepOf => status' \in {status, "cancelled"}
    BY DEF RefreshStepOf, RefreshRow
<1>3. CancelPrepare => status' \in {status, "cancelled"}
    BY DEF CancelPrepare
<1> QED BY <1>1, <1>2, <1>3, Frames DEF NotBanned, Publish, RemainderPrepare

LEMMA NoLateClaimHolds ==
    ASSUME Unbounded, ~Duration \/ "cancel" \notin Requests
    PROVE  SpotSpec => []NoLateClaim
<1> DEFINE Calm == (~Duration => NoneWaiting) /\ ("cancel" \notin Requests => NotCancelling)
<1>1. SpotInit => Calm
    BY DEF SpotInit, NoneWaiting, NotCancelling, NoCancel
<1>2. Books /\ Calm /\ [SpotNext]_vars => Calm'
    BY NoneWaitingStep, NotCancellingStep DEF Books
<1>3. Books /\ Calm => NoLateClaim
    <2>1. NoneWaiting => NoLateClaim
        BY DEF NoneWaiting, NoLateClaim
    <2>2. Books /\ NotCancelling => NoLateClaim
        BY DEF Books, Marks, StatusMarks, NotCancelling, NoLateClaim
    <2> QED BY <2>1, <2>2
<1> HIDE DEF Calm
<1> QED BY <1>1, <1>2, <1>3, BooksHold, PTL DEF SpotSpec

LEMMA NoRaceHolds ==
    ASSUME Unbounded, ~Duration \/ "cancel" \notin Requests, "ban" \notin Requests
    PROVE  SpotSpec => []NoRace
<1>1. SpotInit => NotBanned
    BY DEF SpotInit, NotBanned
<1>2. Books /\ NotBanned /\ [SpotNext]_vars => NotBanned'
    BY NotBannedStep DEF Books
<1>3. NotBanned /\ NoLateClaim => NoRace
    BY DEF NotBanned, NoRace
<1> QED BY <1>1, <1>2, <1>3, BooksHold, NoLateClaimHolds, PTL DEF SpotSpec

(* Bans may land anywhere: a Spot whose claims take no time, or which       *)
(* nobody cancels, closes square when it is cancelled or settled, and       *)
(* covers either return alone.                                              *)
THEOREM SpotSurvivesBans ==
    ASSUME Unbounded, WholePage, ~Duration \/ "cancel" \notin Requests
    PROVE  SpotSpec => [](EitherReturnFits /\ CancelledIsSquare /\ SettledIsSquare)
BY NoLateClaimHolds, SpotReturnsFit, SpotClosedIsSquare, PTL

(* A Spot that nobody bans, and whose claims take no time or which nobody   *)
(* cancels: the money comes out right in every behaviour of the code,       *)
(* through every failure and crash.                                         *)
THEOREM SpotMoneyIsSafe ==
    ASSUME Unbounded, WholePage, ~Duration \/ "cancel" \notin Requests, "ban" \notin Requests
    PROVE  SpotSpec => [](NoOvercommit /\ MoneyIsSquare) /\ ImplementsEscrow
BY NoRaceHolds, SpotNeverOvercommits, SpotMoneyIsSquare, SpotImplementsEscrow, PTL
=============================================================================
