--------------------------- MODULE PayoutThrottle ---------------------------
(***************************************************************************)
(* The throttle in front of claim payouts: rolling global, daily and Open  *)
(* Spot windows and the lifetime share of an Open Spot, shared by workers  *)
(* that reserve in one SQLite transaction and insert the payout row in a   *)
(* later one.                                                              *)
(*                                                                         *)
(* A stamp is kept as its age, capped where no window looks any further.   *)
(* A claim enters the queue when its observation hold is over.             *)
(***************************************************************************)
EXTENDS Integers, FiniteSets, FiniteSetsExt

CONSTANTS
    Claims,
    OpenClaims,        \* the claims of one Open Standard Spot
    Payers,            \* coroutines that submit payouts
    Amount,            \* reward of each claim
    Window, MaxPayoutCount, MaxPayoutLuna,
    DailyWindow, DailyMaxPayoutCount, DailyMaxPayoutLuna,
    SpotWindow, SpotMaxPayoutCount, SpotMaxPayoutLuna,
    MaxAutomaticPayoutLuna,
    Capacity, RewardPool, LifetimePercent,
    PermitTicks,       \* how many ticks a worker may hold a permit
    RowsFail,          \* a payout row may be finalised as FAILED
    Releases           \* claims an operator may release from review

MaxAge == Max({Window, DailyWindow, SpotWindow})

ASSUME ThrottleAssumption ==
    /\ IsFiniteSet(Claims) /\ Claims # {}
    /\ OpenClaims \subseteq Claims /\ Releases \subseteq Claims
    /\ Amount \in [Claims -> Nat \ {0}]
    /\ {Window, DailyWindow, SpotWindow} \subseteq Nat \ {0}
    /\ {MaxPayoutCount, MaxPayoutLuna, DailyMaxPayoutCount, DailyMaxPayoutLuna} \subseteq Nat
    /\ {SpotMaxPayoutCount, SpotMaxPayoutLuna, MaxAutomaticPayoutLuna} \subseteq Nat
    /\ {Capacity, RewardPool} \subseteq Nat /\ LifetimePercent \in 0 .. 100
    /\ PermitTicks \in 0 .. Window - 1
    /\ RowsFail \in BOOLEAN

VARIABLES
    now,       \* parity of the clock: a tick is a step
    res,       \* the durable reservations, by claim
    row,       \* status of the claim's payout row that is not FAILED
    rowAge,    \* age of that row
    review,    \* manual_review of the claim's security record
    released,  \* manual_review_released_at is set
    payer      \* what each worker is doing

throttleVars == <<now, res, row, rowAge, review, released, payer>>

Ages == 0 .. MaxAge
NoRes == [short |-> -1, daily |-> -1, spot |-> -1]
Idle == [pc |-> "idle", claim |-> CHOOSE c \in Claims : TRUE, held |-> 0]

ThrottleTypeOK ==
    /\ now \in 0 .. 1
    /\ res \in [Claims -> {NoRes} \cup [short : Ages, daily : Ages, spot : Ages]]
    /\ row \in [Claims -> {"none", "pending", "confirmed"}]
    /\ rowAge \in [Claims -> Ages]
    /\ review \in [Claims -> BOOLEAN] /\ released \in [Claims -> BOOLEAN]
    /\ payer \in [Payers -> [pc : {"idle", "ready", "permitted"}, claim : Claims,
                             held : 0 .. PermitTicks]]

ThrottleInit ==
    /\ now = 0
    /\ res = [c \in Claims |-> NoRes]
    /\ row = [c \in Claims |-> "none"]
    /\ rowAge = [c \in Claims |-> 0]
    /\ review = [c \in Claims |-> FALSE]
    /\ released = [c \in Claims |-> FALSE]
    /\ payer = [w \in Payers |-> Idle]

-----------------------------------------------------------------------------
(* _prune_reservations: a payout row supersedes the reservation; an Open    *)
(* Spot's is kept for good, others while a global window needs them.        *)
PruneReservations ==
    [c \in Claims |->
        IF /\ res[c] # NoRes
           /\ row[c] = "none"
           /\ \/ c \in OpenClaims
              \/ res[c].short < Window
              \/ res[c].daily < DailyWindow
        THEN res[c] ELSE NoRes]

(* Mutant of PayoutRows: a row counts for ever.                             *)
PayoutRowsForever(window) == {c \in Claims : row[c] # "none"}

(* _recent_payout_rows, _lifetime_spot_payout_rows                          *)
PayoutRows(window) == {c \in Claims : row[c] # "none" /\ rowAge[c] < window}

LifetimePayoutRows == {c \in OpenClaims : row[c] # "none"}

(* _combined_window_state: rows and reservations, each claim once.          *)
CombinedWindow(r, stamp, window) ==
    PayoutRows(window) \cup {c \in Claims : r[c] # NoRes /\ r[c][stamp] < window}

LunaOf(S) == SumFunctionOnSet(Amount, S)

WithinLimits(counted, c, maxCount, maxLuna) ==
    /\ Cardinality(counted) < maxCount
    /\ LunaOf(counted) + Amount[c] =< maxLuna

(* throttle_decision                                                        *)
OverAutomaticLimit(c) == Amount[c] > MaxAutomaticPayoutLuna

(* Mutant of ThrottleDecision: rows only, as if read and send were one step *)
ThrottleDecisionRowsOnly(r, c) ==
    /\ ~OverAutomaticLimit(c)
    /\ WithinLimits(PayoutRows(DailyWindow), c, DailyMaxPayoutCount, DailyMaxPayoutLuna)
    /\ WithinLimits(PayoutRows(Window), c, MaxPayoutCount, MaxPayoutLuna)

ThrottleDecision(r, c) ==
    /\ ~OverAutomaticLimit(c)
    /\ WithinLimits(CombinedWindow(r, "daily", DailyWindow), c, DailyMaxPayoutCount, DailyMaxPayoutLuna)
    /\ WithinLimits(CombinedWindow(r, "short", Window), c, MaxPayoutCount, MaxPayoutLuna)

SpotWindowDecision(r, c) ==
    WithinLimits(CombinedWindow(r, "spot", SpotWindow) \cap OpenClaims, c,
                 SpotMaxPayoutCount, SpotMaxPayoutLuna)

LifetimeMaxCount == (Capacity * LifetimePercent) \div 100
LifetimeMaxLuna == (RewardPool * LifetimePercent) \div 100

(* Mutant of SpotLifetimeDecision: reservations that expired are forgotten  *)
SpotLifetimeDecisionWindowed(r, c) ==
    WithinLimits(CombinedWindow(r, "spot", SpotWindow) \cap OpenClaims, c,
                 LifetimeMaxCount, LifetimeMaxLuna)

SpotLifetimeDecision(r, c) ==
    WithinLimits(LifetimePayoutRows \cup {d \in OpenClaims : r[d] # NoRes}, c,
                 LifetimeMaxCount, LifetimeMaxLuna)

(* The per-Spot budgets bind an Open claim that no operator has released;   *)
(* the lifetime share is not asked again of a claim that holds it.          *)
SpotBudgetApplies(c) == c \in OpenClaims /\ ~released[c]

SpotDecision(r, c) ==
    /\ res[c] = NoRes \/ row[c] # "none" => SpotLifetimeDecision(r, c)
    /\ SpotWindowDecision(r, c)

(* Stamps of a reused reservation are renewed where they have expired.      *)
Restamp(r) ==
    [short |-> IF r.short < Window THEN r.short ELSE 0,
     daily |-> IF r.daily < DailyWindow THEN r.daily ELSE 0,
     spot  |-> IF r.spot < SpotWindow THEN r.spot ELSE 0]

FreshReservation == [short |-> 0, daily |-> 0, spot |-> 0]

-----------------------------------------------------------------------------
(* payout_standard_claim_if_ready and the outer security decision           *)
BeginPayout(w, c) ==
    /\ payer[w].pc = "idle"
    /\ row[c] = "none"
    /\ ~review[c]
    /\ payer' = [payer EXCEPT ![w] = [pc |-> "ready", claim |-> c, held |-> 0]]
    /\ UNCHANGED <<now, res, row, rowAge, review, released>>

(* reserve_payout_slot: one BEGIN IMMEDIATE transaction.  Both Open Spot    *)
(* decisions carry manual_review whether they allow or not, and the branch  *)
(* of a new reservation stores it whenever it is there.                     *)
ReservePayoutSlot(w) ==
    /\ payer[w].pc = "ready"
    /\ LET c == payer[w].claim
           kept == PruneReservations
           others == [kept EXCEPT ![c] = NoRes]
           existing == kept[c] # NoRes
           materialised == c \in PayoutRows(Max({Window, DailyWindow}))
           global == ThrottleDecision(others, c)
           spot == SpotBudgetApplies(c) => SpotDecision(others, c)
           allow == materialised \/ (global /\ spot)
           marks == /\ ~materialised
                    /\ \/ OverAutomaticLimit(c)
                       \/ global /\ SpotBudgetApplies(c) /\ (existing => ~spot)
       IN /\ res' = IF allow /\ ~materialised
                    THEN [kept EXCEPT ![c] = IF existing THEN Restamp(kept[c]) ELSE FreshReservation]
                    ELSE kept
          /\ review' = [review EXCEPT ![c] = @ \/ marks]
          /\ payer' = [payer EXCEPT ![w] = IF allow THEN [@ EXCEPT !.pc = "permitted"] ELSE Idle]
    /\ UNCHANGED <<now, row, rowAge, released>>

(* submit_claim_reward_transaction_with_security: the review marker is read *)
(* again, then the intent is inserted unless the claim has an active row.   *)
SubmitPermitted(w) ==
    /\ payer[w].pc = "permitted"
    /\ LET c == payer[w].claim IN
       IF ~review[c] /\ row[c] = "none"
       THEN /\ row' = [row EXCEPT ![c] = "pending"]
            /\ rowAge' = [rowAge EXCEPT ![c] = 0]
       ELSE UNCHANGED <<row, rowAge>>
    /\ payer' = [payer EXCEPT ![w] = Idle]
    /\ UNCHANGED <<now, res, review, released>>

RowConfirmed(c) ==
    /\ row[c] = "pending"
    /\ row' = [row EXCEPT ![c] = "confirmed"]
    /\ UNCHANGED <<now, res, rowAge, review, released, payer>>

RowFailed(c) ==
    /\ RowsFail
    /\ row[c] = "pending"
    /\ row' = [row EXCEPT ![c] = "none"]
    /\ UNCHANGED <<now, res, rowAge, review, released, payer>>

(* release_claim_manual_review                                              *)
ReleaseReview(c) ==
    /\ c \in Releases
    /\ review[c]
    /\ review' = [review EXCEPT ![c] = FALSE]
    /\ released' = [released EXCEPT ![c] = TRUE]
    /\ UNCHANGED <<now, res, row, rowAge, payer>>

Older(a) == IF a < MaxAge THEN a + 1 ELSE a
OlderRes(r) == IF r = NoRes THEN NoRes
               ELSE [short |-> Older(r.short), daily |-> Older(r.daily), spot |-> Older(r.spot)]

(* Time passes.  The helper's timeouts are far below the shortest window,   *)
(* so a permit is used, or its worker gone, within PermitTicks.             *)
Tick ==
    /\ \A w \in Payers : payer[w].pc = "permitted" => payer[w].held < PermitTicks
    /\ now' = 1 - now
    /\ res' = [c \in Claims |-> OlderRes(res[c])]
    /\ rowAge' = [c \in Claims |-> IF row[c] = "none" THEN 0 ELSE Older(rowAge[c])]
    /\ payer' = [w \in Payers |-> IF payer[w].pc = "permitted"
                                    THEN [payer[w] EXCEPT !.held = @ + 1] ELSE payer[w]]
    /\ UNCHANGED <<row, review, released>>

(* A restart loses the workers and keeps the reservations.                  *)
WorkersCrash ==
    /\ payer # [w \in Payers |-> Idle]
    /\ payer' = [w \in Payers |-> Idle]
    /\ UNCHANGED <<now, res, row, rowAge, review, released>>

WorkerStep(w) == ReservePayoutSlot(w) \/ SubmitPermitted(w)

ThrottleNext ==
    \/ \E w \in Payers : (\E c \in Claims : BeginPayout(w, c)) \/ WorkerStep(w)
    \/ \E c \in Claims : RowConfirmed(c) \/ RowFailed(c) \/ ReleaseReview(c)
    \/ Tick
    \/ WorkersCrash

ThrottleSpec == ThrottleInit /\ [][ThrottleNext]_throttleVars

(* The settlement loop offers every unpaid claim again on every pass, and   *)
(* time goes on; crashes, failures and operators are owed nothing.          *)
ThrottleFairness ==
    /\ \A w \in Payers : WF_throttleVars(WorkerStep(w))
    /\ \A c \in Claims : SF_throttleVars(\E w \in Payers : BeginPayout(w, c))
    /\ \A c \in Claims : WF_throttleVars(RowConfirmed(c))
    /\ SF_throttleVars(Tick)

ThrottleNoCrash ==
    \/ \E w \in Payers : (\E c \in Claims : BeginPayout(w, c)) \/ WorkerStep(w)
    \/ \E c \in Claims : RowConfirmed(c)
    \/ Tick

ThrottleLiveSpec == ThrottleInit /\ [][ThrottleNoCrash]_throttleVars /\ ThrottleFairness

-----------------------------------------------------------------------------
(* However workers, retries and restarts interleave, the payouts inserted   *)
(* within any global or daily window stay inside its count and amount, and  *)
(* no payout above the automatic ceiling is ever inserted.                  *)
WindowsHold ==
    /\ Cardinality(PayoutRows(Window)) =< MaxPayoutCount
    /\ LunaOf(PayoutRows(Window)) =< MaxPayoutLuna
    /\ Cardinality(PayoutRows(DailyWindow)) =< DailyMaxPayoutCount
    /\ LunaOf(PayoutRows(DailyWindow)) =< DailyMaxPayoutLuna
    /\ \A c \in Claims : row[c] # "none" => ~OverAutomaticLimit(c)

(* The share of an Open Spot that is reserved or paid without an operator's *)
(* release never exceeds its lifetime part, however long one waits.         *)
LifetimeShareKept ==
    LET automatic == {c \in OpenClaims : (row[c] # "none" \/ res[c] # NoRes) /\ ~released[c]}
    IN /\ Cardinality(automatic) =< LifetimeMaxCount
       /\ LunaOf(automatic) =< LifetimeMaxLuna

(* The limits of the throttle, all of them, for every payout at once.       *)
PayoutLimitsKept == WindowsHold /\ LifetimeShareKept

(* What the limits rest on, where a permit may be held over a tick and where *)
(* a payout may fail on chain: no two workers are at a payout of one claim, *)
(* and no reservation runs out under the worker that will use it.           *)
OneEach ==
    \A v, w \in Payers :
        payer[v].pc # "idle" /\ payer[w].pc # "idle" /\ payer[v].claim = payer[w].claim => v = w

InTime ==
    \A w \in Payers : payer[w].pc = "permitted" /\ row[payer[w].claim] = "none" =>
        /\ res[payer[w].claim].short < Window
        /\ res[payer[w].claim].daily < DailyWindow

(* The throttle never drops a claim: each one is paid or held for review.   *)
PaidOrReviewed == \A c \in Claims : <>(row[c] = "confirmed" \/ review[c])

(* What SECURITY.md says of the marker: it is for claims beyond a boundary. *)
PermitIsNotHeld ==
    \A w \in Payers : payer[w].pc = "permitted" => ~review[payer[w].claim]
=============================================================================
