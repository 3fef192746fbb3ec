--------------------------- MODULE ClaimAdmission ---------------------------
(***************************************************************************)
(* Who may claim a Standard Spot and whose claim succeeds: the rule check, *)
(* the wallet-wide limits, the one-time codes and the duration clock, as   *)
(* the installed chain of wrappers around create_claim_attempt and         *)
(* promote_pending_claim_to_success_if_capacity_available applies them.    *)
(* Every request is one write transaction; what interleaves is the claims. *)
(***************************************************************************)
EXTENDS Integers, Sequences, FiniteSets, FiniteSetsExt

CONSTANTS
    Users, WalletOf,     \* device users, and the verified wallet each is bound to
    Spots, OwnerOf,      \* Spots, and the user who created each
    Capacity, PerUser,   \* max_total_claims, max_claims_per_user of each Spot
    Duration,            \* claim_duration of each Spot
    CodesOf,             \* claim codes of each Spot, {} without a password
    NoCode,
    Hour, HourlyLimit,   \* the wallet window and WALLET_HOURLY_CLAIM_LIMIT
    StaleAfter,          \* CLAIM_LOCATION_STALE_AFTER_SECONDS
    Score,               \* heartbeat penalties a claim survives, plus one
    MaxClaims, MaxTime, LastClaimAt

ASSUME AdmissionAssumption ==
    /\ OwnerOf \in [Spots -> Users]
    /\ \A f \in {Capacity, PerUser, Duration} : f \in [Spots -> Nat]
    /\ \A s \in Spots : NoCode \notin CodesOf[s]
    /\ {Hour, HourlyLimit, StaleAfter, Score, MaxClaims, MaxTime, LastClaimAt} \subseteq Nat

VARIABLES
    now,
    claims,      \* CLAIM rows in order of id, with the attempted code
    usedBy,      \* CLAIM_CODE.used_by: the id of a claim, 0 when unused
    cancelling,  \* Spots whose cancellation has started
    cancelled    \* those whose cancellation has finished: no longer PUBLISHED

admissionVars == <<now, claims, usedBy, cancelling, cancelled>>

Codes == UNION {CodesOf[s] : s \in Spots}
UsePassword(s) == CodesOf[s] # {}

ClaimRows ==
    [status : {"pending", "success", "failed"}, user : Users, spot : Spots,
     code : Codes \cup {NoCode}, at : Nat, seen : Nat, score : Nat, gap : Nat]

AdmissionInit ==
    /\ now = 0
    /\ claims = <<>>
    /\ usedBy = [k \in Codes |-> 0]
    /\ cancelling = {} /\ cancelled = {}

Successes(rows, s) == {c \in DOMAIN rows : rows[c].spot = s /\ rows[c].status = "success"}

CapacityAvailable(s) ==
    /\ Capacity[s] > 0 => Cardinality(Successes(claims, s)) < Capacity[s]
    /\ UsePassword(s) => \E k \in CodesOf[s] : usedBy[k] = 0

(* A claim of any device user of the wallet counts for the wallet.          *)
OfWallet(rows, w) == {c \in DOMAIN rows : WalletOf[rows[c].user] = w}

OfUser(rows, u) == {c \in DOMAIN rows : rows[c].user = u}

WalletReachedSpotLimit(rows, s, w) ==
    PerUser[s] > 0 /\ Cardinality(OfWallet(rows, w) \cap Successes(rows, s)) >= PerUser[s]

UserReachedLimit(s, u) ==
    PerUser[s] > 0 /\ Cardinality(OfUser(claims, u) \cap Successes(claims, s)) >= PerUser[s]

InLastHourOfUser(u) == {c \in OfUser(claims, u) : claims[c].at > now - Hour}
InLastHour(w) == {c \in OfWallet(claims, w) : claims[c].at > now - Hour}

(* Mutant of HourlyAllowed: the limit is of a user, not of a wallet. *)
HourlyAllowedPerUser(u) == Cardinality(InLastHourOfUser(u)) < HourlyLimit

HourlyAllowed(u) == Cardinality(InLastHour(WalletOf[u])) < HourlyLimit

(* get_claim_rule_check: the Spot is public and current until it is         *)
(* cancelled; the position is a guard of the request.                       *)
RuleAllows(s, u) ==
    /\ OwnerOf[s] # u
    /\ s \notin cancelling
    /\ CapacityAvailable(s)
    /\ ~UserReachedLimit(s, u)

(***************************************************************************)
(* Promotion: the wrappers, the innermost first.  Each yields the rows and *)
(* the codes it leaves behind.                                             *)
(***************************************************************************)
Set(rows, c, status) == [rows EXCEPT ![c].status = status]

(* Mutant of Cleanup: a full Spot leaves its waiting claims. *)
CleanupNone(rows, s) == rows

(* fail_pending_standard_duration_claims_if_capacity_full                   *)
Cleanup(rows, s) ==
    IF Duration[s] > 0 /\ Capacity[s] > 0 /\ Cardinality(Successes(rows, s)) >= Capacity[s]
      THEN [c \in DOMAIN rows |->
              IF rows[c].spot = s /\ rows[c].status = "pending"
                THEN [rows[c] EXCEPT !.status = "failed", !.seen = now] ELSE rows[c]]
      ELSE rows

PromoteCapacity(rows, c) ==
    LET s == rows[c].spot
    IN IF Capacity[s] = 0 \/ Cardinality(Successes(rows, s)) < Capacity[s]
         THEN Cleanup(Set(rows, c, "success"), s)
         ELSE Set(rows, c, "failed")

Outcome(rows, used) == [rows |-> rows, used |-> used]

(* Mutant of PromoteCode: the success does not look for another use. *)
PromoteCodeShared(rows, used, c) ==
    LET after == PromoteCapacity(rows, c)
    IN Outcome(after, IF rows[c].code # NoCode /\ after[c].status = "success"
                        THEN [used EXCEPT ![rows[c].code] = c] ELSE used)

(* A code is spent only by the claim that succeeds, and given back          *)
(* otherwise.                                                               *)
PromoteCode(rows, used, c) ==
    LET k == rows[c].code
        after == PromoteCapacity(rows, c)
    IN IF k = NoCode THEN Outcome(after, used)
       ELSE IF used[k] \notin {0, c} THEN Outcome(Set(rows, c, "failed"), used)
       ELSE Outcome(after, IF after[c].status = "success" THEN [used EXCEPT ![k] = c] ELSE used)

(* Mutant of Promote: the wallet is not counted again. *)
PromoteUnchecked(rows, used, c) == PromoteCode(rows, used, c)

(* A duration claim rechecks the wallet's limit when it completes.          *)
Promote(rows, used, c) ==
    IF WalletReachedSpotLimit(rows, rows[c].spot, WalletOf[rows[c].user])
      THEN Outcome(Set(rows, c, "failed"), used)
      ELSE PromoteCode(rows, used, c)

(***************************************************************************)
(* Requests.                                                               *)
(***************************************************************************)
NewClaim(u, s, k) ==
    [status |-> "pending", user |-> u, spot |-> s, code |-> k,
     at |-> now, seen |-> now, score |-> Score, gap |-> 0]

(* claim_spot_api.  A refused claim leaves no row; one whose promotion      *)
(* fails leaves a failed row.                                               *)
ClaimSpot(u, s, k) ==
    /\ Len(claims) < MaxClaims /\ now <= LastClaimAt
    /\ HourlyAllowed(u)
    /\ WalletOf[OwnerOf[s]] # WalletOf[u]
    /\ ~WalletReachedSpotLimit(claims, s, WalletOf[u])
    /\ RuleAllows(s, u)
    /\ IF UsePassword(s) THEN k \in CodesOf[s] /\ usedBy[k] = 0 ELSE k = NoCode
    /\ LET rows == Append(claims, NewClaim(u, s, k))
           out == IF Duration[s] = 0 THEN PromoteCode(rows, usedBy, Len(rows))
                  ELSE Outcome(rows, usedBy)
       IN claims' = out.rows /\ usedBy' = out.used
    /\ UNCHANGED <<now, cancelling, cancelled>>

(* Mutant of Refreshed: a stale claim is left alone. *)
RefreshedLeavesStale(rows, used, c) ==
    IF /\ rows[c].status = "pending" /\ now - rows[c].seen <= StaleAfter
       /\ now >= rows[c].at + Duration[rows[c].spot]
      THEN Promote(rows, used, c) ELSE Outcome(rows, used)

(* refresh_claim_status_from_conditions of a pending claim.                 *)
Refreshed(rows, used, c) ==
    IF rows[c].status # "pending" THEN Outcome(rows, used)
    ELSE IF now - rows[c].seen > StaleAfter THEN Outcome(Set(rows, c, "failed"), used)
    ELSE IF now >= rows[c].at + Duration[rows[c].spot] THEN Promote(rows, used, c)
    ELSE Outcome(rows, used)

(* The claim page, My Claims or the settlement pass looks at a claim.       *)
RefreshClaim(c) ==
    /\ claims[c].status = "pending"
    /\ LET out == Refreshed(claims, usedBy, c)
       IN claims' = out.rows /\ usedBy' = out.used
    /\ UNCHANGED <<now, cancelling, cancelled>>

Located(rows, c, penalty) ==
    [rows EXCEPT ![c].score = Max({0, @ - penalty}), ![c].seen = now,
                 ![c].gap = Max({@, now - rows[c].seen}),
                 ![c].status = IF rows[c].score <= penalty THEN "failed" ELSE @]

(* Mutant of Heartbeat: the position is recorded, no more. *)
HeartbeatUnrefreshed(c, penalty) ==
    /\ claims[c].status = "pending"
    /\ claims' = Located(claims, c, penalty)
    /\ UNCHANGED <<now, usedBy, cancelling, cancelled>>

Heartbeat(c, penalty) ==
    /\ claims[c].status = "pending"
    /\ LET out == Refreshed(claims, usedBy, c)
       IN /\ claims' = IF out.rows[c].status = "pending" THEN Located(out.rows, c, penalty)
                       ELSE out.rows
          /\ usedBy' = out.used
    /\ UNCHANGED <<now, cancelling, cancelled>>

StartCancellation(s) ==
    /\ s \notin cancelling
    /\ cancelling' = cancelling \cup {s}
    /\ UNCHANGED <<now, claims, usedBy, cancelled>>

(* The refund and the fee are final.  Claims still waiting are left as they *)
(* are: _finalize_cancelled_spot_if_ready does not look at them.            *)
FinishCancellation(s) ==
    /\ s \in cancelling \ cancelled
    /\ cancelled' = cancelled \cup {s}
    /\ UNCHANGED <<now, claims, usedBy, cancelling>>

Tick == now < MaxTime /\ now' = now + 1 /\ UNCHANGED <<claims, usedBy, cancelling, cancelled>>

Refresh == \E c \in DOMAIN claims : RefreshClaim(c)

AdmissionNext ==
    \/ \E u \in Users, s \in Spots, k \in Codes \cup {NoCode} : ClaimSpot(u, s, k)
    \/ Refresh
    \/ \E c \in DOMAIN claims, p \in {0, 1, 2} : Heartbeat(c, p)
    \/ \E s \in Spots : StartCancellation(s) \/ FinishCancellation(s)
    \/ Tick

AdmissionSpec == AdmissionInit /\ [][AdmissionNext]_admissionVars

(* The settlement pass refreshes the pending duration claims again and      *)
(* again, but only those of Spots that are still PUBLISHED                  *)
(* (get_pending_duration_claim_ids), and time goes on.                      *)
SettleClaim(c) == claims[c].spot \notin cancelled /\ RefreshClaim(c)

AdmissionFairSpec ==
    /\ AdmissionSpec
    /\ WF_admissionVars(Tick)
    /\ \A c \in 1..MaxClaims : WF_admissionVars(c \in DOMAIN claims /\ SettleClaim(c))

(***************************************************************************)
(* Properties.                                                             *)
(***************************************************************************)

(* The types of the rows; a code is attributed to an existing claim.        *)
AdmissionTypeOK ==
    /\ now \in 0..MaxTime /\ cancelling \subseteq Spots /\ cancelled \subseteq cancelling
    /\ claims \in Seq(ClaimRows)
    /\ usedBy \in [Codes -> {0} \cup DOMAIN claims]
    /\ \A c \in DOMAIN claims :
         claims[c].at <= claims[c].seen /\ claims[c].seen <= now /\ claims[c].score <= Score

(* A code is spent exactly by the successful claim that attempted it: a     *)
(* failed contender leaves it to the others, and no two winners share one.  *)
CodeSpentBySuccess ==
    /\ \A k \in Codes : usedBy[k] # 0 =>
         claims[usedBy[k]].status = "success" /\ claims[usedBy[k]].code = k
    /\ \A c \in DOMAIN claims :
         claims[c].status = "success" /\ UsePassword(claims[c].spot) => usedBy[claims[c].code] = c

(* However its device users interleave waiting and immediate claims, a      *)
(* wallet never succeeds at a Spot more often than one user may.            *)
WalletLimitKept ==
    \A s \in Spots, w \in {WalletOf[u] : u \in Users} :
      PerUser[s] > 0 => Cardinality(OfWallet(claims, w) \cap Successes(claims, s)) <= PerUser[s]

(* A wallet starts at most HourlyLimit claims in any hour.                  *)
HourlyLimitKept ==
    \A w \in {WalletOf[u] : u \in Users}, t \in 0..now :
      Cardinality({c \in OfWallet(claims, w) : claims[c].at \in (t + 1 - Hour)..t}) <= HourlyLimit

(* The reward that fills a Spot fails every claim still waiting at it: no   *)
(* claim waits for a reward that cannot come.                               *)
FullSpotHasNoWaiting ==
    \A s \in Spots : Capacity[s] > 0 /\ Cardinality(Successes(claims, s)) >= Capacity[s] =>
      \A c \in DOMAIN claims : claims[c].spot = s => claims[c].status # "pending"

(* A duration claim that succeeded was located from its start to its end    *)
(* with no silence longer than the stale limit.                             *)
KeptAlive ==
    \A c \in DOMAIN claims : claims[c].status = "success" => claims[c].gap <= StaleAfter

(* What the claim rules promise together, whatever order claims, heartbeats *)
(* and refreshes come in: limits, stale silence and the end of a full Spot. *)
ClaimRulesKept == WalletLimitKept /\ HourlyLimitKept /\ FullSpotHasNoWaiting /\ KeptAlive

Waiting(c) == c \in DOMAIN claims /\ claims[c].status = "pending"

(* Every waiting claim is decided, unless the cancellation of its Spot      *)
(* finishes first: the settlement pass skips it from then on.               *)
ClaimsDecided ==
    \A c \in 1..MaxClaims :
      Waiting(c) ~> (~Waiting(c) \/ claims[c].spot \in cancelled)
=============================================================================
