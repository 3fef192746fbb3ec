----------------------------- MODULE MCProgress -----------------------------
(***************************************************************************)
(* What must happen in the end, for the components that wait for something:*)
(* each under the fairness its own module gives it.  A behaviour is about  *)
(* one component, chosen at the start; the others rest in their initial    *)
(* states, so the fairness here is theirs for their own part.              *)
(***************************************************************************)
EXTENDS Naturals

CONSTANTS c1, c2, c3, a1, r1, r2, w1, u1, u2, o, s1, k1, NoCode, deposit

VARIABLES
    part,
    now, res, row, rowAge, review, released, payer,  \* PayoutThrottle
    authNow, auth, req, claim, record, marked, payout,  \* ClaimAuthorization
    ephemeral, lastKey,                              \* MetadataCleanup
    claimNow, claims, usedBy, cancelling, cancelled, \* ClaimAdmission
    trans, count, sender, chain, moved, prizeSpot, ended, entry, drawn, settler,  \* Prizedraw
    clock, spot, act, mode, cursor, since, state, worker, shown,  \* XAutoPoster
    draftClock, nextKey, admissions, slots, requests, spots       \* DraftAdmission

-----------------------------------------------------------------------------
Throttle == INSTANCE PayoutThrottle WITH
    Claims <- {c1, c2, c3}, OpenClaims <- {c3}, Payers <- {w1},
    Amount <- [c \in {c1, c2, c3} |-> IF c = c1 THEN 1 ELSE 2],
    Window <- 1, MaxPayoutCount <- 1, MaxPayoutLuna <- 2,
    DailyWindow <- 3, DailyMaxPayoutCount <- 2, DailyMaxPayoutLuna <- 3,
    SpotWindow <- 3, SpotMaxPayoutCount <- 1, SpotMaxPayoutLuna <- 2,
    MaxAutomaticPayoutLuna <- 2, Capacity <- 4, RewardPool <- 8, LifetimePercent <- 50,
    PermitTicks <- 0, RowsFail <- FALSE, Releases <- {}

Prize == INSTANCE Prizedraw WITH
    MaxRows <- 3, Payouts <- 1 .. 3, Recoverable <- {}, Deposit <- deposit, Amounts <- 0 .. 5,
    Faults <- {"exec_failure"}, Workers <- {w1}, Pool <- 5, PrizeCount <- 2, MaxEntries <- 0,
    DrawPage <- 3, Duration <- FALSE, Holds <- FALSE,
    spot <- prizeSpot, claim <- entry, worker <- settler

Auth == INSTANCE ClaimAuthorization WITH
    Auths <- {a1}, Requests <- {r1, r2}, Suspicious <- {r1, r2},
    TTL <- 1, Grace <- 1, Window <- 1, BurstMin <- 2, Hold <- 2,
    Recorder <- "primary", RecordFails <- TRUE, Operator <- FALSE, now <- authNow

Cleanup == INSTANCE MetadataCleanup WITH
    Keys <- 1 .. 4, Buckets <- {1, 2}, Limit <- 2, row <- ephemeral, cursor <- lastKey

Claiming == INSTANCE ClaimAdmission WITH
    Users <- {u1, u2, o}, WalletOf <- [u \in {u1, u2, o} |-> u],
    Spots <- {s1}, OwnerOf <- [s \in {s1} |-> o], Capacity <- [s \in {s1} |-> 2],
    PerUser <- [s \in {s1} |-> 1], Duration <- [s \in {s1} |-> 2],
    CodesOf <- [s \in {s1} |-> {k1}], Hour <- 3, HourlyLimit <- 3, StaleAfter <- 1,
    Score <- 2, MaxClaims <- 2, MaxTime <- 4, LastClaimAt <- 1, now <- claimNow

Poster == INSTANCE XAutoPoster WITH
    NumSpots <- 2, MaxPerRun <- 1, RetryAfter <- 1, LastTime <- 1

Draft == INSTANCE DraftAdmission WITH
    Creators <- {u1}, Requests <- {r1, r2}, MaxDrafts <- 2, UserLimit <- 2, GlobalLimit <- 3,
    Window <- 2, Stale <- 1, DerivationSlots <- 1, MaxValue <- 1, MaxClock <- 2,
    clock <- draftClock

-----------------------------------------------------------------------------
throttleState == <<now, res, row, rowAge, review, released, payer>>
prizeState == <<trans, count, sender, chain, moved, prizeSpot, ended, entry, drawn, settler>>
authState == <<authNow, auth, req, claim, record, marked, payout>>
cleanupState == <<ephemeral, lastKey>>
claimState == <<claimNow, claims, usedBy, cancelling, cancelled>>
posterState == <<clock, spot, act, mode, cursor, since, state, worker, shown>>
draftState == <<draftClock, nextKey, admissions, slots, requests, spots>>

otherThrottle == <<part, authState, cleanupState, claimState, posterState, draftState, prizeState>>
otherPrize == <<part, throttleState, authState, cleanupState, claimState, posterState, draftState>>
otherAuth == <<part, throttleState, cleanupState, claimState, posterState, draftState, prizeState>>
otherCleanup == <<part, throttleState, authState, claimState, posterState, draftState, prizeState>>
otherClaim == <<part, throttleState, authState, cleanupState, posterState, draftState, prizeState>>
otherPoster == <<part, throttleState, authState, cleanupState, claimState, draftState, prizeState>>
otherDraft == <<part, throttleState, authState, cleanupState, claimState, posterState, prizeState>>

Init ==
    /\ part \in {"throttle", "prizes", "authorization", "cleanup", "claims", "poster", "drafts"}
    /\ Throttle!ThrottleInit /\ Prize!PrizeInit /\ Auth!AuthInit /\ Cleanup!CleanupInit
    /\ Claiming!AdmissionInit /\ Poster!PosterInit /\ Draft!Init

Next ==
    \/ part = "throttle" /\ Throttle!ThrottleNoCrash /\ UNCHANGED otherThrottle
    \/ part = "prizes" /\ Prize!PrizeLiveNext /\ UNCHANGED otherPrize
    \/ part = "authorization" /\ Auth!AuthNext /\ UNCHANGED otherAuth
    \/ part = "cleanup" /\ Cleanup!CleanupNext /\ UNCHANGED otherCleanup
    \/ part = "claims" /\ Claiming!AdmissionNext /\ UNCHANGED otherClaim
    \/ part = "poster" /\ (Poster!SpotStep \/ Poster!ClockTick \/ Poster!WorkerStep)
       /\ UNCHANGED otherPoster
    \/ part = "drafts" /\ Draft!Next /\ UNCHANGED otherDraft

\* ThrottleFairness, AdmissionFairSpec and so on, each for its own part.
Fairness ==
    /\ WF_throttleState(part = "throttle" /\ Throttle!WorkerStep(w1))
    /\ \A c \in {c1, c2, c3} :
          /\ SF_throttleState(part = "throttle" /\ Throttle!BeginPayout(w1, c))
          /\ WF_throttleState(part = "throttle" /\ Throttle!RowConfirmed(c))
    /\ SF_throttleState(part = "throttle" /\ Throttle!Tick)
    /\ WF_prizeState(part = "prizes" /\ Prize!EntryPeriodEnds)
    /\ WF_prizeState(part = "prizes" /\ Prize!Draw)
    /\ WF_prizeState(part = "prizes" /\ Prize!PrizeWorker(w1))
    /\ \A t \in 1 .. 3 :
          /\ WF_prizeState(part = "prizes" /\ (Prize!PrizeConfirmed(t) \/ Prize!PrizeFailed(t)))
          /\ WF_prizeState(part = "prizes" /\ Prize!ChainExecutes(t) /\ UNCHANGED <<prizeSpot, ended, entry, drawn, settler>>)
    /\ WF_authState(part = "authorization" /\ Auth!Tick)
    /\ WF_authState(part = "authorization" /\ Auth!CleanupAuthorizations)
    /\ WF_cleanupState(part = "cleanup" /\ Cleanup!CleanupPass)
    /\ WF_claimState(part = "claims" /\ Claiming!Tick)
    /\ \A c \in 1 .. 2 :
          WF_claimState(part = "claims" /\ c \in DOMAIN claims /\ Claiming!SettleClaim(c))
    /\ WF_posterState(part = "poster" /\ Poster!WorkerStep)
    /\ WF_posterState(part = "poster" /\ Poster!ClockTick)
    /\ \A r \in {r1, r2} : WF_draftState(part = "drafts" /\ Draft!ServerStep(r))

ProgressSpec ==
    Init /\ [][Next]_<<part, throttleState, authState, cleanupState, claimState,
                       posterState, draftState, prizeState>> /\ Fairness

-----------------------------------------------------------------------------
\* A claim that may be paid is paid or waits for an administrator
\* (PayoutThrottle.PaidOrReviewed), and every winner of a draw is paid
\* (Prizedraw.WinnersPaid).
PayoutsFinish == (part = "throttle" => Throttle!PaidOrReviewed) /\ Prize!WinnersPaid

\* Authorizations are reclaimed (ClaimAuthorization.RecordsReclaimed), and the
\* cleanup takes all that has expired and nothing else
\* (MetadataCleanup.CleanupIsExact).
RecordsCleanedUp == Auth!RecordsReclaimed /\ Cleanup!CleanupIsExact

\* Waiting claims and draft requests are decided (ClaimAdmission.ClaimsDecided,
\* DraftAdmission.RequestsDecided).
AttemptsDecided == Claiming!ClaimsDecided /\ Draft!RequestsDecided

\* XAutoPoster.ActiveTakenUp
ActiveTakenUp == Poster!ActiveTakenUp
=============================================================================
