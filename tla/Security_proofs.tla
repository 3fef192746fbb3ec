--------------------------- MODULE Security_proofs ---------------------------
(***************************************************************************)
(* Proofs about the security records of a claim: the authorization a       *)
(* request takes and the screening of its payout (ClaimAuthorization), the *)
(* signer and first-location verdicts of slow lookups (FreshClaimGuard),   *)
(* the wallet sessions with their admission buckets (WalletSession), the   *)
(* GPS readings of one user (GpsAnchor), and the clusters of funding       *)
(* sources (FundingClusters).                                              *)
(***************************************************************************)
EXTENDS ClaimAuthorization, FreshClaimGuard, WalletSession, GpsAnchor, FundingClusters,
        SequenceTheorems, SumTheorems, TLAPS

-----------------------------------------------------------------------------
(* Claim authorizations *)

(* The places of a request that has taken its authorization.                *)
Taking == {"verifying", "approved", "rejected", "processing", "forwarding",
           "created", "recorded", "answering"}

Took(r) == req[r].pc \in Taking \/ claim[r] # NoClaim

(* A claim names the authorization its request carries.                     *)
ClaimsNamed ==
    \A r \in Requests :
        claim[r] # NoClaim =>
            claim[r].by = req[r].auth /\ req[r].pc \in {"created", "recorded", "answering", "done"}

(* What was taken is not usable again, and was taken by one request.        *)
TakenOnce ==
    /\ \A r \in Requests : Took(r) =>
          req[r].auth \in Auths /\ auth[req[r].auth].status \in {"verifying", "processing", "gone"}
    /\ \A r, s \in Requests : Took(r) /\ Took(s) /\ req[r].auth = req[s].auth => r = s

(* The screening of payouts.  A request that has not recorded its claim has *)
(* no record, a payout came after the hold, and a mark is answered by the   *)
(* review or by its release.                                                *)
Screened ==
    /\ \A r \in Requests : record[r].stored => req[r].pc \in {"recorded", "answering", "done"}
    /\ \A r \in Requests : payout[r] # "none" => record[r].stored /\ claim[r].age >= Hold
    /\ \A r \in marked : record[r].stored /\ (record[r].review \/ record[r].released)

AuthInv == AuthTypeOK /\ ClaimsNamed /\ TakenOnce

LEMMA AuthTypeInit == AuthInit => AuthTypeOK
<1>1. 0 \in 0 .. Late /\ 0 \in 0 .. 1
    BY AuthAssumption DEF Late
<1> QED BY <1>1 DEF AuthInit, AuthTypeOK, NoRecord

LEMMA CleanedType ==
    ASSUME AuthTypeOK
    PROVE  /\ Cleaned \in [Auths -> [status : {"absent", "issued", "verifying", "processing", "gone"},
                                     age : 0 .. Late]]
           /\ \A a \in Auths : \/ Cleaned[a] = auth[a]
                               \/ Cleaned[a].status = "gone" /\ auth[a].status # "absent"
<1>1. ASSUME NEW a \in Auths
      PROVE  [auth[a] EXCEPT !.status = "gone"] = [status |-> "gone", age |-> auth[a].age]
    BY DEF AuthTypeOK
<1> QED BY <1>1 DEF AuthTypeOK, Cleaned, Removable

(* Where a request may be, and that it stays with its authorization.        *)
Stages == {"checked", "verifying", "approved", "rejected", "processing",
           "forwarding", "created", "recorded", "answering", "done"}

LEMMA GotoType ==
    ASSUME AuthTypeOK, NEW r \in Requests, req[r].pc # "idle", NEW pc \in Stages, Goto(r, pc)
    PROVE  /\ req' \in [Requests -> {AtRest} \cup [pc : Stages, auth : Auths]]
           /\ req'[r].pc = pc /\ req'[r].auth = req[r].auth /\ req[r].auth \in Auths
           /\ \A s \in Requests : s # r => req'[s] = req[s]
<1>1. req \in [Requests -> {AtRest} \cup [pc : Stages, auth : Auths]]
    BY DEF AuthTypeOK, Stages
<1>2. req[r] \in [pc : Stages, auth : Auths]
    BY <1>1 DEF AtRest
<1>3. [req[r] EXCEPT !.pc = pc] = [pc |-> pc, auth |-> req[r].auth]
    BY <1>2
<1>4. req' = [req EXCEPT ![r] = [pc |-> pc, auth |-> req[r].auth]]
    BY <1>3 DEF Goto
<1> QED BY <1>1, <1>2, <1>4

LEMMA BurstIsStored ==
    ASSUME NEW S, NEW r \in Burst(S)
    PROVE  r \in S /\ r \in Suspicious /\ claim[r].age =< Window
BY DEF Burst

LEMMA AuthTypeStep ==
    ASSUME AuthTypeOK, [AuthNext]_authVars
    PROVE  AuthTypeOK'
<1> USE AuthAssumption DEF AuthTypeOK
<1>1. ASSUME NEW a \in Auths, Prepare(a) PROVE AuthTypeOK'
    <2>1. 0 \in 0 .. Late
        BY DEF Late
    <2> QED BY <1>1, <2>1, CleanedType DEF Prepare
<1>2. ASSUME NEW a \in Auths, NEW r \in Requests, Check(r, a) PROVE AuthTypeOK'
    BY <1>2 DEF Check
<1>3. CASE CleanupAuthorizations
    BY <1>3, CleanedType DEF CleanupAuthorizations
<1>4. ASSUME NEW r \in Requests, GuardStep(r) PROVE AuthTypeOK'
    <2>0. \A pc \in Stages : req[r].pc # "idle" /\ Goto(r, pc) =>
              /\ req' \in [Requests -> {AtRest} \cup [pc : Stages, auth : Auths]]
              /\ req[r].auth \in Auths
        BY GotoType
    <2> USE DEF Stages
    <2>1. CASE TakeAttempt(r)
        BY <2>0, <2>1 DEF TakeAttempt
    <2>2. CASE Verify(r)
        BY <2>0, <2>2 DEF Verify
    <2>3. CASE Retire(r)
        BY <2>0, <2>3 DEF Retire
    <2>4. CASE BeginProcessing(r)
        BY <2>0, <2>4 DEF BeginProcessing
    <2>5. CASE Preclaim(r)
        BY <2>0, <2>5 DEF Preclaim
    <2>6. CASE ApplicationAnswers(r)
        BY <2>0, <2>6 DEF ApplicationAnswers
    <2>7. CASE RecordClaimEvent(r)
        <3> DEFINE B == Burst(Stored \cup {r})
        <3>1. B \subseteq Requests
            BY DEF Burst, Stored
        <3>2. record' = [s \in Requests |->
                            IF s = r THEN [stored |-> TRUE, review |-> r \in B, released |-> FALSE]
                            ELSE [record[s] EXCEPT !.review = @ \/ s \in B]]
              /\ marked' = marked \cup B
            BY <2>7 DEF RecordClaimEvent
        <3> HIDE DEF B
        <3>3. record' \in [Requests -> [stored : BOOLEAN, review : BOOLEAN, released : BOOLEAN]]
            <4>1. [stored |-> TRUE, review |-> r \in B, released |-> FALSE]
                     \in [stored : BOOLEAN, review : BOOLEAN, released : BOOLEAN]
                <5>1. (r \in B) = TRUE \/ (r \in B) = FALSE
                    OBVIOUS
                <5> QED BY <5>1
            <4>2. ASSUME NEW s \in Requests
                  PROVE  [record[s] EXCEPT !.review = @ \/ s \in B]
                            \in [stored : BOOLEAN, review : BOOLEAN, released : BOOLEAN]
                <5>1. (record[s].review \/ s \in B) \in BOOLEAN
                    BY Zenon
                <5> QED BY <5>1
            <4> QED BY <3>2, <4>1, <4>2, Zenon
        <3> QED BY <2>0, <2>7, <3>1, <3>2, <3>3 DEF RecordClaimEvent
    <2>8. CASE RecordingRaises(r)
        BY <2>0, <2>8 DEF RecordingRaises
    <2>9. CASE ConsumeAuthorization(r)
        BY <2>0, <2>9 DEF ConsumeAuthorization
    <2>10. CASE Answer(r)
        BY <2>0, <2>10 DEF Answer
    <2> QED BY <1>4, <2>1, <2>2, <2>3, <2>4, <2>5, <2>6, <2>7, <2>8, <2>9, <2>10 DEF GuardStep
<1>5. ASSUME NEW r \in Requests, DecidePayout(r) \/ SendPayout(r) PROVE AuthTypeOK'
    BY <1>5 DEF DecidePayout, SendPayout
<1>6. ASSUME NEW r \in Requests, Release(r) PROVE AuthTypeOK'
    BY <1>6 DEF Release
<1>7. CASE Tick
    <2>1. \A x \in 0 .. Late : Sooner(x + 1, Late) \in 0 .. Late
        BY DEF Sooner, Late
    <2>2. \A x \in 0 .. Hold : Sooner(x + 1, Hold) \in 0 .. Hold
        BY DEF Sooner
    <2>3. auth' \in [Auths -> [status : {"absent", "issued", "verifying", "processing", "gone"},
                               age : 0 .. Late]]
        BY <1>7, <2>1 DEF Tick
    <2>4. claim' \in [Requests -> {NoClaim} \cup [age : 0 .. Hold, by : Auths]]
        BY <1>7, <2>2 DEF Tick
    <2> QED BY <1>7, <2>3, <2>4 DEF Tick
<1>8. CASE AuthCrash
    BY <1>8 DEF AuthCrash, AtRest
<1>9. CASE UNCHANGED authVars
    BY <1>9 DEF authVars
<1> QED BY <1>1, <1>2, <1>3, <1>4, <1>5, <1>6, <1>7, <1>8, <1>9 DEF AuthNext

(***************************************************************************)
(* One use.  A request takes an authorization only while it is issued, and *)
(* nothing makes it issued again.                                          *)
(***************************************************************************)
Used == {"verifying", "processing", "gone"}

LEMMA UsedStep ==
    ASSUME AuthTypeOK, [AuthNext]_authVars, NEW a \in Auths, auth[a].status \in Used
    PROVE  auth'[a].status \in Used
<1>0. auth \in [Auths -> [status : {"absent", "issued", "verifying", "processing", "gone"},
                          age : 0 .. Late]]
    BY DEF AuthTypeOK
<1>1. ASSUME NEW b \in Auths, Prepare(b) PROVE auth'[a].status \in Used
    BY <1>0, <1>1, CleanedType DEF Prepare, Used
<1>2. CASE CleanupAuthorizations
    BY <1>2, CleanedType DEF CleanupAuthorizations, Used
<1>3. ASSUME NEW r \in Requests, GuardStep(r) PROVE auth'[a].status \in Used
    <2>1. CASE TakeAttempt(r)
        BY <1>0, <2>1 DEF TakeAttempt, Used
    <2>2. CASE Retire(r)
        BY <1>0, <2>2 DEF Retire, Used
    <2>3. CASE BeginProcessing(r)
        BY <1>0, <2>3 DEF BeginProcessing, Used
    <2>4. CASE ConsumeAuthorization(r)
        BY <1>0, <2>4 DEF ConsumeAuthorization, Used
    <2>5. CASE auth' = auth
        BY <2>5
    <2> QED BY <1>3, <2>1, <2>2, <2>3, <2>4, <2>5
            DEF GuardStep, Verify, Preclaim, ApplicationAnswers, RecordClaimEvent, RecordingRaises, Answer
<1>4. CASE Tick
    BY <1>0, <1>4 DEF Tick
<1>5. CASE auth' = auth
    BY <1>5
<1> QED BY <1>1, <1>2, <1>3, <1>4, <1>5
        DEF AuthNext, Check, DecidePayout, SendPayout, Release, AuthCrash, authVars

(* Steps that take nothing leave what was taken as it was.                  *)
LEMMA NothingTaken ==
    ASSUME AuthInv, \A r \in Requests : Took(r)' => Took(r) /\ req'[r].auth = req[r].auth,
           \A a \in Auths : auth[a].status \in Used => auth'[a].status \in Used
    PROVE  TakenOnce'
<1>1. ASSUME NEW r \in Requests, Took(r)'
      PROVE  req'[r].auth \in Auths /\ auth'[req'[r].auth].status \in {"verifying", "processing", "gone"}
    BY <1>1 DEF AuthInv, TakenOnce, Used
<1>2. ASSUME NEW r \in Requests, NEW s \in Requests, Took(r)', Took(s)', req'[r].auth = req'[s].auth
      PROVE  r = s
    BY <1>2 DEF AuthInv, TakenOnce
<1> QED BY <1>1, <1>2 DEF TakenOnce

LEMMA ClaimStays ==
    ASSUME AuthInv, [AuthNext]_authVars, NEW r \in Requests
    PROVE  /\ claim'[r] # NoClaim =>
                \/ claim[r] # NoClaim /\ claim'[r].by = claim[r].by /\ req'[r].auth = req[r].auth
                   /\ req'[r].pc \in {"created", "recorded", "answering", "done"}
                \/ ApplicationAnswers(r) /\ claim'[r].by = req[r].auth /\ req'[r].pc = "created"
                   /\ req'[r].auth = req[r].auth
<1> SUFFICES ASSUME claim'[r] # NoClaim
             PROVE  \/ claim[r] # NoClaim /\ claim'[r].by = claim[r].by /\ req'[r].auth = req[r].auth
                       /\ req'[r].pc \in {"created", "recorded", "answering", "done"}
                    \/ ApplicationAnswers(r) /\ claim'[r].by = req[r].auth /\ req'[r].pc = "created"
                       /\ req'[r].auth = req[r].auth
    OBVIOUS
<1>0. /\ AuthTypeOK /\ claim \in [Requests -> {NoClaim} \cup [age : 0 .. Hold, by : Auths]]
      /\ claim[r] # NoClaim => req[r].pc \in {"created", "recorded", "answering", "done"}
    BY DEF AuthInv, AuthTypeOK, ClaimsNamed
<1> USE DEF Stages
<1>1. CASE claim' = claim /\ req' = req
    BY <1>0, <1>1
<1>2. ASSUME NEW s \in Requests, s # r, NEW pc, Goto(s, pc) PROVE req'[r] = req[r]
    BY <1>0, <1>2 DEF Goto, AuthTypeOK
<1>3. ASSUME NEW s \in Requests, GuardStep(s), s # r
      PROVE  claim'[r] = claim[r] /\ req'[r] = req[r]
    <2>1. CASE ApplicationAnswers(s)
        BY <1>0, <1>2, <1>3, <2>1 DEF ApplicationAnswers
    <2>2. CASE ~ApplicationAnswers(s)
        <3>1. claim' = claim
            BY <1>3, <2>2, Zenon DEF GuardStep, TakeAttempt, Verify, Retire, BeginProcessing, Preclaim,
                RecordClaimEvent, RecordingRaises, ConsumeAuthorization, Answer
        <3>2. \E pc : Goto(s, pc)
            BY <1>3, <2>2, Zenon DEF GuardStep, TakeAttempt, Verify, Retire, BeginProcessing, Preclaim,
                RecordClaimEvent, RecordingRaises, ConsumeAuthorization, Answer
        <3> QED BY <1>2, <1>3, <3>1, <3>2
    <2> QED BY <2>1, <2>2
<1>4. CASE ApplicationAnswers(r)
    <2>1. claim[r] = NoClaim /\ req[r].pc = "forwarding"
        BY <1>0, <1>4 DEF ApplicationAnswers
    <2>2. Goto(r, "created") /\ claim'[r].by = req[r].auth
        BY <1>0, <1>4, <2>1 DEF ApplicationAnswers
    <2> QED BY <1>0, <1>4, <2>1, <2>2, GotoType
<1>5. CASE GuardStep(r) /\ ~ApplicationAnswers(r)
    <2>1. claim' = claim /\ claim[r] # NoClaim
        BY <1>5 DEF GuardStep, TakeAttempt, Verify, Retire, BeginProcessing, Preclaim,
                RecordClaimEvent, RecordingRaises, ConsumeAuthorization, Answer
    <2>2. \E pc \in {"recorded", "answering", "done"} : Goto(r, pc)
        BY <1>0, <1>5, <2>1 DEF GuardStep, TakeAttempt, Verify, Retire, BeginProcessing, Preclaim,
                RecordClaimEvent, RecordingRaises, ConsumeAuthorization, Answer
    <2> QED BY <1>0, <2>1, <2>2, GotoType
<1>6. CASE Tick
    BY <1>0, <1>6 DEF Tick, NoClaim
<1>7. CASE AuthCrash
    BY <1>0, <1>7 DEF AuthCrash, AuthTypeOK, AtRest
<1>8. ASSUME NEW s \in Requests, NEW a \in Auths, Check(s, a) PROVE claim' = claim /\ (r = s \/ req'[r] = req[r]) /\ claim[s] = NoClaim
    BY <1>0, <1>8 DEF Check, AuthTypeOK
<1> QED BY <1>0, <1>1, <1>3, <1>4, <1>5, <1>6, <1>7, <1>8
        DEF AuthNext, Prepare, CleanupAuthorizations, DecidePayout, SendPayout, Release, authVars

LEMMA ClaimsNamedStep ==
    ASSUME AuthInv, [AuthNext]_authVars
    PROVE  ClaimsNamed'
<1>1. ASSUME NEW r \in Requests, claim'[r] # NoClaim
      PROVE  claim'[r].by = req'[r].auth /\ req'[r].pc \in {"created", "recorded", "answering", "done"}
    BY <1>1, ClaimStays DEF AuthInv, ClaimsNamed
<1> QED BY <1>1 DEF ClaimsNamed

(* A step of the guard leaves the other requests alone and keeps its own    *)
(* request with its authorization.                                          *)
LEMMA GuardGoes ==
    ASSUME AuthInv, NEW r \in Requests, GuardStep(r)
    PROVE  /\ \A s \in Requests : s # r => req'[s] = req[s] /\ claim'[s] = claim[s]
           /\ req'[r].auth = req[r].auth /\ req[r].auth \in Auths
           /\ ~TakeAttempt(r) => Took(r)
<1>0. AuthTypeOK /\ claim \in [Requests -> {NoClaim} \cup [age : 0 .. Hold, by : Auths]]
    BY DEF AuthInv, AuthTypeOK
<1>1. req[r].pc # "idle" /\ \E pc \in Stages : Goto(r, pc)
    BY DEF GuardStep, TakeAttempt, Verify, Retire, BeginProcessing, Preclaim, ApplicationAnswers,
           RecordClaimEvent, RecordingRaises, ConsumeAuthorization, Answer, Stages
<1>2. \A s \in Requests : s # r => claim'[s] = claim[s]
    <2>1. CASE ApplicationAnswers(r)
        BY <1>0, <2>1 DEF ApplicationAnswers
    <2>2. CASE ~ApplicationAnswers(r)
        BY <2>2, Zenon DEF GuardStep, TakeAttempt, Verify, Retire, BeginProcessing, Preclaim,
           RecordClaimEvent, RecordingRaises, ConsumeAuthorization, Answer
    <2> QED BY <2>1, <2>2
<1>3. ~TakeAttempt(r) => Took(r)
    BY DEF GuardStep, TakeAttempt, Verify, Retire, BeginProcessing, Preclaim, ApplicationAnswers,
           RecordClaimEvent, RecordingRaises, ConsumeAuthorization, Answer, Took, Taking
<1> QED BY <1>0, <1>1, <1>2, <1>3, GotoType

LEMMA TakenOnceStep ==
    ASSUME AuthInv, [AuthNext]_authVars
    PROVE  TakenOnce'
<1>0. /\ AuthTypeOK
      /\ \A a \in Auths : auth[a].status \in Used => auth'[a].status \in Used
    BY UsedStep DEF AuthInv
<1>1. CASE req' = req /\ claim' = claim
    BY <1>0, <1>1, NothingTaken DEF Took
<1>2. ASSUME NEW s \in Requests, NEW a \in Auths, Check(s, a) PROVE TakenOnce'
    <2>1. ASSUME NEW r \in Requests, Took(r)' PROVE Took(r) /\ req'[r].auth = req[r].auth
        BY <1>0, <1>2, <2>1 DEF Check, Took, Taking, AuthTypeOK
    <2> QED BY <1>0, <2>1, NothingTaken
<1>3. ASSUME NEW s \in Requests, GuardStep(s), ~TakeAttempt(s) PROVE TakenOnce'
    <2>1. ASSUME NEW r \in Requests, Took(r)' PROVE Took(r) /\ req'[r].auth = req[r].auth
        BY <1>3, <2>1, GuardGoes DEF Took
    <2> QED BY <1>0, <2>1, NothingTaken
<1>4. ASSUME NEW s \in Requests, TakeAttempt(s), ~Usable(req[s].auth) PROVE TakenOnce'
    <2>0. GuardStep(s)
        BY <1>4 DEF GuardStep
    <2>1. req'[s].pc = "done" /\ claim' = claim
        BY <1>0, <1>4, GotoType DEF TakeAttempt, Stages
    <2>2. ASSUME NEW r \in Requests, Took(r)' PROVE Took(r) /\ req'[r].auth = req[r].auth
        BY <2>0, <2>1, <2>2, GuardGoes DEF Took, Taking
    <2> QED BY <1>0, <2>2, NothingTaken
<1>5. ASSUME NEW s \in Requests, TakeAttempt(s), Usable(req[s].auth) PROVE TakenOnce'
    <2>0. GuardStep(s)
        BY <1>5 DEF GuardStep
    <2>1. req'[s].auth = req[s].auth /\ req[s].auth \in Auths
        BY <2>0, GuardGoes
    <2>2. auth'[req[s].auth].status = "verifying"
        BY <1>0, <1>5, <2>1 DEF TakeAttempt, AuthTypeOK
    <2>3. ASSUME NEW r \in Requests, r # s, Took(r)'
          PROVE  Took(r) /\ req'[r].auth = req[r].auth /\ req[r].auth # req[s].auth
        <3>1. Took(r) /\ req'[r].auth = req[r].auth
            BY <2>0, <2>3, GuardGoes DEF Took
        <3>2. auth[req[r].auth].status # "issued"
            BY <3>1 DEF AuthInv, TakenOnce
        <3> QED BY <1>5, <3>1, <3>2 DEF Usable
    <2>4. ASSUME NEW r \in Requests, Took(r)'
          PROVE  req'[r].auth \in Auths /\ auth'[req'[r].auth].status \in {"verifying", "processing", "gone"}
        <3>1. CASE r = s
            BY <2>1, <2>2, <3>1
        <3>2. CASE r # s
            BY <1>0, <2>3, <2>4, <3>2 DEF AuthInv, TakenOnce, Used
        <3> QED BY <3>1, <3>2
    <2>5. ASSUME NEW r \in Requests, NEW t \in Requests, Took(r)', Took(t)', req'[r].auth = req'[t].auth
          PROVE  r = t
        <3>1. CASE r = s \/ t = s
            BY <2>1, <2>3, <2>5, <3>1
        <3>2. CASE r # s /\ t # s
            BY <2>3, <2>5, <3>2 DEF AuthInv, TakenOnce
        <3> QED BY <3>1, <3>2
    <2> QED BY <2>4, <2>5 DEF TakenOnce
<1>6. CASE Tick
    <2>1. ASSUME NEW r \in Requests, Took(r)' PROVE Took(r) /\ req'[r].auth = req[r].auth
        BY <1>6, <2>1 DEF Tick, Took
    <2> QED BY <1>0, <2>1, NothingTaken
<1>7. CASE AuthCrash
    <2>1. ASSUME NEW r \in Requests PROVE req'[r].auth = req[r].auth /\ req'[r].pc \notin Taking
        BY <1>0, <1>7, <2>1 DEF AuthCrash, AuthTypeOK, AtRest, Taking
    <2>2. ASSUME NEW r \in Requests, Took(r)' PROVE Took(r) /\ req'[r].auth = req[r].auth
        BY <1>7, <2>1, <2>2 DEF AuthCrash, Took
    <2> QED BY <1>0, <2>2, NothingTaken
<1> QED BY <1>1, <1>2, <1>3, <1>4, <1>5, <1>6, <1>7
        DEF AuthNext, Prepare, CleanupAuthorizations, DecidePayout, SendPayout, Release, authVars

LEMMA AuthInvHolds == AuthSpec => []AuthInv
<1>1. AuthInit => AuthInv
    BY AuthTypeInit DEF AuthInit, AuthInv, ClaimsNamed, TakenOnce, Took, Taking, AtRest
<1>2. AuthInv /\ [AuthNext]_authVars => AuthInv'
    BY AuthTypeStep, ClaimsNamedStep, TakenOnceStep DEF AuthInv
<1> QED BY <1>1, <1>2, PTL DEF AuthSpec

(* Type correctness of the authorizations, for any number of requests.      *)
THEOREM AuthTypes == AuthSpec => []AuthTypeOK
<1>1. AuthInv => AuthTypeOK
    BY DEF AuthInv
<1> QED BY <1>1, AuthInvHolds, PTL

(* AuthorizationUsedOnce for any number of requests and authorizations: the *)
(* second read of the status, under the write lock of TakeAttempt, lets one *)
(* request through, and neither a rejection, cleanup nor a restart makes an *)
(* authorization usable again.                                              *)
THEOREM AuthorizationOnce == AuthSpec => AuthorizationUsedOnce
<1>1. AuthInv => OneClaimPerAuthorization
    <2> SUFFICES ASSUME AuthInv PROVE OneClaimPerAuthorization
        OBVIOUS
    <2>1. ASSUME NEW r \in Requests, NEW s \in Requests, r # s, claim[r] # NoClaim, claim[s] # NoClaim
          PROVE  claim[r].by # claim[s].by
        BY <2>1 DEF AuthInv, ClaimsNamed, TakenOnce, Took
    <2>2. ASSUME NEW r \in Attempting, NEW s \in Attempting, req[r].auth = req[s].auth PROVE r = s
        BY <2>2 DEF AuthInv, TakenOnce, Took, Taking, Attempting
    <2> QED BY <2>1, <2>2 DEF OneClaimPerAuthorization
<1>2. AuthInv /\ [AuthNext]_authVars =>
          [\A a \in Auths : auth[a].status \in {"verifying", "processing", "gone"} =>
                                auth'[a].status \notin {"absent", "issued"}]_authVars
    BY UsedStep DEF AuthInv, Used
<1> QED BY <1>1, <1>2, AuthInvHolds, PTL DEF AuthSpec, AuthorizationUsedOnce, UsedStaysUsed

(***************************************************************************)
(* Screening.  A claim is in a burst only within Window of its creation,   *)
(* and paid only after Hold, which is longer: so a burst never marks a     *)
(* claim that was paid before, and a marked claim waits for its release.   *)
(***************************************************************************)
ScreenInv == AuthInv /\ Screened /\ BurstIsHeld

(* Steps that leave records, marks and payouts alone and let claims age.    *)
LEMMA ScreenKept ==
    ASSUME ScreenInv, UNCHANGED <<record, marked, payout>>,
           \A r \in Requests : record[r].stored => req'[r].pc \in {"recorded", "answering", "done"},
           \A r \in Requests : record[r].stored /\ claim[r].age >= Hold => claim'[r].age >= Hold
    PROVE  Screened' /\ BurstIsHeld'
<1> HIDE AuthAssumption
<1> QED BY DEF ScreenInv, Screened, BurstIsHeld

LEMMA RecordingScreened ==
    ASSUME ScreenInv, NEW r \in Requests, RecordClaimEvent(r)
    PROVE  Screened' /\ BurstIsHeld'
<1> DEFINE B == Burst(Stored \cup {r})
<1>1. /\ record' = [s \in Requests |->
                      IF s = r THEN [stored |-> TRUE, review |-> r \in B, released |-> FALSE]
                      ELSE [record[s] EXCEPT !.review = @ \/ s \in B]]
      /\ marked' = marked \cup B
      /\ UNCHANGED <<now, auth, claim, payout>>
      /\ Goto(r, "recorded") /\ req[r].pc = "created"
    BY DEF RecordClaimEvent
<1>2. /\ record \in [Requests -> [stored : BOOLEAN, review : BOOLEAN, released : BOOLEAN]]
      /\ claim \in [Requests -> {NoClaim} \cup [age : 0 .. Hold, by : Auths]]
      /\ AuthTypeOK /\ marked \subseteq Requests
    BY DEF ScreenInv, AuthInv, AuthTypeOK
<1>3. ASSUME NEW s \in B
      PROVE  s \in Requests /\ (s = r \/ record[s].stored) /\ claim[s].age =< Window
    BY BurstIsStored DEF Stored
<1> HIDE DEF B
<1>4. ~record[r].stored /\ payout[r] = "none" /\ r \notin marked
    BY <1>1 DEF ScreenInv, Screened
<1>5. req'[r].pc = "recorded" /\ \A s \in Requests : s # r => req'[s] = req[s]
    BY <1>1, <1>2, GotoType DEF Stages
<1>6. /\ record'[r].stored
      /\ r \in B => record'[r].review
    <2>1. record'[r] = [stored |-> TRUE, review |-> r \in B, released |-> FALSE]
        BY <1>1
    <2>2. record'[r].stored = TRUE /\ record'[r].review = (r \in B)
        BY <2>1
    <2> QED BY <2>2
<1>7. ASSUME NEW s \in Requests, s # r
      PROVE  /\ record'[s].stored = record[s].stored /\ record'[s].released = record[s].released
             /\ record[s].review => record'[s].review
             /\ s \in B => record'[s].review
    <2>1. record'[s] = [record[s] EXCEPT !.review = @ \/ s \in B]
        BY <1>1, <1>7
    <2>2. record[s] \in [stored : BOOLEAN, review : BOOLEAN, released : BOOLEAN]
        BY <1>2
    <2>3. record'[s].stored = record[s].stored /\ record'[s].released = record[s].released
        BY <2>1, <2>2
    <2>4. record'[s].review = (record[s].review \/ s \in B)
        BY <2>1, <2>2
    <2> QED BY <2>3, <2>4
<1>8. ASSUME NEW s \in Requests, record'[s].stored
      PROVE  req'[s].pc \in {"recorded", "answering", "done"}
    BY <1>5, <1>7, <1>8 DEF ScreenInv, Screened
<1>9. ASSUME NEW s \in Requests, payout'[s] # "none"
      PROVE  s # r /\ record'[s].stored /\ claim'[s].age >= Hold
    BY <1>1, <1>4, <1>7, <1>9 DEF ScreenInv, Screened
<1>10. ASSUME NEW s \in marked'
       PROVE  record'[s].stored /\ (record'[s].review \/ record'[s].released)
    <2>1. CASE s \in B
        BY <1>3, <1>6, <1>7, <2>1
    <2>2. CASE s \in marked
        BY <1>2, <1>4, <1>7, <2>2 DEF ScreenInv, Screened
    <2> QED BY <1>1, <1>10, <2>1, <2>2
<1>11. ASSUME NEW s \in Requests, s \in marked', payout'[s] # "none"
       PROVE  record'[s].released
    <2>1. s # r /\ claim[s].age >= Hold
        BY <1>1, <1>9, <1>11
    <2>2. s \notin B
        <3>1. claim[s].age \in Nat
            BY <1>2, AuthAssumption DEF NoClaim
        <3> QED BY <1>3, <2>1, <3>1, AuthAssumption
    <2> QED BY <1>1, <1>7, <1>11, <2>1, <2>2 DEF ScreenInv, BurstIsHeld
<1> QED BY <1>8, <1>9, <1>10, <1>11 DEF Screened, BurstIsHeld

LEMMA ScreenStep ==
    ASSUME ScreenInv, [AuthNext]_authVars
    PROVE  Screened' /\ BurstIsHeld'
<1>0. /\ AuthTypeOK /\ AuthInv /\ Screened /\ BurstIsHeld
      /\ claim \in [Requests -> {NoClaim} \cup [age : 0 .. Hold, by : Auths]]
      /\ record \in [Requests -> [stored : BOOLEAN, review : BOOLEAN, released : BOOLEAN]]
      /\ payout \in [Requests -> {"none", "allowed", "sent"}]
      /\ marked \subseteq Requests
    BY DEF ScreenInv, AuthInv, AuthTypeOK
<1>1. CASE UNCHANGED <<req, claim, record, marked, payout>>
    BY <1>0, <1>1 DEF Screened, BurstIsHeld
<1>2. ASSUME NEW s \in Requests, NEW a \in Auths, Check(s, a) PROVE Screened' /\ BurstIsHeld'
    <2>1. ASSUME NEW r \in Requests, record[r].stored
          PROVE  req'[r].pc \in {"recorded", "answering", "done"}
        BY <1>0, <1>2, <2>1 DEF Check, Screened, AuthTypeOK, AtRest
    <2> QED BY <1>2, <2>1, ScreenKept DEF Check
<1>3. ASSUME NEW s \in Requests, GuardStep(s), ~RecordClaimEvent(s) PROVE Screened' /\ BurstIsHeld'
    <2>1. UNCHANGED <<record, marked, payout>>
        BY <1>3, Zenon DEF GuardStep, TakeAttempt, Verify, Retire, BeginProcessing, Preclaim, ApplicationAnswers,
                RecordingRaises, ConsumeAuthorization, Answer
    <2>2. ASSUME record[s].stored
          PROVE  claim' = claim /\ \E pc \in {"answering", "done"} : Goto(s, pc)
        BY <1>0, <1>3, <2>2 DEF Screened, GuardStep, TakeAttempt, Verify, Retire, BeginProcessing, Preclaim,
                ApplicationAnswers, RecordingRaises, ConsumeAuthorization, Answer
    <2>3. ASSUME NEW r \in Requests, record[r].stored
          PROVE  req'[r].pc \in {"recorded", "answering", "done"} /\ claim'[r] = claim[r]
        <3>1. CASE r = s
            <4>1. req[s].pc # "idle"
                BY <1>0, <2>3, <3>1 DEF Screened
            <4> QED BY <1>0, <2>2, <2>3, <3>1, <4>1, GotoType DEF Stages
        <3>2. CASE r # s
            BY <1>0, <1>3, <2>3, <3>2, GuardGoes DEF Screened
        <3> QED BY <3>1, <3>2
    <2> QED BY <2>1, <2>3, ScreenKept
<1>4. ASSUME NEW s \in Requests, RecordClaimEvent(s) PROVE Screened' /\ BurstIsHeld'
    BY <1>4, RecordingScreened
<1>5. ASSUME NEW s \in Requests, DecidePayout(s) PROVE Screened' /\ BurstIsHeld'
    <2>1. \A r \in Requests : payout'[r] # "none" =>
              \/ payout[r] # "none"
              \/ r = s /\ record[r].stored /\ ~record[r].review /\ claim[r].age >= Hold
        BY <1>0, <1>5 DEF DecidePayout, PayoutAllowed
    <2>2. UNCHANGED <<req, claim, record, marked>>
        BY <1>5 DEF DecidePayout
    <2> QED BY <1>0, <2>1, <2>2 DEF Screened, BurstIsHeld
<1>6. ASSUME NEW s \in Requests, SendPayout(s) PROVE Screened' /\ BurstIsHeld'
    <2>1. \A r \in Requests : payout'[r] # "none" => payout[r] # "none"
        BY <1>0, <1>6 DEF SendPayout
    <2>2. UNCHANGED <<req, claim, record, marked>>
        BY <1>6 DEF SendPayout
    <2> QED BY <1>0, <2>1, <2>2 DEF Screened, BurstIsHeld
<1>7. ASSUME NEW s \in Requests, Release(s) PROVE Screened' /\ BurstIsHeld'
    <2>1. record[s] \in [stored : BOOLEAN, review : BOOLEAN, released : BOOLEAN]
        BY <1>0
    <2>2. ASSUME NEW x \in [stored : BOOLEAN, review : BOOLEAN, released : BOOLEAN]
          PROVE  /\ [x EXCEPT !.review = FALSE, !.released = TRUE].stored = x.stored
                 /\ [x EXCEPT !.review = FALSE, !.released = TRUE].released
        OBVIOUS
    <2>3. record' = [record EXCEPT ![s] = [record[s] EXCEPT !.review = FALSE, !.released = TRUE]]
        BY <1>7 DEF Release
    <2>4. \A r \in Requests : /\ record'[r].stored = record[r].stored
                              /\ record[r].released => record'[r].released
                              /\ record[r].review => record'[r].review \/ record'[r].released
        BY <1>0, <2>2, <2>3
    <2>5. UNCHANGED <<req, claim, payout, marked>>
        BY <1>7 DEF Release
    <2> QED BY <1>0, <2>4, <2>5 DEF Screened, BurstIsHeld
<1>8. CASE Tick
    <2>1. ASSUME NEW r \in Requests, claim[r].age >= Hold PROVE claim'[r].age >= Hold
        <3>1. CASE claim[r] = NoClaim
            BY <1>8, <2>1, <3>1 DEF Tick
        <3>2. CASE claim[r] # NoClaim
            <4>1. claim'[r] = [claim[r] EXCEPT !.age = Sooner(@ + 1, Hold)]
                BY <1>8, <3>2 DEF Tick
            <4>2. claim[r] \in [age : 0 .. Hold, by : Auths]
                BY <1>0, <3>2
            <4>3. claim'[r].age = Sooner(claim[r].age + 1, Hold)
                BY <4>1, <4>2
            <4> QED BY <2>1, <4>2, <4>3, AuthAssumption DEF Sooner
        <3> QED BY <3>1, <3>2
    <2>2. \A r \in Requests : record[r].stored => req'[r].pc \in {"recorded", "answering", "done"}
        BY <1>0, <1>8 DEF Tick, Screened
    <2>3. UNCHANGED <<record, marked, payout>>
        BY <1>8 DEF Tick
    <2> QED BY <2>1, <2>2, <2>3, ScreenKept
<1>9. CASE AuthCrash
    <2>1. \A r \in Requests : payout'[r] # "none" => payout[r] # "none"
        BY <1>0, <1>9 DEF AuthCrash
    <2>2. \A r \in Requests : record[r].stored => req'[r].pc \in {"recorded", "answering", "done"}
        BY <1>0, <1>9 DEF AuthCrash, Screened, AuthTypeOK, AtRest
    <2>3. UNCHANGED <<claim, record, marked>>
        BY <1>9 DEF AuthCrash
    <2> QED BY <1>0, <2>1, <2>2, <2>3 DEF Screened, BurstIsHeld
<1> QED BY <1>1, <1>2, <1>3, <1>4, <1>5, <1>6, <1>7, <1>8, <1>9
        DEF AuthNext, Prepare, CleanupAuthorizations, authVars

(* PayoutsAreScreened for any number of claims and any burst size: no claim *)
(* is paid without its security record, and a claim that a burst put under  *)
(* review was not paid before and is paid only after an operator's release. *)
THEOREM PayoutsScreened == AuthSpec => []PayoutsAreScreened
<1>1. AuthInit => Screened /\ BurstIsHeld
    BY DEF AuthInit, Screened, BurstIsHeld, NoRecord
<1>2. AuthInv /\ Screened /\ BurstIsHeld /\ [AuthNext]_authVars => (Screened /\ BurstIsHeld)'
    BY ScreenStep DEF ScreenInv
<1>3. Screened /\ BurstIsHeld => PayoutsAreScreened
    BY DEF Screened, PayoutsAreScreened, PaidIsRecorded
<1> QED BY <1>1, <1>2, <1>3, AuthInvHolds, PTL DEF AuthSpec

-----------------------------------------------------------------------------
(* Signer and first-location verdicts *)

PlaceRecord == [decided : Nat, verified : BOOLEAN, retry : Nat, mismatchIp : Ips \cup {"none"},
                seenIp : Ips \cup {"none"}, seen : Points \cup {"none"}, unreliable : Seq(Ips)]

(* What the decisions rely on: a request keeps the clock it has read, which *)
(* is behind the clock, and an untrusted signer that was looked up is asked *)
(* again only later than that.                                              *)
FreshInv ==
    /\ freshNow \in Nat \ {0}
    /\ signer \in [trusted : BOOLEAN, checked : Nat, refresh : Nat]
    /\ place \in PlaceRecord
    /\ signer = NoSigner \/ signer.trusted \/ signer.checked < signer.refresh
    /\ \E f : lookup = [r \in Lookups |-> f[r]]
    /\ \A r \in Lookups :
          \/ lookup[r].pc \in {"idle", "done"}
          \/ /\ lookup[r] \in [pc : {"signer", "trusted", "place"}, at : Nat \ {0}, ip : Ips]
             /\ lookup[r].at =< freshNow

(* A request that moves leaves the others alone.                            *)
LEMMA LookupMoves ==
    ASSUME FreshInv, NEW r \in Lookups, NEW v, lookup' = [lookup EXCEPT ![r] = v],
           freshNow' = freshNow,
           \/ v.pc \in {"idle", "done"}
           \/ v \in [pc : {"signer", "trusted", "place"}, at : Nat \ {0}, ip : Ips] /\ v.at =< freshNow
    PROVE  /\ \E f : lookup' = [q \in Lookups |-> f[q]]
           /\ \A q \in Lookups :
                \/ lookup'[q].pc \in {"idle", "done"}
                \/ /\ lookup'[q] \in [pc : {"signer", "trusted", "place"}, at : Nat \ {0}, ip : Ips]
                   /\ lookup'[q].at =< freshNow'
           /\ lookup'[r] = v /\ \A q \in Lookups : q # r => lookup'[q] = lookup[q]
<1>1. PICK f : lookup = [q \in Lookups |-> f[q]]
    BY DEF FreshInv
<1>2. lookup' = [q \in Lookups |-> IF q = r THEN v ELSE lookup[q]]
    BY <1>1
<1>3. \E g : lookup' = [q \in Lookups |-> g[q]]
    <2> DEFINE g == [q \in Lookups |-> IF q = r THEN v ELSE lookup[q]]
    <2>1. lookup' = [q \in Lookups |-> g[q]]
        BY <1>2
    <2> QED BY <2>1
<1>4. lookup'[r] = v /\ \A q \in Lookups : q # r => lookup'[q] = lookup[q]
    BY <1>2
<1> QED BY <1>3, <1>4 DEF FreshInv

(* What a finished lookup may write.                                        *)
LEMMA FoundIsLater ==
    ASSUME NEW at \in Nat \ {0}, NEW found,
           \/ \E wait \in Nat \ {0} : found = SignerUnknown(at, wait)
           \/ \E oldest \in Nat : found = SignerRecord(at, oldest)
    PROVE  /\ found \in [trusted : BOOLEAN, checked : Nat, refresh : Nat]
           /\ found.trusted \/ found.checked < found.refresh
           /\ found.checked = at
<1> USE FreshAssumption
<1>1. ASSUME NEW wait \in Nat \ {0}, found = SignerUnknown(at, wait)
      PROVE  /\ found \in [trusted : BOOLEAN, checked : Nat, refresh : Nat]
             /\ found.trusted \/ found.checked < found.refresh
             /\ found.checked = at
    BY <1>1 DEF SignerUnknown
<1>2. ASSUME NEW oldest \in Nat, found = SignerRecord(at, oldest)
      PROVE  /\ found \in [trusted : BOOLEAN, checked : Nat, refresh : Nat]
             /\ found.trusted \/ found.checked < found.refresh
             /\ found.checked = at
    <2>1. CASE Established(at, oldest)
        BY <1>2, <2>1 DEF SignerRecord
    <2>2. CASE ~Established(at, oldest)
        <3>1. /\ TrustAge \in Nat \ {0} /\ NegativeCache \in Nat \ {0}
              /\ oldest + TrustAge > at
            BY <2>2 DEF Established
        <3>2. /\ Earlier(at + NegativeCache, oldest + TrustAge + 1) \in Nat
              /\ at < Earlier(at + NegativeCache, oldest + TrustAge + 1)
            BY <3>1 DEF Earlier
        <3> QED BY <1>2, <2>2, <3>2 DEF SignerRecord
    <2> QED BY <2>1, <2>2
<1> QED BY <1>1, <1>2

LEMMA SignerCommitStep ==
    ASSUME FreshInv, NEW r \in Lookups, lookup[r].pc = "signer", NEW found, SignerCommit(r, found),
           UNCHANGED <<freshNow, suspended, place>>,
           \/ \E wait \in Nat \ {0} : found = SignerUnknown(lookup[r].at, wait)
           \/ \E oldest \in Nat : found = SignerRecord(lookup[r].at, oldest)
    PROVE  FreshInv' /\ SignerVerdictStands /\ PassesUnrestricted
<1> DEFINE at == lookup[r].at
           ip == lookup[r].ip
<1>1. lookup[r] \in [pc : {"signer", "trusted", "place"}, at : Nat \ {0}, ip : Ips] /\ at =< freshNow
    BY DEF FreshInv
<1>2. at \in Nat \ {0} /\ ip \in Ips
    BY <1>1
<1>3. /\ found \in [trusted : BOOLEAN, checked : Nat, refresh : Nat]
      /\ found.trusted \/ found.checked < found.refresh
      /\ found.checked = at
    BY <1>2, FoundIsLater
<1>4. /\ Decide(r, FALSE) \/ Proceed(r, at, ip)
      /\ signer' # signer => signer' = found /\ ~KeepsSigner(at, found)
      /\ signer' \in {signer, found}
    BY Zenon DEF SignerCommit
<1>5. signer' # signer => ~signer.trusted /\ (signer'.trusted \/ signer'.checked > signer.checked)
    <2> SUFFICES ASSUME signer' # signer, ~found.trusted
                 PROVE  ~signer.trusted /\ found.checked > signer.checked
        BY <1>4 DEF KeepsSigner
    <2>1. ~signer.trusted /\ (signer.refresh =< at \/ signer.checked < at)
        BY <1>2, <1>4 DEF KeepsSigner, SignerSettled, FreshInv
    <2>2. signer.checked < at
        BY <1>2, <2>1 DEF FreshInv, NoSigner
    <2> QED BY <1>3, <2>1, <2>2
<1>6. PICK v : /\ lookup' = [lookup EXCEPT ![r] = v]
               /\ \/ v = [pc |-> "done", ok |-> FALSE]
                  \/ v = [pc |-> "trusted", at |-> at, ip |-> ip]
    BY <1>4 DEF Decide, Proceed
<1>7. \/ v.pc \in {"idle", "done"}
      \/ v \in [pc : {"signer", "trusted", "place"}, at : Nat \ {0}, ip : Ips] /\ v.at =< freshNow
    BY <1>1, <1>2, <1>6
<1>8. PassesUnrestricted
    BY <1>6, <1>7, LookupMoves DEF PassesUnrestricted
<1>9. FreshInv'
    <2>1. /\ signer' \in [trusted : BOOLEAN, checked : Nat, refresh : Nat]
          /\ signer' = NoSigner \/ signer'.trusted \/ signer'.checked < signer'.refresh
        BY <1>3, <1>4 DEF FreshInv
    <2> QED BY <1>6, <1>7, <2>1, LookupMoves DEF FreshInv
<1> QED BY <1>5, <1>8, <1>9 DEF SignerVerdictStands

(* A request decides: it is let through only without a restriction.         *)
LEMMA Decides ==
    ASSUME FreshInv, NEW r \in Lookups, NEW ok, Decide(r, ok),
           UNCHANGED <<freshNow, suspended, signer>>,
           place' \in PlaceRecord, ok => place'.retry =< freshNow
    PROVE  FreshInv' /\ PassesUnrestricted
<1>1. lookup' = [lookup EXCEPT ![r] = [pc |-> "done", ok |-> ok]]
    BY DEF Decide
<1>2. [pc |-> "done", ok |-> ok].pc = "done" /\ [pc |-> "done", ok |-> ok].ok = ok
    OBVIOUS
<1>3. PICK v : v = [pc |-> "done", ok |-> ok]
    OBVIOUS
<1>4. /\ lookup'[r] = v /\ \A q \in Lookups : q # r => lookup'[q] = lookup[q]
      /\ \E f : lookup' = [q \in Lookups |-> f[q]]
      /\ \A q \in Lookups :
           \/ lookup'[q].pc \in {"idle", "done"}
           \/ /\ lookup'[q] \in [pc : {"signer", "trusted", "place"}, at : Nat \ {0}, ip : Ips]
              /\ lookup'[q].at =< freshNow'
    BY <1>1, <1>2, <1>3, LookupMoves
<1>5. PassesUnrestricted
    BY <1>2, <1>3, <1>4 DEF PassesUnrestricted
<1>6. FreshInv'
    BY <1>4 DEF FreshInv
<1> QED BY <1>5, <1>6

(* The record a lookup may write instead of the one it read.                *)
LEMMA PlaceCommitStep ==
    ASSUME FreshInv, NEW r \in Lookups, lookup[r].pc = "place", NEW next, NEW ok,
           PlaceCommit(r, next, ok), UNCHANGED <<freshNow, suspended, signer>>,
           next \in PlaceRecord, next.decided = lookup[r].at, ok => next.retry = 0
    PROVE  FreshInv' /\ PlaceVerdictStands /\ PassesUnrestricted
<1>0. /\ lookup[r].at \in Nat \ {0} /\ lookup[r].at =< freshNow /\ freshNow \in Nat
      /\ place \in PlaceRecord /\ place.retry \in Nat /\ place.decided \in Nat /\ next.retry \in Nat
    BY DEF FreshInv, PlaceRecord
<1>1. CASE suspended
    BY <1>0, <1>1, Decides DEF PlaceCommit, PlaceVerdictStands
<1>2. CASE ~suspended /\ KeepsPlace(lookup[r].at)
    <2>1. place' = place /\ Decide(r, place.verified /\ ~Restricted(lookup[r].at))
        BY <1>2 DEF PlaceCommit
    <2>2. ~Restricted(lookup[r].at) => place'.retry =< freshNow
        BY <1>0, <2>1 DEF Restricted
    <2>3. FreshInv' /\ PassesUnrestricted
        BY <1>0, <2>1, <2>2, Decides
    <2> QED BY <2>1, <2>3 DEF PlaceVerdictStands
<1>3. CASE ~suspended /\ ~KeepsPlace(lookup[r].at)
    <2>1. place' = next /\ Decide(r, ok)
        BY <1>3 DEF PlaceCommit
    <2>2. PlaceVerdictStands
        BY <1>0, <1>3, <2>1 DEF KeepsPlace, PlaceSettled, Restricted, PlaceVerdictStands
    <2>3. ok => place'.retry =< freshNow
        BY <1>0, <2>1
    <2> QED BY <2>1, <2>2, <2>3, Decides
<1> QED BY <1>1, <1>2, <1>3

LEMMA LastTwoType ==
    ASSUME NEW s \in Seq(Ips), NEW ip \in Ips
    PROVE  LastTwo(Append(s, ip)) \in Seq(Ips)
<1> DEFINE t == Append(s, ip)
           m == IF Len(t) > 2 THEN Len(t) - 1 ELSE 1
<1>1. t \in Seq(Ips) /\ Len(t) \in Nat /\ \A i \in 1 .. Len(t) : t[i] \in Ips
    OBVIOUS
<1> HIDE DEF t
<1>2. m \in Int /\ \A i \in m .. Len(t) : i \in 1 .. Len(t)
    BY <1>1
<1> HIDE DEF m
<1>3. SubSeq(t, m, Len(t)) \in Seq(Ips)
    BY <1>1, <1>2, SubSeqProperties
<1> QED BY <1>3 DEF LastTwo, t, m

LEMMA WrittenPlaces ==
    ASSUME place \in PlaceRecord, NEW at \in Nat \ {0}, NEW ip \in Ips, NEW point \in Points
    PROVE  /\ WithUnreliable(at, ip) \in PlaceRecord
           /\ WithUnreliable(at, ip).decided = at /\ WithUnreliable(at, ip).retry = 0
           /\ WithAnswer(at, ip, point) \in PlaceRecord
           /\ WithAnswer(at, ip, point).decided = at
           /\ point \notin Blatant => WithAnswer(at, ip, point).retry = 0
           /\ [place EXCEPT !.decided = at, !.retry = at + UnknownRetry] \in PlaceRecord
           /\ [place EXCEPT !.decided = at, !.retry = at + UnknownRetry].decided = at
<1>1. UnknownRetry \in Nat /\ Cooldown \in Nat /\ SecondCooldown \in Nat
    BY FreshAssumption
<1>2. at + CooldownOf(ip) \in Nat
    BY <1>1 DEF CooldownOf
<1>3. LastTwo(Append(place.unreliable, ip)) \in Seq(Ips)
    BY LastTwoType DEF PlaceRecord
<1>4. /\ WithUnreliable(at, ip) \in PlaceRecord
      /\ WithUnreliable(at, ip).decided = at /\ WithUnreliable(at, ip).retry = 0
    <2>1. PICK w : w = LastTwo(Append(place.unreliable, ip))
        OBVIOUS
    <2>2. WithUnreliable(at, ip) =
              [place EXCEPT !.decided = at, !.retry = 0, !.unreliable = w,
                            !.mismatchIp = IF @ = ip THEN "none" ELSE @]
        BY <2>1 DEF WithUnreliable
    <2>3. w \in Seq(Ips)
        BY <1>3, <2>1
    <2>4. ASSUME NEW v \in Seq(Ips), NEW m \in Ips \cup {"none"}
          PROVE  /\ [place EXCEPT !.decided = at, !.retry = 0, !.unreliable = v, !.mismatchIp = m] \in PlaceRecord
                 /\ [place EXCEPT !.decided = at, !.retry = 0, !.unreliable = v, !.mismatchIp = m].decided = at
                 /\ [place EXCEPT !.decided = at, !.retry = 0, !.unreliable = v, !.mismatchIp = m].retry = 0
        BY DEF PlaceRecord
    <2>5. PICK m : m = IF place.mismatchIp = ip THEN "none" ELSE place.mismatchIp
        OBVIOUS
    <2>6. m \in Ips \cup {"none"}
        BY <2>5 DEF PlaceRecord
    <2>7. WithUnreliable(at, ip) =
              [place EXCEPT !.decided = at, !.retry = 0, !.unreliable = w, !.mismatchIp = m]
        BY <2>2, <2>5, Zenon
    <2> QED BY <2>3, <2>4, <2>6, <2>7, Zenon
<1>7. /\ [place EXCEPT !.decided = at, !.retry = at + UnknownRetry] \in PlaceRecord
      /\ [place EXCEPT !.decided = at, !.retry = at + UnknownRetry].decided = at
    <2>1. ASSUME NEW k \in Nat
          PROVE  /\ [place EXCEPT !.decided = at, !.retry = k] \in PlaceRecord
                 /\ [place EXCEPT !.decided = at, !.retry = k].decided = at
        BY DEF PlaceRecord
    <2>2. at + UnknownRetry \in Nat
        BY <1>1
    <2> QED BY <2>1, <2>2, Zenon
<1>5. CASE point \notin Blatant
    <2>1. WithAnswer(at, ip, point) =
              [[place EXCEPT !.decided = at, !.seenIp = ip, !.seen = point] EXCEPT !.verified = TRUE, !.retry = 0]
        BY <1>5 DEF WithAnswer
    <2>2. [place EXCEPT !.decided = at, !.seenIp = ip, !.seen = point] \in PlaceRecord
        BY DEF PlaceRecord
    <2>3. [place EXCEPT !.decided = at, !.seenIp = ip, !.seen = point].decided = at
        BY DEF PlaceRecord
    <2>4. ASSUME NEW s \in PlaceRecord
          PROVE  /\ [s EXCEPT !.verified = TRUE, !.retry = 0] \in PlaceRecord
                 /\ [s EXCEPT !.verified = TRUE, !.retry = 0].decided = s.decided
                 /\ [s EXCEPT !.verified = TRUE, !.retry = 0].retry = 0
        BY DEF PlaceRecord
    <2>5. /\ WithAnswer(at, ip, point) \in PlaceRecord
          /\ WithAnswer(at, ip, point).decided = at /\ WithAnswer(at, ip, point).retry = 0
        BY <2>1, <2>2, <2>3, <2>4, Zenon
    <2> QED BY <1>4, <1>7, <2>5, Zenon
<1>6. CASE point \in Blatant
    <2>1. WithAnswer(at, ip, point) =
              [[place EXCEPT !.decided = at, !.seenIp = ip, !.seen = point]
                  EXCEPT !.mismatchIp = ip, !.retry = at + CooldownOf(ip)]
        BY <1>6 DEF WithAnswer
    <2>2. [place EXCEPT !.decided = at, !.seenIp = ip, !.seen = point] \in PlaceRecord
        BY DEF PlaceRecord
    <2>3. [place EXCEPT !.decided = at, !.seenIp = ip, !.seen = point].decided = at
        BY DEF PlaceRecord
    <2>4. ASSUME NEW s \in PlaceRecord, NEW k \in Nat
          PROVE  /\ [s EXCEPT !.mismatchIp = ip, !.retry = k] \in PlaceRecord
                 /\ [s EXCEPT !.mismatchIp = ip, !.retry = k].decided = s.decided
        BY DEF PlaceRecord
    <2>5. WithAnswer(at, ip, point) \in PlaceRecord /\ WithAnswer(at, ip, point).decided = at
        BY <1>2, <2>1, <2>2, <2>3, <2>4, Zenon
    <2> QED BY <1>4, <1>6, <1>7, <2>5, Zenon
<1> QED BY <1>5, <1>6

LEMMA FreshStep ==
    ASSUME FreshInv, [FreshNext]_freshVars
    PROVE  FreshInv' /\ SignerVerdictStands /\ PlaceVerdictStands /\ PassesUnrestricted
<1>0. /\ freshNow \in Nat \ {0} /\ place \in PlaceRecord
      /\ place.retry \in Nat /\ place.decided \in Nat
      /\ signer \in [trusted : BOOLEAN, checked : Nat, refresh : Nat]
    BY DEF FreshInv, PlaceRecord
<1>1. ASSUME NEW r \in Lookups, lookup[r].pc \notin {"idle", "done"}
      PROVE  /\ lookup[r] \in [pc : {"signer", "trusted", "place"}, at : Nat \ {0}, ip : Ips]
             /\ lookup[r].at \in Nat \ {0} /\ lookup[r].at =< freshNow /\ lookup[r].ip \in Ips
    BY <1>1 DEF FreshInv
<1>2. ASSUME NEW r \in Lookups, NEW v, lookup' = [lookup EXCEPT ![r] = v],
             UNCHANGED <<freshNow, suspended, signer, place>>,
             \/ v.pc = "idle"
             \/ v \in [pc : {"signer", "trusted", "place"}, at : Nat \ {0}, ip : Ips] /\ v.at =< freshNow
      PROVE  FreshInv' /\ SignerVerdictStands /\ PlaceVerdictStands /\ PassesUnrestricted
    <2>1. /\ lookup'[r] = v /\ \A q \in Lookups : q # r => lookup'[q] = lookup[q]
          /\ \E f : lookup' = [q \in Lookups |-> f[q]]
          /\ \A q \in Lookups :
               \/ lookup'[q].pc \in {"idle", "done"}
               \/ /\ lookup'[q] \in [pc : {"signer", "trusted", "place"}, at : Nat \ {0}, ip : Ips]
                  /\ lookup'[q].at =< freshNow'
        BY <1>2, LookupMoves
    <2>2. v.pc # "done"
        BY <1>2
    <2>3. FreshInv'
        BY <1>2, <2>1 DEF FreshInv
    <2>4. PassesUnrestricted
        BY <2>1, <2>2 DEF PassesUnrestricted
    <2> QED BY <1>2, <2>3, <2>4 DEF SignerVerdictStands, PlaceVerdictStands
<1>3. ASSUME NEW r \in Lookups, NEW ok, Decide(r, ok), UNCHANGED <<freshNow, suspended, signer, place>>,
             ok => place.retry =< freshNow
      PROVE  FreshInv' /\ SignerVerdictStands /\ PlaceVerdictStands /\ PassesUnrestricted
    BY <1>0, <1>3, Decides DEF SignerVerdictStands, PlaceVerdictStands
<1>4. ASSUME NEW r \in Lookups, NEW ip \in Ips, BeginDecision(r, ip)
      PROVE  FreshInv' /\ SignerVerdictStands /\ PlaceVerdictStands /\ PassesUnrestricted
    <2>1. UNCHANGED <<freshNow, suspended, signer, place>>
        BY <1>4 DEF BeginDecision
    <2>2. CASE Decide(r, FALSE)
        BY <1>3, <2>1, <2>2
    <2>3. ASSUME NEW v, v = [pc |-> "trusted", at |-> freshNow, ip |-> ip]
                         \/ v = [pc |-> "signer", at |-> freshNow, ip |-> ip]
          PROVE  v \in [pc : {"signer", "trusted", "place"}, at : Nat \ {0}, ip : Ips] /\ v.at =< freshNow
        BY <1>0, <2>3
    <2>4. CASE Proceed(r, freshNow, ip)
        BY <1>2, <2>1, <2>3, <2>4 DEF Proceed
    <2>5. CASE lookup' = [lookup EXCEPT ![r] = [pc |-> "signer", at |-> freshNow, ip |-> ip]]
        BY <1>2, <2>1, <2>3, <2>5
    <2> QED BY <1>4, <2>2, <2>4, <2>5 DEF BeginDecision
<1>5. ASSUME NEW r \in Lookups, AskPlace(r)
      PROVE  FreshInv' /\ SignerVerdictStands /\ PlaceVerdictStands /\ PassesUnrestricted
    <2>1. lookup[r].pc = "trusted" /\ UNCHANGED <<freshNow, suspended, signer, place>>
        BY <1>5 DEF AskPlace
    <2>2. CASE Decide(r, ~Restricted(lookup[r].at))
        <3>1. ~Restricted(lookup[r].at) => place.retry =< freshNow
            BY <1>0, <1>1, <2>1 DEF Restricted
        <3> QED BY <1>3, <2>1, <2>2, <3>1
    <2>3. CASE ~PlaceSettled(lookup[r].at) /\ Decide(r, TRUE)
        <3>1. place.retry =< freshNow
            BY <1>0, <1>1, <2>1, <2>3 DEF PlaceSettled, Restricted
        <3> QED BY <1>3, <2>1, <2>3, <3>1
    <2>4. CASE lookup' = [lookup EXCEPT ![r].pc = "place"]
        <3>1. PICK v : v = [pc |-> "place", at |-> lookup[r].at, ip |-> lookup[r].ip]
            OBVIOUS
        <3>2. [lookup[r] EXCEPT !.pc = "place"] = v
            BY <1>1, <2>1, <3>1
        <3>3. lookup' = [lookup EXCEPT ![r] = v]
            BY <2>4, <3>2
        <3>4. v \in [pc : {"signer", "trusted", "place"}, at : Nat \ {0}, ip : Ips] /\ v.at =< freshNow
            BY <1>1, <2>1, <3>1
        <3> QED BY <1>2, <2>1, <3>3, <3>4
    <2> QED BY <1>5, <2>2, <2>3, <2>4 DEF AskPlace
<1>6. ASSUME NEW r \in Lookups, HistoryAnswered(r)
      PROVE  FreshInv' /\ SignerVerdictStands /\ PlaceVerdictStands /\ PassesUnrestricted
    <2>1. lookup[r].pc = "signer" /\ UNCHANGED <<freshNow, suspended, place>>
        BY <1>6 DEF HistoryAnswered
    <2>2. \E found : /\ SignerCommit(r, found)
                     /\ \/ \E wait \in Nat \ {0} : found = SignerUnknown(lookup[r].at, wait)
                        \/ \E oldest \in Nat : found = SignerRecord(lookup[r].at, oldest)
        <3>1. FailureRetry \in Nat \ {0} /\ NegativeCache \in Nat \ {0} /\ Histories \subseteq Nat
            BY FreshAssumption
        <3> QED BY <1>6, <3>1 DEF HistoryAnswered
    <2> QED BY <2>1, <2>2, SignerCommitStep DEF PlaceVerdictStands
<1>7. ASSUME NEW r \in Lookups, NEW point \in Points, ProviderAnswers(r, point)
      PROVE  FreshInv' /\ SignerVerdictStands /\ PlaceVerdictStands /\ PassesUnrestricted
    <2>1. lookup[r].pc = "place" /\ UNCHANGED <<freshNow, suspended, signer>>
        BY <1>7 DEF ProviderAnswers
    <2>2. lookup[r].at \in Nat \ {0} /\ lookup[r].at =< freshNow /\ lookup[r].ip \in Ips
        BY <1>1, <2>1
    <2>3. CASE ~PlaceSettled(lookup[r].at) /\ Decide(r, TRUE) /\ UNCHANGED place
        <3>1. place.retry =< freshNow
            BY <1>0, <2>2, <2>3 DEF PlaceSettled, Restricted
        <3> QED BY <1>3, <2>1, <2>3, <3>1
    <2>4. CASE PlaceCommit(r, WithUnreliable(lookup[r].at, lookup[r].ip), TRUE)
        BY <1>0, <2>1, <2>2, <2>4, WrittenPlaces, PlaceCommitStep DEF SignerVerdictStands
    <2>5. ASSUME NEW ok, ok = (point \notin Blatant),
                 PlaceCommit(r, WithAnswer(lookup[r].at, lookup[r].ip, point), ok)
          PROVE  FreshInv' /\ SignerVerdictStands /\ PlaceVerdictStands /\ PassesUnrestricted
        <3>1. /\ WithAnswer(lookup[r].at, lookup[r].ip, point) \in PlaceRecord
              /\ WithAnswer(lookup[r].at, lookup[r].ip, point).decided = lookup[r].at
              /\ point \notin Blatant => WithAnswer(lookup[r].at, lookup[r].ip, point).retry = 0
            <4>1. ASSUME NEW at \in Nat \ {0}, NEW ip \in Ips
                  PROVE  /\ WithAnswer(at, ip, point) \in PlaceRecord
                         /\ WithAnswer(at, ip, point).decided = at
                         /\ point \notin Blatant => WithAnswer(at, ip, point).retry = 0
                <5>1. place \in PlaceRecord /\ point \in Points
                    BY <1>0, <1>7
                <5> QED BY <5>1, WrittenPlaces, Zenon
            <4>2. PICK at \in Nat \ {0}, ip \in Ips : at = lookup[r].at /\ ip = lookup[r].ip
                BY <2>2
            <4> QED BY <4>1, <4>2, Zenon
        <3>2. FreshInv' /\ PlaceVerdictStands /\ PassesUnrestricted
            <4>1. ok => point \notin Blatant
                BY <2>5, Zenon
            <4> QED BY <2>1, <2>5, <3>1, <4>1, PlaceCommitStep, Zenon
        <3> QED BY <2>1, <3>2 DEF SignerVerdictStands
    <2> QED BY <1>7, <2>3, <2>4, <2>5 DEF ProviderAnswers
<1>8. ASSUME NEW r \in Lookups, ProviderFails(r)
      PROVE  FreshInv' /\ SignerVerdictStands /\ PlaceVerdictStands /\ PassesUnrestricted
    <2>1. /\ lookup[r].pc = "place" /\ UNCHANGED <<freshNow, suspended, signer>>
          /\ PlaceCommit(r, [place EXCEPT !.decided = lookup[r].at, !.retry = lookup[r].at + UnknownRetry], FALSE)
        BY <1>8 DEF ProviderFails
    <2>2. lookup[r].at \in Nat \ {0}
        BY <1>1, <2>1
    <2>3. ASSUME NEW k \in Nat
          PROVE  /\ [place EXCEPT !.decided = lookup[r].at, !.retry = k] \in PlaceRecord
                 /\ [place EXCEPT !.decided = lookup[r].at, !.retry = k].decided = lookup[r].at
        BY <1>0, <2>2 DEF PlaceRecord
    <2>4. lookup[r].at + UnknownRetry \in Nat
        BY <2>2, FreshAssumption
    <2> QED BY <2>1, <2>3, <2>4, PlaceCommitStep DEF SignerVerdictStands
<1>9. CASE Elapse
    BY <1>0, <1>9 DEF Elapse, FreshInv, SignerVerdictStands, PlaceVerdictStands, PassesUnrestricted
<1>10. CASE SuspendUser \/ UNCHANGED freshVars
    BY <1>10 DEF SuspendUser, freshVars, FreshInv, SignerVerdictStands, PlaceVerdictStands, PassesUnrestricted
<1>11. ASSUME NEW r \in Lookups, Again(r)
       PROVE  FreshInv' /\ SignerVerdictStands /\ PlaceVerdictStands /\ PassesUnrestricted
    <2>1. Start.pc = "idle"
        BY DEF Start
    <2> QED BY <1>2, <1>11, <2>1 DEF Again
<1> QED BY <1>4, <1>5, <1>6, <1>7, <1>8, <1>9, <1>10, <1>11 DEF FreshNext

(* VerdictsStand for any number of concurrent requests and any clock: a     *)
(* lookup that answers late neither undoes a verdict that a later request   *)
(* reached nor lets its own request past a restriction set meanwhile.       *)
THEOREM SlowVerdictsStand == FreshSpec => VerdictsStand
<1>1. FreshInit => FreshInv
    <2> SUFFICES ASSUME FreshInit PROVE FreshInv
        OBVIOUS
    <2>1. \E f : lookup = [r \in Lookups |-> f[r]]
        <3>1. lookup = [r \in Lookups |-> [q \in Lookups |-> Start][r]]
            BY DEF FreshInit
        <3> QED BY <3>1
    <2>2. \A r \in Lookups : lookup[r].pc = "idle"
        BY DEF FreshInit, Start
    <2> QED BY <2>1, <2>2 DEF FreshInit, FreshInv, NoSigner, NoPlace, PlaceRecord
<1>2. FreshInv /\ [FreshNext]_freshVars => FreshInv'
    BY FreshStep
<1>3. FreshInv /\ [FreshNext]_freshVars =>
          [SignerVerdictStands /\ PlaceVerdictStands /\ PassesUnrestricted]_freshVars
    BY FreshStep
<1> QED BY <1>1, <1>2, <1>3, PTL DEF FreshSpec, VerdictsStand

-----------------------------------------------------------------------------
(* Wallet sessions *)

Verifying == [pc : {"admitted", "loaded", "verified"}, chal : Challenges, device : Devices, wallet : Wallets]

(* A session has used up its challenge, and its wallet is the one its       *)
(* device is bound to.                                                      *)
SessionInv ==
    /\ chal \in [Challenges -> [status : {"absent", "stored", "gone"}, device : Devices \cup {"none"},
                             age : 0 .. ChallengeTTL]]
    /\ verifier \in [Verifiers -> {Resting} \cup Verifying]
    /\ sessions \subseteq [by : Verifiers, chal : Challenges, device : Devices, wallet : Wallets]
    /\ binding \in [Devices -> Wallets \cup {"none"}]
    /\ users \subseteq Devices
    /\ \A s \in sessions : chal[s.chal].status = "gone"
    /\ SessionsAreProven

(* Steps that open no session and bring no challenge back.                  *)
LEMMA SessionsRest ==
    ASSUME SessionInv, UNCHANGED <<sessions, binding>>, users' \subseteq Devices,
           chal' \in [Challenges -> [status : {"absent", "stored", "gone"}, device : Devices \cup {"none"},
                                     age : 0 .. ChallengeTTL]],
           \A c \in Challenges : chal[c].status = "gone" => chal'[c].status = "gone",
           verifier' \in [Verifiers -> {Resting} \cup Verifying]
    PROVE  SessionInv'
<1>1. \A s \in sessions : s.chal \in Challenges /\ chal'[s.chal].status = "gone"
    BY DEF SessionInv
<1> QED BY <1>1 DEF SessionInv, SessionsAreProven

LEMMA VerifyCommitSessions ==
    ASSUME SessionInv, NEW v \in Verifiers, VerifyCommit(v)
    PROVE  SessionInv'
<1> DEFINE c == verifier[v].chal
           d == verifier[v].device
           w == verifier[v].wallet
           n == [by |-> v, chal |-> c, device |-> d, wallet |-> w]
<1>1. verifier[v].pc = "verified"
    BY DEF VerifyCommit
<1>2. c \in Challenges /\ d \in Devices /\ w \in Wallets
    BY <1>1 DEF SessionInv, Resting, Verifying
<1>3. users' \subseteq Devices /\ verifier' \in [Verifiers -> {Resting} \cup Verifying]
    BY <1>2 DEF VerifyCommit, SessionInv
<1>4. CASE UNCHANGED <<sessions, binding, chal>>
    BY <1>3, <1>4, SessionsRest DEF SessionInv
<1>5. CASE /\ StillOpen(v) /\ MayBind(d, w)
           /\ sessions' = sessions \cup {n}
           /\ binding' = [binding EXCEPT ![d] = w]
           /\ chal' = [chal EXCEPT ![c].status = "gone"]
    <2>1. chal[c].status = "stored"
        BY <1>5 DEF StillOpen, Fresh, Present
    <2>2. /\ chal' \in [Challenges -> [status : {"absent", "stored", "gone"}, device : Devices \cup {"none"},
                                       age : 0 .. ChallengeTTL]]
          /\ \A e \in Challenges : chal[e].status = "gone" => chal'[e].status = "gone"
          /\ chal'[c].status = "gone"
        BY <1>2, <1>5 DEF SessionInv
    <2>3. \A s \in sessions : s.chal # c /\ s.chal \in Challenges /\ chal'[s.chal].status = "gone"
        BY <2>1, <2>2 DEF SessionInv
    <2>4. \A s \in sessions : binding'[s.device] = s.wallet
        <3>1. ASSUME NEW s \in sessions PROVE binding'[s.device] = s.wallet
            <4>1. s.device \in Devices /\ s.wallet \in Wallets /\ binding[s.device] = s.wallet
                BY DEF SessionInv, SessionsAreProven
            <4>2. s.device = d => binding[d] = w
                BY <1>5, <4>1, SessionAssumption DEF MayBind
            <4> QED BY <1>2, <1>5, <4>1, <4>2 DEF SessionInv
        <3> QED BY <3>1
    <2>5. n.chal = c /\ n.device = d /\ n.wallet = w
          /\ n \in [by : Verifiers, chal : Challenges, device : Devices, wallet : Wallets]
        BY <1>2
    <2>6. binding'[d] = w /\ binding' \in [Devices -> Wallets \cup {"none"}]
        BY <1>2, <1>5 DEF SessionInv
    <2> HIDE DEF n, c, d, w
    <2>7. \A s \in sessions' : binding'[s.device] = s.wallet /\ chal'[s.chal].status = "gone"
        BY <1>5, <2>2, <2>3, <2>4, <2>5, <2>6
    <2>8. \A s, t \in sessions' : s.chal = t.chal => s = t
        BY <1>5, <2>3, <2>5 DEF SessionInv, SessionsAreProven
    <2>9. sessions' \subseteq [by : Verifiers, chal : Challenges, device : Devices, wallet : Wallets]
        BY <1>5, <2>5 DEF SessionInv
    <2> QED BY <1>3, <2>2, <2>6, <2>7, <2>8, <2>9 DEF SessionInv, SessionsAreProven
<1> QED BY <1>4, <1>5 DEF VerifyCommit

LEMMA SessionStep ==
    ASSUME SessionInv, [SessionNext]_sessionVars
    PROVE  SessionInv'
<1>0. /\ chal \in [Challenges -> [status : {"absent", "stored", "gone"}, device : Devices \cup {"none"},
                                  age : 0 .. ChallengeTTL]]
      /\ verifier \in [Verifiers -> {Resting} \cup Verifying]
      /\ users \subseteq Devices
    BY DEF SessionInv
<1>1. ASSUME NEW c \in Challenges, NEW d \in Devices, Challenge(c, d) PROVE SessionInv'
    <2>1. /\ chal' \in [Challenges -> [status : {"absent", "stored", "gone"}, device : Devices \cup {"none"},
                                       age : 0 .. ChallengeTTL]]
          /\ \A e \in Challenges : chal[e].status = "gone" => chal'[e].status = "gone"
        <3>1. 0 \in 0 .. ChallengeTTL
            BY SessionAssumption
        <3> QED BY <1>0, <1>1, <3>1 DEF Challenge
    <2> QED BY <1>0, <1>1, <2>1, SessionsRest DEF Challenge
<1>2. ASSUME NEW v \in Verifiers, NEW c \in Challenges, NEW d \in Devices, NEW w \in Wallets,
             VerifyAdmit(v, c, d, w)
      PROVE  SessionInv'
    <2>1. verifier' \in [Verifiers -> {Resting} \cup Verifying]
        BY <1>0, <1>2 DEF VerifyAdmit, Verifying
    <2> QED BY <1>0, <1>2, <2>1, SessionsRest DEF VerifyAdmit
<1>3. ASSUME NEW v \in Verifiers, verifier[v].pc \in {"admitted", "loaded", "verified"}
      PROVE  /\ verifier[v] \in Verifying
             /\ [verifier[v] EXCEPT !.pc = "loaded"] \in Verifying
             /\ [verifier[v] EXCEPT !.pc = "verified"] \in Verifying
    BY <1>0, <1>3 DEF Resting, Verifying
<1>4. ASSUME NEW v \in Verifiers, VerifyLoad(v) PROVE SessionInv'
    <2>1. verifier' \in [Verifiers -> {Resting} \cup Verifying]
        BY <1>0, <1>3, <1>4 DEF VerifyLoad
    <2>2. /\ chal' \in [Challenges -> [status : {"absent", "stored", "gone"}, device : Devices \cup {"none"},
                                       age : 0 .. ChallengeTTL]]
          /\ \A e \in Challenges : chal[e].status = "gone" => chal'[e].status = "gone"
        BY <1>0, <1>4, ZenonT(40) DEF VerifyLoad
    <2> QED BY <1>0, <1>4, <2>1, <2>2, SessionsRest DEF VerifyLoad
<1>5. ASSUME NEW v \in Verifiers, CheckSignature(v) PROVE SessionInv'
    <2>1. verifier' \in [Verifiers -> {Resting} \cup Verifying]
        BY <1>0, <1>3, <1>5 DEF CheckSignature
    <2> QED BY <1>0, <1>5, <2>1, SessionsRest DEF CheckSignature
<1>6. CASE SessionTick
    <2>1. /\ chal' \in [Challenges -> [status : {"absent", "stored", "gone"}, device : Devices \cup {"none"},
                                       age : 0 .. ChallengeTTL]]
          /\ \A e \in Challenges : chal[e].status = "gone" => chal'[e].status = "gone"
        <3>1. ASSUME NEW c \in Challenges, Fresh(c)
              PROVE  /\ [chal[c] EXCEPT !.age = @ + 1] \in
                           [status : {"absent", "stored", "gone"}, device : Devices \cup {"none"},
                            age : 0 .. ChallengeTTL]
                     /\ [chal[c] EXCEPT !.age = @ + 1].status = chal[c].status
            BY <1>0, <3>1, SessionAssumption DEF Fresh
        <3>2. chal' = [c \in Challenges |-> IF Fresh(c) THEN [chal[c] EXCEPT !.age = @ + 1] ELSE chal[c]]
            BY <1>6 DEF SessionTick
        <3>3. \A c \in Challenges : chal'[c] \in
                  [status : {"absent", "stored", "gone"}, device : Devices \cup {"none"},
                   age : 0 .. ChallengeTTL]
            BY <1>0, <3>1, <3>2, Zenon
        <3>4. \A c \in Challenges : chal'[c].status = chal[c].status
            BY <3>1, <3>2, Zenon
        <3> QED BY <3>2, <3>3, <3>4
    <2> QED BY <1>0, <1>6, <2>1, SessionsRest DEF SessionTick
<1>7. CASE SessionCrash
    BY <1>0, <1>7, SessionsRest DEF SessionCrash
<1>8. ASSUME NEW v \in Verifiers, VerifyCommit(v) PROVE SessionInv'
    BY <1>8, VerifyCommitSessions
<1>9. CASE UNCHANGED sessionVars
    BY <1>0, <1>9, SessionsRest DEF sessionVars
<1> QED BY <1>1, <1>2, <1>4, <1>5, <1>6, <1>7, <1>8, <1>9 DEF SessionNext

LEMMA SessionInvHolds == SessionSpec => []SessionInv
<1>1. SessionInit => SessionInv
    <2>1. 0 \in 0 .. ChallengeTTL
        BY SessionAssumption
    <2> QED BY <2>1 DEF SessionInit, SessionInv, SessionsAreProven
<1>2. SessionInv /\ [SessionNext]_sessionVars => SessionInv'
    BY SessionStep
<1> QED BY <1>1, <1>2, PTL DEF SessionSpec

(* SessionsAreProven for any number of devices, wallets and verifications:  *)
(* the second read of the challenge, in the transaction that creates the    *)
(* session, uses it up, and MayBind keeps a device with its first wallet.   *)
THEOREM SessionsProven == SessionSpec => []SessionsAreProven
<1>1. SessionInv => SessionsAreProven
    BY DEF SessionInv
<1> QED BY <1>1, SessionInvHolds, PTL

(***************************************************************************)
(* The admission buckets.  What was really issued, per device and age and  *)
(* over all devices per age, is no more than the bucket has counted: a     *)
(* bucket is charged also when the other one refuses.  So the limit on the *)
(* bucket is a limit on what was issued, in every window.                  *)
(***************************************************************************)
Counts == [Stamps -> Nat]

(* What the devices have been issued at one age.                            *)
Column(f, i) == [d \in Devices |-> f[d][i]]

Own(d) == <<"challenge", d>>
Everyone == <<"challenge", "source">>

BucketInv ==
    /\ bucket \in [BucketKeys -> Counts]
    /\ issued \in [Devices -> Counts]
    /\ created \in Counts /\ Total(created) =< UserLimit
    /\ \A d \in Devices : Total(bucket[Own(d)]) =< ChallengeLimit
    /\ Total(bucket[Everyone]) =< SourceLimit
    /\ \A d \in Devices, i \in Stamps : issued[d][i] =< bucket[Own(d)][i]
    /\ \A i \in Stamps : Sum(Column(issued, i), Devices) =< bucket[Everyone][i]

LEMMA StampsFinite == IsFiniteSet(Stamps) /\ 0 \in Stamps /\ Stamps \subseteq Int
<1>1. Span \in Nat \ {0}
    BY SessionAssumption
<1> QED BY <1>1, FS_Interval DEF Stamps

LEMMA TotalType ==
    ASSUME NEW b \in Counts
    PROVE  Total(b) = Sum(b, Stamps) /\ Total(b) \in Nat
<1>1. Total(b) = Sum(b, Stamps)
    BY DEF Total, Sum
<1> QED BY <1>1, StampsFinite, SumType DEF Counts

LEMMA StampCounts ==
    ASSUME NEW b \in Counts
    PROVE  /\ Stamp(b) \in Counts /\ Total(Stamp(b)) = Total(b) + 1
           /\ Stamp(b)[0] = b[0] + 1 /\ \A i \in Stamps \ {0} : Stamp(b)[i] = b[i]
<1>1. /\ Stamp(b) \in Counts
      /\ Stamp(b)[0] = b[0] + 1 /\ \A i \in Stamps \ {0} : Stamp(b)[i] = b[i]
    BY StampsFinite DEF Stamp, Counts
<1>2. Sum([b EXCEPT ![0] = @ + 1], Stamps) = Sum(b, Stamps) + 1
    BY StampsFinite, SumBump DEF Counts
<1>3. Sum(Stamp(b), Stamps) = Sum(b, Stamps) + 1
    BY <1>2 DEF Stamp
<1>4. Total(b) = Sum(b, Stamps) /\ Total(Stamp(b)) = Sum(Stamp(b), Stamps)
    BY <1>1, TotalType
<1> QED BY <1>1, <1>3, <1>4, Zenon

LEMMA AdmitKeeps ==
    ASSUME NEW b \in Counts, NEW limit \in Nat, Total(b) =< limit
    PROVE  /\ Admit(b, limit) \in Counts /\ Total(Admit(b, limit)) =< limit
           /\ \A i \in Stamps : b[i] =< Admit(b, limit)[i]
           /\ Admitted(b, limit) => Admit(b, limit) = Stamp(b)
<1>1. CASE Admitted(b, limit)
    <2>1. Admit(b, limit) = Stamp(b) /\ Total(b) < limit /\ Total(b) \in Nat
        BY <1>1, TotalType DEF Admit, Admitted
    <2>2. Total(Stamp(b)) =< limit
        BY <2>1, StampCounts
    <2>3. \A i \in Stamps : b[i] \in Nat /\ (b[i] =< Stamp(b)[i])
        BY StampCounts DEF Counts
    <2> QED BY <2>1, <2>2, <2>3, StampCounts
<1>2. CASE ~Admitted(b, limit)
    <2>1. Admit(b, limit) = b
        BY <1>2 DEF Admit
    <2>2. \A i \in Stamps : b[i] \in Nat
        BY DEF Counts
    <2> QED BY <1>2, <2>1, <2>2
<1> QED BY <1>1, <1>2

LEMMA ShiftKeeps ==
    ASSUME NEW b \in Counts
    PROVE  /\ Shift(b) \in Counts /\ Total(Shift(b)) =< Total(b)
           /\ Shift(b)[0] = 0 /\ \A i \in Stamps \ {0} : i - 1 \in Stamps /\ Shift(b)[i] = b[i - 1]
<1>1. \A i \in Stamps \ {0} : i - 1 \in Stamps
    BY SessionAssumption DEF Stamps
<1>2. /\ Shift(b) \in Counts
      /\ Shift(b)[0] = 0 /\ \A i \in Stamps \ {0} : i - 1 \in Stamps /\ Shift(b)[i] = b[i - 1]
    BY <1>1, StampsFinite DEF Shift, Counts
<1>3. Sum(Shift(b), Stamps) =< Sum(b, Stamps)
    <2> DEFINE h == [i \in Stamps |-> i - 1]
    <2>1. ASSUME NEW i \in Stamps
          PROVE  Shift(b)[i] = 0 \/ (h[i] \in Stamps /\ Shift(b)[i] =< b[h[i]])
        <3>1. CASE i = 0
            <4>1. Shift(b)[0] = 0
                BY <1>2
            <4> QED BY <3>1, <4>1
        <3>2. CASE i # 0
            <4>1. h[i] \in Stamps /\ Shift(b)[i] = b[h[i]]
                BY <1>2, <3>2
            <4>2. \A j \in Stamps : b[j] \in Nat
                BY DEF Counts
            <4> HIDE DEF h
            <4>3. b[h[i]] \in Nat
                BY <4>1, <4>2
            <4> QED BY <4>1, <4>3
        <3> QED BY <3>1, <3>2
    <2>2. \A i, j \in Stamps : h[i] = h[j] => i = j
        BY StampsFinite
    <2>3. /\ \A i \in Stamps : Shift(b)[i] \in Nat
          /\ \A i \in Stamps : b[i] \in Nat
        BY <1>2 DEF Counts
    <2> HIDE DEF h
    <2> QED BY <2>1, <2>2, <2>3, StampsFinite, SumCarried
<1>4. Total(b) = Sum(b, Stamps) /\ Total(Shift(b)) = Sum(Shift(b), Stamps)
    BY <1>2, TotalType
<1> QED BY <1>2, <1>3, <1>4

LEMMA EmptyCounts == Empty \in Counts /\ Total(Empty) = 0
<1>1. Empty \in Counts /\ \A i \in Stamps : Empty[i] = 0
    BY DEF Empty, Counts
<1>2. Sum(Empty, Stamps) = Cardinality(Stamps) * 0
    BY <1>1, StampsFinite, SumConstant
<1>3. Cardinality(Stamps) * 0 = 0
    BY StampsFinite, FS_CardinalityType
<1>4. Total(Empty) = Sum(Empty, Stamps)
    BY <1>1, TotalType
<1> QED BY <1>1, <1>2, <1>3, <1>4

LEMMA BucketsApart ==
    /\ Everyone \in BucketKeys /\ \A d \in Devices : Own(d) \in BucketKeys /\ Own(d) # Everyone
    /\ \A d, e \in Devices : d # e => Own(d) # Own(e)
    /\ \A x \in Devices \cup {"source"} :
          <<"verify", x>> # Everyone /\ \A e \in Devices : Own(e) # <<"verify", x>>
BY SessionAssumption DEF Everyone, Own, BucketKeys

LEMMA BucketsRest ==
    ASSUME BucketInv, bucket' \in [BucketKeys -> Counts], UNCHANGED <<issued, created>>,
           bucket'[Everyone] = bucket[Everyone],
           \A d \in Devices : bucket'[Own(d)] = bucket[Own(d)]
    PROVE  BucketInv'
<1>1. \A d \in Devices : Total(bucket'[Own(d)]) =< ChallengeLimit
    BY DEF BucketInv
<1>2. Total(bucket'[Everyone]) =< SourceLimit
    BY DEF BucketInv
<1>3. \A d \in Devices, i \in Stamps : issued'[d][i] =< bucket'[Own(d)][i]
    BY DEF BucketInv
<1>4. \A i \in Stamps : Sum(Column(issued', i), Devices) =< bucket'[Everyone][i]
    BY Zenon DEF BucketInv
<1> QED BY <1>1, <1>2, <1>3, <1>4 DEF BucketInv

LEMMA ChallengeBuckets ==
    ASSUME BucketInv, NEW c \in Challenges, NEW d \in Devices, Challenge(c, d)
    PROVE  BucketInv'
<1> DEFINE B == bucket[Everyone]
           b == bucket[Own(d)]
           ok == Admitted(B, SourceLimit) /\ Admitted(b, ChallengeLimit)
<1>0. /\ bucket \in [BucketKeys -> Counts] /\ issued \in [Devices -> Counts]
      /\ B \in Counts /\ b \in Counts /\ Total(B) =< SourceLimit /\ Total(b) =< ChallengeLimit
      /\ SourceLimit \in Nat /\ ChallengeLimit \in Nat
    BY BucketsApart, SessionAssumption DEF BucketInv
<1>1. /\ bucket' = [bucket EXCEPT ![Everyone] = Admit(@, SourceLimit), ![Own(d)] = Admit(@, ChallengeLimit)]
      /\ issued' = IF ok THEN [issued EXCEPT ![d] = Stamp(@)] ELSE issued
      /\ created' = created
    BY DEF Challenge, Everyone, Own
<1>2. /\ Admit(B, SourceLimit) \in Counts /\ Total(Admit(B, SourceLimit)) =< SourceLimit
      /\ \A i \in Stamps : B[i] =< Admit(B, SourceLimit)[i]
      /\ ok => Admit(B, SourceLimit) = Stamp(B)
      /\ Admit(b, ChallengeLimit) \in Counts /\ Total(Admit(b, ChallengeLimit)) =< ChallengeLimit
      /\ \A i \in Stamps : b[i] =< Admit(b, ChallengeLimit)[i]
      /\ ok => Admit(b, ChallengeLimit) = Stamp(b)
    BY <1>0, AdmitKeeps
<1>3. /\ bucket'[Everyone] = Admit(B, SourceLimit)
      /\ bucket'[Own(d)] = Admit(b, ChallengeLimit)
      /\ \A e \in Devices : e # d => bucket'[Own(e)] = bucket[Own(e)]
    BY <1>0, <1>1, BucketsApart
<1>4. bucket' \in [BucketKeys -> Counts]
    BY <1>0, <1>1, <1>2, BucketsApart
<1>5. issued' \in [Devices -> Counts]
    <2>1. Stamp(issued[d]) \in Counts
        BY <1>0, StampCounts
    <2> QED BY <1>0, <1>1, <2>1
<1>6. ASSUME NEW e \in Devices, NEW i \in Stamps
      PROVE  issued'[e][i] =< bucket'[Own(e)][i]
    <2>0. /\ issued[e] \in Counts /\ issued[e][i] \in Nat /\ issued[e][i] =< bucket[Own(e)][i]
          /\ bucket[Own(e)][i] \in Nat /\ bucket'[Own(e)][i] \in Nat
        BY <1>0, <1>4, BucketsApart DEF Counts, BucketInv
    <2>1. CASE e # d
        BY <1>0, <1>1, <1>3, <2>0, <2>1
    <2>2. CASE e = d /\ ~ok
        <3>1. issued'[e] = issued[e] /\ bucket[Own(e)][i] =< bucket'[Own(e)][i]
            BY <1>1, <1>2, <1>3, <2>2
        <3> QED BY <2>0, <3>1
    <2>3. CASE e = d /\ ok
        <3>1. issued'[e] = Stamp(issued[e]) /\ bucket'[Own(e)] = Stamp(bucket[Own(e)])
            BY <1>0, <1>1, <1>2, <1>3, <2>3
        <3>2. bucket[Own(e)] \in Counts
            BY <1>0, <2>3
        <3>3. \/ issued'[e][i] = issued[e][i] + 1 /\ bucket'[Own(e)][i] = bucket[Own(e)][i] + 1
              \/ issued'[e][i] = issued[e][i] /\ bucket'[Own(e)][i] = bucket[Own(e)][i]
            BY <2>0, <3>1, <3>2, StampCounts
        <3> QED BY <2>0, <3>3
    <2> QED BY <2>1, <2>2, <2>3
<1>7. ASSUME NEW i \in Stamps
      PROVE  Sum(Column(issued', i), Devices) =< bucket'[Everyone][i]
    <2>0. /\ Column(issued, i) \in [Devices -> Nat] /\ B[i] \in Nat /\ bucket'[Everyone][i] \in Nat
          /\ B[i] =< bucket'[Everyone][i]
          /\ Sum(Column(issued, i), Devices) =< B[i]
        <3>1. \A e \in Devices : issued[e][i] \in Nat
            BY <1>0 DEF Counts
        <3>2. bucket'[Everyone] \in Counts
            BY <1>4, BucketsApart
        <3> QED BY <1>0, <1>2, <1>3, <3>1, <3>2 DEF Counts, Column, BucketInv
    <2>1. Sum(Column(issued, i), Devices) \in Nat
        <3>1. \A e \in Devices : Column(issued, i)[e] \in Nat
            BY <2>0
        <3> QED BY <3>1, SessionAssumption, SumType
    <2>2. CASE ok /\ i = 0
        <3>1. Column(issued', i) = [Column(issued, i) EXCEPT ![d] = @ + 1]
            <4>1. ASSUME NEW e \in Devices
                  PROVE  issued'[e][i] = IF e = d THEN issued[e][i] + 1 ELSE issued[e][i]
                BY <1>0, <1>1, <2>2, StampCounts
            <4> QED BY <4>1 DEF Column
        <3>2. Sum(Column(issued', i), Devices) = Sum(Column(issued, i), Devices) + 1
            BY <2>0, <3>1, SessionAssumption, SumBump, ZenonT(40)
        <3>3. bucket'[Everyone][i] = B[i] + 1
            BY <1>0, <1>2, <1>3, <2>2, StampCounts
        <3> QED BY <2>0, <2>1, <3>2, <3>3
    <2>3. CASE ~ (ok /\ i = 0)
        <3>1. Column(issued', i) = Column(issued, i)
            <4>1. ASSUME NEW e \in Devices PROVE issued'[e][i] = issued[e][i]
                BY <1>0, <1>1, <2>3, StampCounts
            <4> QED BY <4>1 DEF Column
        <3> QED BY <2>0, <2>1, <3>1
    <2> QED BY <2>2, <2>3
<1>8. \A e \in Devices : Total(bucket'[Own(e)]) =< ChallengeLimit
    BY <1>2, <1>3 DEF BucketInv
<1>9. Total(bucket'[Everyone]) =< SourceLimit
    BY <1>2, <1>3
<1> QED BY <1>1, <1>4, <1>5, <1>6, <1>7, <1>8, <1>9 DEF BucketInv

LEMMA BucketStep ==
    ASSUME BucketInv, [SessionNext]_sessionVars
    PROVE  BucketInv'
<1>0. /\ bucket \in [BucketKeys -> Counts] /\ issued \in [Devices -> Counts]
      /\ created \in Counts /\ Total(created) =< UserLimit /\ UserLimit \in Nat
    BY SessionAssumption DEF BucketInv
<1>1. ASSUME NEW c \in Challenges, NEW d \in Devices, Challenge(c, d) PROVE BucketInv'
    BY <1>1, ChallengeBuckets
<1>2. ASSUME NEW v \in Verifiers, NEW c \in Challenges, NEW d \in Devices, NEW w \in Wallets,
             VerifyAdmit(v, c, d, w)
      PROVE  BucketInv'
    <2> DEFINE own == <<"verify", d>>
               all == <<"verify", "source">>
    <2>1. bucket' = [bucket EXCEPT ![all] = Admit(@, VerifySourceLimit), ![own] = Admit(@, VerifyLimit)]
          /\ UNCHANGED <<issued, created>>
        BY <1>2 DEF VerifyAdmit
    <2>2. own \in BucketKeys /\ all \in BucketKeys /\ own # all
        BY SessionAssumption DEF BucketKeys
    <2>3. \A b \in Counts : \A limit : Admit(b, limit) \in Counts
        BY StampCounts DEF Admit
    <2>4. bucket' \in [BucketKeys -> Counts]
        BY <1>0, <2>1, <2>2, <2>3
    <2>5. bucket'[Everyone] = bucket[Everyone] /\ \A e \in Devices : bucket'[Own(e)] = bucket[Own(e)]
        BY <1>0, <2>1, BucketsApart
    <2> QED BY <2>1, <2>4, <2>5, BucketsRest
<1>3. ASSUME NEW v \in Verifiers, VerifyCommit(v) PROVE BucketInv'
    <2>1. UNCHANGED <<bucket, issued>>
        BY <1>3 DEF VerifyCommit
    <2>2. created' = created \/ (created' = Stamp(created) /\ Total(created) < UserLimit)
        BY <1>3 DEF VerifyCommit, MayRegister
    <2>3. created' \in Counts /\ Total(created') =< UserLimit
        BY <1>0, <2>2, StampCounts, TotalType
    <2> QED BY <2>1, <2>3, Zenon DEF BucketInv
<1>4. CASE SessionTick
    <2>1. /\ bucket' = [k \in BucketKeys |-> Shift(bucket[k])]
          /\ issued' = [d \in Devices |-> Shift(issued[d])]
          /\ created' = Shift(created)
        BY <1>4 DEF SessionTick
    <2>2. created' \in Counts /\ Total(created') =< UserLimit
        BY <1>0, <2>1, ShiftKeeps, TotalType
    <2>3. bucket' \in [BucketKeys -> Counts] /\ issued' \in [Devices -> Counts]
        BY <1>0, <2>1, ShiftKeeps
    <2>4. ASSUME NEW k \in BucketKeys, NEW limit \in Nat, Total(bucket[k]) =< limit
          PROVE  Total(bucket'[k]) =< limit
        <3>1. bucket'[k] = Shift(bucket[k]) /\ bucket[k] \in Counts /\ bucket'[k] \in Counts
            BY <1>0, <2>1, <2>3
        <3>2. Total(bucket'[k]) =< Total(bucket[k]) /\ Total(bucket'[k]) \in Nat /\ Total(bucket[k]) \in Nat
            BY <3>1, ShiftKeeps, TotalType
        <3> QED BY <2>4, <3>2
    <2>5. /\ \A d \in Devices : Total(bucket'[Own(d)]) =< ChallengeLimit
          /\ Total(bucket'[Everyone]) =< SourceLimit
        BY <2>4, BucketsApart, SessionAssumption DEF BucketInv
    <2>6. ASSUME NEW d \in Devices, NEW i \in Stamps
          PROVE  issued'[d][i] =< bucket'[Own(d)][i]
        <3>1. /\ issued'[d] = Shift(issued[d]) /\ bucket'[Own(d)] = Shift(bucket[Own(d)])
              /\ issued[d] \in Counts /\ bucket[Own(d)] \in Counts
            BY <1>0, <2>1, BucketsApart
        <3>2. CASE i = 0
            BY <3>1, <3>2, ShiftKeeps
        <3>3. CASE i # 0
            <4>1. i - 1 \in Stamps /\ issued'[d][i] = issued[d][i - 1] /\ bucket'[Own(d)][i] = bucket[Own(d)][i - 1]
                BY <3>1, <3>3, ShiftKeeps
            <4> QED BY <4>1 DEF BucketInv
        <3> QED BY <3>2, <3>3
    <2>7. ASSUME NEW i \in Stamps
          PROVE  Sum(Column(issued', i), Devices) =< bucket'[Everyone][i]
        <3>1. bucket'[Everyone] = Shift(bucket[Everyone]) /\ bucket[Everyone] \in Counts
            BY <1>0, <2>1, BucketsApart
        <3>2. CASE i = 0
            <4>1. \A d \in Devices : Column(issued', i)[d] = 0
                BY <1>0, <2>1, <3>2, ShiftKeeps DEF Column
            <4>2. Sum(Column(issued', i), Devices) = Cardinality(Devices) * 0
                BY <4>1, SessionAssumption, SumConstant
            <4>3. Cardinality(Devices) * 0 = 0
                BY SessionAssumption, FS_CardinalityType
            <4>4. bucket'[Everyone][i] = 0
                BY <3>1, <3>2, ShiftKeeps
            <4> QED BY <4>2, <4>3, <4>4
        <3>3. CASE i # 0
            <4>1. i - 1 \in Stamps /\ bucket'[Everyone][i] = bucket[Everyone][i - 1]
                BY <3>1, <3>3, ShiftKeeps
            <4>2. ASSUME NEW d \in Devices PROVE issued'[d][i] = issued[d][i - 1]
                BY <1>0, <2>1, <3>3, ShiftKeeps
            <4>3. Column(issued', i) = Column(issued, i - 1)
                BY <4>2 DEF Column
            <4>4. Sum(Column(issued, i - 1), Devices) =< bucket[Everyone][i - 1]
                BY <4>1 DEF BucketInv
            <4> QED BY <4>1, <4>3, <4>4
        <3> QED BY <3>2, <3>3
    <2> QED BY <2>2, <2>3, <2>5, <2>6, <2>7 DEF BucketInv
<1>5. CASE UNCHANGED <<bucket, issued, created>>
    BY <1>0, <1>5, BucketsRest
<1> QED BY <1>1, <1>2, <1>3, <1>4, <1>5
        DEF SessionNext, VerifyLoad, CheckSignature, SessionCrash, sessionVars

LEMMA BucketInit == SessionInit => BucketInv
<1> SUFFICES ASSUME SessionInit PROVE BucketInv
    OBVIOUS
<1>1. /\ bucket = [k \in BucketKeys |-> Empty] /\ issued = [d \in Devices |-> Empty] /\ created = Empty
      /\ Empty \in Counts /\ Total(Empty) = 0 /\ \A i \in Stamps : Empty[i] = 0
    BY EmptyCounts DEF SessionInit, Empty
<1>2. \A i \in Stamps : Sum(Column(issued, i), Devices) = 0
    <2>1. ASSUME NEW i \in Stamps PROVE Sum(Column(issued, i), Devices) = 0
        <3>1. \A d \in Devices : Column(issued, i)[d] = 0
            BY <1>1 DEF Column
        <3>2. Sum(Column(issued, i), Devices) = Cardinality(Devices) * 0
            BY <3>1, SessionAssumption, SumConstant
        <3>3. Cardinality(Devices) * 0 = 0
            BY SessionAssumption, FS_CardinalityType
        <3> QED BY <3>2, <3>3
    <2> QED BY <2>1
<1>3. {ChallengeLimit, SourceLimit, UserLimit} \subseteq Nat
    BY SessionAssumption
<1>4. /\ \A d \in Devices : bucket[Own(d)] = Empty
      /\ bucket[Everyone] = Empty /\ \A d \in Devices : issued[d] = Empty
    BY <1>1, BucketsApart
<1>5. \A i \in Stamps : Sum(Column(issued, i), Devices) =< bucket[Everyone][i]
    BY <1>1, <1>2, <1>4
<1>6. \A d \in Devices, i \in Stamps : issued[d][i] =< bucket[Own(d)][i]
    BY <1>1, <1>4
<1> QED BY <1>1, <1>3, <1>4, <1>5, <1>6 DEF BucketInv

(* AdmissionBucketsHold for any number of devices, any limits and any       *)
(* window: the buckets bound what was really issued and created, to each    *)
(* device and over all of them.                                             *)
THEOREM AdmissionBuckets == SessionSpec => []AdmissionBucketsHold
<1>1. BucketInv => AdmissionBucketsHold
    <2> SUFFICES ASSUME BucketInv PROVE AdmissionBucketsHold
        OBVIOUS
    <2>0. /\ bucket \in [BucketKeys -> Counts] /\ issued \in [Devices -> Counts]
          /\ ChallengeLimit \in Nat /\ SourceLimit \in Nat
        BY SessionAssumption DEF BucketInv
    <2>1. ASSUME NEW d \in Devices PROVE Total(issued[d]) =< ChallengeLimit
        <3>1. issued[d] \in Counts /\ bucket[Own(d)] \in Counts
            BY <2>0, BucketsApart
        <3>2. \A i \in Stamps : issued[d][i] \in Nat /\ (issued[d][i] =< bucket[Own(d)][i]) /\ bucket[Own(d)][i] \in Nat
            BY <3>1 DEF BucketInv, Counts
        <3>3. Sum(issued[d], Stamps) =< Sum(bucket[Own(d)], Stamps)
            BY <3>2, StampsFinite, SumMonotone
        <3>4. Total(bucket[Own(d)]) =< ChallengeLimit
            BY DEF BucketInv
        <3> QED BY <2>0, <3>1, <3>3, <3>4, TotalType
    <2>2. SumFunctionOnSet([d \in Devices |-> Total(issued[d])], Devices) =< SourceLimit
        <3> DEFINE Cols == [i \in Stamps |-> Sum(Column(issued, i), Devices)]
        <3>1. [d \in Devices |-> Total(issued[d])] = [d \in Devices |-> Sum(issued[d], Stamps)]
            BY <2>0, TotalType
        <3>2. \A d \in Devices, i \in Stamps : issued[d][i] \in Nat
            BY <2>0 DEF Counts
        <3>3. Sum([d \in Devices |-> Sum(issued[d], Stamps)], Devices) = Sum(Cols, Stamps)
            <4> DEFINE rows == [d \in Devices |-> Sum(issued[d], Stamps)]
                       columns == [i \in Stamps |-> Column(issued, i)]
            <4>1. \A d \in Devices, i \in Stamps : issued[d][i] \in Nat /\ columns[i][d] = issued[d][i]
                BY <3>2 DEF Column
            <4>2. /\ \A d \in Devices : rows[d] = Sum(issued[d], Stamps)
                  /\ \A i \in Stamps : Cols[i] = Sum(columns[i], Devices)
                OBVIOUS
            <4> HIDE DEF rows, columns, Cols
            <4>3. Sum(rows, Devices) = Sum(Cols, Stamps)
                <5>1. IsFiniteSet(Devices) /\ IsFiniteSet(Stamps)
                    BY SessionAssumption, StampsFinite
                <5>2. Table(issued, columns, rows, Cols, Devices, Stamps)
                    BY <4>1, <4>2 DEF Table
                <5> QED BY <5>1, <5>2, SumExchange
            <4> QED BY <4>3 DEF rows
        <3>4. bucket[Everyone] \in Counts
            BY <2>0, BucketsApart
        <3>5. \A i \in Stamps : Cols[i] \in Nat /\ (Cols[i] =< bucket[Everyone][i]) /\ bucket[Everyone][i] \in Nat
            <4>1. ASSUME NEW i \in Stamps PROVE Sum(Column(issued, i), Devices) \in Nat
                <5>1. \A d \in Devices : Column(issued, i)[d] \in Nat
                    BY <3>2 DEF Column
                <5> QED BY <5>1, SessionAssumption, SumType
            <4> QED BY <3>4, <4>1 DEF BucketInv, Counts
        <3> HIDE DEF Cols
        <3>6. Sum(Cols, Stamps) =< Sum(bucket[Everyone], Stamps)
            BY <3>5, StampsFinite, SumMonotone
        <3>7. Sum(Cols, Stamps) \in Nat
            BY <3>5, StampsFinite, SumType
        <3>8. Total(bucket[Everyone]) =< SourceLimit
            BY DEF BucketInv
        <3>9. Sum([d \in Devices |-> Total(issued[d])], Devices) =< SourceLimit
            BY <2>0, <3>1, <3>3, <3>4, <3>6, <3>7, <3>8, TotalType
        <3> QED BY <3>9 DEF Sum
    <2>3. Total(created) =< UserLimit
        BY DEF BucketInv
    <2> QED BY <2>1, <2>2, <2>3 DEF AdmissionBucketsHold
<1> QED BY <1>1, BucketInit, BucketStep, PTL DEF SessionSpec

(* Type correctness of the sessions and their buckets.                      *)
THEOREM SessionTypes == SessionSpec => []SessionTypeOK
<1>1. SessionInv /\ BucketInv => SessionTypeOK
    BY DEF SessionInv, BucketInv, SessionTypeOK, Counts, Resting, Verifying
<1> QED BY <1>1, SessionInvHolds, BucketInit, BucketStep, PTL DEF SessionSpec
-----------------------------------------------------------------------------
(* GPS readings *)

GpsPoints == [at : Nat, place : Places, net : Networks \cup {"none"}]

(* The readings that still matter, but for one wrong one (NoPoint if none). *)
Trues(b) == ({gps.anchor, gps.pending} \cup {reading[r] : r \in Readings}) \ {NoPoint, b}

InTime(x, y) == x.at =< y.at => Flight[x.place][y.place] =< y.at - x.at
Near(x, y) == x.at =< y.at => Flight[x.place][y.place] = 0

(* True readings are a journey, whose end is the user.  The user does not   *)
(* leave while one waits for its transaction.                               *)
Truthful(b) ==
    /\ \A x \in Trues(b) : x.at =< gpsNow /\ Flight[x.place][user] =< gpsNow - x.at
    /\ \A x, y \in Trues(b) : InTime(x, y)
    /\ \A r \in Readings : reading[r] \notin {NoPoint, b} =>
          /\ Flight[reading[r].place][user] = 0
          /\ \A y \in Trues(b) : Near(reading[r], y)

(* The wrong reading is under way once, or stored, or gone.                 *)
WrongOnce(b) ==
    b # NoPoint =>
        /\ b \in GpsPoints /\ b.at =< gpsNow /\ bad < BadReadings
        /\ b.at = gpsNow => Flight[user][b.place] > 0
        /\ \A q, r \in Readings : reading[q] = b /\ reading[r] = b => q = r
        /\ \A r \in Readings : reading[r] = b => gps.anchor # b /\ gps.count = 0

(* It is counted when it contradicts the anchor, or when it is the anchor   *)
(* and the truth contradicts it, and then either pair ends with it.         *)
CountedOnce(b) ==
    \/ gps.count = 0 /\ gps.pending = NoPoint
    \/ /\ gps.count = 1 /\ b # NoPoint /\ \A r \in Readings : reading[r] # b
       /\ \/ gps.pending \in {NoPoint, b} /\ gps.anchor # b
          \/ gps.pending \notin {NoPoint, b} /\ gps.anchor = b

OneWrong(b) ==
    /\ Truthful(b) /\ WrongOnce(b) /\ CountedOnce(b)
    /\ gps.until = 0 \/ gps.inside

(* The pending point is later than its anchor and from its network, and     *)
(* so is a reading that the anchor has overtaken.                           *)
GpsShape ==
    /\ gpsNow \in Nat /\ user \in Places /\ bad \in 0 .. BadReadings
    /\ reading \in [Readings -> GpsPoints \cup {NoPoint}]
    /\ gps.anchor \in GpsPoints \cup {NoPoint} /\ gps.pending \in GpsPoints \cup {NoPoint}
    /\ gps.count \in 0 .. 2 /\ gps.until \in Nat
    /\ ~gps.first => gps.anchor = NoPoint /\ gps.until = 0
    /\ \A r \in Readings : Known(reading[r]) => reading[r].at =< gpsNow
    /\ Known(gps.anchor) => gps.anchor.at =< gpsNow
    /\ Known(gps.pending) =>
          /\ Known(gps.anchor) /\ gps.anchor.net # "none"
          /\ gps.pending.net = gps.anchor.net /\ gps.pending.at >= gps.anchor.at
    /\ \A r \in Readings :
          Known(reading[r]) /\ Known(gps.anchor) /\ reading[r].at < gps.anchor.at
            => reading[r].net = gps.anchor.net

GpsInv ==
    /\ GpsShape
    /\ bad + 1 >= BadReadings =>
          \E b \in GpsPoints \cup {NoPoint} : OneWrong(b)

LEMMA NoPointIsNone == NoPoint \notin GpsPoints
BY DEF NoPoint, GpsPoints

LEMMA FlightsAreNat ==
    ASSUME GpsAssumption, NEW p \in Places, NEW q \in Places
    PROVE  Flight[p][q] \in Nat /\ Flight[q][p] = Flight[p][q] /\ Flight[p][p] = 0
BY DEF GpsAssumption

(* Who had the time is contradicted by nothing.                             *)
LEMMA NoContradiction ==
    ASSUME GpsAssumption, NEW x \in GpsPoints, NEW y \in GpsPoints,
           (x.at =< y.at /\ InTime(x, y)) \/ (y.at =< x.at /\ Near(y, x))
    PROVE  ~Contradicts(x, y)
<1>1. /\ x.at \in Nat /\ y.at \in Nat /\ x.place \in Places /\ y.place \in Places
    BY DEF GpsPoints
<1>2. Flight[x.place][y.place] \in Nat /\ Flight[y.place][x.place] = Flight[x.place][y.place]
    BY <1>1, FlightsAreNat
<1> DEFINE f == Flight[x.place][y.place]
<1>3. CASE x.at =< y.at /\ InTime(x, y)
    <2>1. f =< y.at - x.at
        BY <1>3 DEF InTime
    <2>2. ~(Later(1, IF y.at < x.at THEN 0 ELSE y.at - x.at) < f)
        <3>1. f \in Nat
            BY <1>2
        <3> HIDE DEF f
        <3> QED BY <1>1, <1>3, <2>1, <3>1 DEF Later
    <2> QED BY <2>2 DEF Contradicts
<1>4. CASE y.at =< x.at /\ Near(y, x)
    <2>1. f = 0
        BY <1>2, <1>4 DEF Near
    <2>2. ~(Later(1, IF y.at < x.at THEN 0 ELSE y.at - x.at) < 0)
        BY <1>1 DEF Later
    <2> QED BY <2>1, <2>2 DEF Contradicts
<1> QED BY <1>3, <1>4

(* What one transaction does to anchor, pending point and count.            *)
First(o) ==
    /\ Known(gps.anchor) /\ o.at >= gps.anchor.at /\ Contradicts(gps.anchor, o)
    /\ gps.anchor.net = o.net /\ o.net # "none" /\ gps.pending = NoPoint
    /\ gps'.anchor = gps.anchor /\ gps'.pending = o
    /\ gps'.count = IF gps.count < 2 THEN gps.count + 1 ELSE gps.count
    /\ gps'.until # gps.until => gps'.count = 2 \/ gps.inside

Pair(o) ==
    /\ Known(gps.anchor) /\ Known(gps.pending) /\ Contradicts(gps.anchor, o)
    /\ o.at >= gps.anchor.at
    /\ gps'.anchor = gps.anchor /\ gps'.pending = gps.pending
    /\ gps'.count = gps.count /\ gps'.until = gps.until

Third(o) ==
    /\ Known(gps.anchor) /\ Known(gps.pending) /\ o.at >= gps.anchor.at
    /\ Contradicts(gps.anchor, o) /\ Contradicts(gps.pending, o)
    /\ gps'.anchor \in {gps.anchor, o} /\ gps'.pending = NoPoint

Back(o) ==
    /\ Known(gps.anchor) /\ o.at >= gps.anchor.at /\ ~Contradicts(gps.anchor, o)
    /\ gps'.anchor = o \/ (gps'.anchor = gps.anchor /\ gps.pending = NoPoint)
    /\ gps'.pending = NoPoint
    /\ gps'.count = gps.count /\ gps'.until = gps.until

Overtaken(o) ==
    /\ Known(gps.anchor) /\ Known(gps.pending) /\ o.at < gps.anchor.at
    /\ gps'.anchor = gps.anchor /\ gps'.pending = gps.pending
    /\ gps'.count = gps.count /\ gps'.until = gps.until

Elsewhere(o) ==
    /\ Known(gps.pending) => o.net # gps.pending.net
    /\ gps'.anchor = gps.anchor \/ (gps'.anchor = o /\ (Known(gps.anchor) => o.at >= gps.anchor.at))
    /\ Known(gps.anchor) /\ gps.anchor.net # o.net /\ o.at >= gps.anchor.at => gps'.anchor = o
    /\ gps'.pending = NoPoint
    /\ gps'.count = gps.count /\ gps'.until = gps.until

LEMMA RecordIs ==
    ASSUME GpsAssumption, GpsShape, NEW r \in Readings, RecordReading(r), NEW o, o = reading[r]
    PROVE  /\ o \in GpsPoints /\ reading' = [reading EXCEPT ![r] = NoPoint]
           /\ UNCHANGED <<gpsNow, user, bad>>
           /\ gps'.first /\ (gps.first => gps'.inside = gps.inside)
           /\ gps'.count \in 0 .. 2 /\ gps'.until \in Nat
           /\ First(o) \/ Pair(o) \/ Third(o) \/ Back(o) \/ Overtaken(o) \/ Elsewhere(o)
<1>1. o \in GpsPoints /\ o # NoPoint /\ o.at \in Nat
    <2>1. o # NoPoint /\ o \in GpsPoints \cup {NoPoint}
        BY DEF RecordReading, GpsShape
    <2> QED BY <2>1 DEF GpsPoints
<1>2. /\ UNCHANGED <<gpsNow, user, bad>> /\ reading' = [reading EXCEPT ![r] = NoPoint]
      /\ gps'.first = TRUE /\ (gps.first => gps'.inside = gps.inside)
      /\ gps'.anchor = IF MovesAnchor(o) THEN o ELSE gps.anchor
      /\ gps'.pending = NextPending(o)
      /\ gps'.count = Counted(o)
      /\ gps'.until = IF Restricts(o) THEN Later(gps.until, o.at + Restriction) ELSE gps.until
    <2>1. PICK inside \in IF gps.first THEN {gps.inside} ELSE BOOLEAN :
             gps' = [first |-> TRUE, inside |-> inside,
                     anchor |-> IF MovesAnchor(o) THEN o ELSE gps.anchor,
                     pending |-> NextPending(o),
                     count |-> Counted(o),
                     until |-> IF Restricts(o) THEN Later(gps.until, o.at + Restriction) ELSE gps.until]
        BY DEF RecordReading
    <2>2. gps.first => inside = gps.inside
        BY <2>1
    <2>3. UNCHANGED <<gpsNow, user, bad>> /\ reading' = [reading EXCEPT ![r] = NoPoint]
        BY DEF RecordReading
    <2> QED BY <2>1, <2>2, <2>3
<1>3. gps.count \in 0 .. 2 /\ gps.until \in Nat /\ Restriction \in Nat
    BY DEF GpsShape, GpsAssumption
<1>4. gps'.count \in 0 .. 2 /\ gps'.until \in Nat
    <2>1. Later(gps.until, o.at + Restriction) \in Nat
        BY <1>1, <1>3 DEF Later
    <2>2. gps'.count = gps.count \/ (gps.count < 2 /\ gps'.count = gps.count + 1)
        BY <1>2 DEF Counted
    <2> QED BY <1>2, <1>3, <2>1, <2>2
<1>5. /\ Known(gps.anchor) => gps.anchor \in GpsPoints /\ gps.anchor.at \in Nat
      /\ Known(gps.pending) => Known(gps.anchor) /\ gps.pending.net = gps.anchor.net
                               /\ gps.anchor.net # "none"
    BY DEF GpsShape, Known, GpsPoints
<1>6. CASE Comparable(o) /\ OffAnchor(o)
    <2>1. Known(gps.anchor) /\ gps.anchor.net = o.net /\ o.net # "none" /\ o.at >= gps.anchor.at
          /\ Contradicts(gps.anchor, o)
        BY <1>6 DEF Comparable, OffAnchor
    <2>2. PendingOf(o) = gps.pending
        BY <1>5, <2>1 DEF PendingOf, Known
    <2>3. CASE ~Known(gps.pending)
        <3>1. ~Continues(o) /\ Contradiction(o) /\ FirstOfPair(o)
            BY <1>6, <2>2, <2>3 DEF Continues, Contradiction, FirstOfPair
        <3>2. ~MovesAnchor(o) /\ NextPending(o) = o
            BY <3>1 DEF MovesAnchor, NextPending
        <3>3. Counted(o) = IF gps.count < 2 THEN gps.count + 1 ELSE gps.count
            BY <3>1 DEF Counted
        <3>4. Restricts(o) => Counted(o) = 2 \/ gps.inside
            BY DEF Restricts
        <3> QED BY <1>1, <1>2, <1>4, <2>1, <2>3, <3>2, <3>3, <3>4 DEF First, Known
    <2>4. CASE Known(gps.pending) /\ ~Contradicts(gps.pending, o)
        <3>1. Continues(o) /\ ~Contradiction(o) /\ ~FirstOfPair(o)
            BY <1>6, <2>2, <2>4 DEF Continues, Contradiction, FirstOfPair
        <3>2. ~MovesAnchor(o) /\ NextPending(o) = gps.pending /\ Counted(o) = gps.count /\ ~Restricts(o)
            BY <2>2, <3>1 DEF MovesAnchor, NextPending, Counted, Restricts
        <3> QED BY <1>1, <1>2, <1>4, <2>1, <2>4, <3>2 DEF Pair
    <2>5. CASE Known(gps.pending) /\ Contradicts(gps.pending, o)
        <3>1. ~Continues(o) /\ ~FirstOfPair(o)
            BY <2>2, <2>5 DEF Continues, FirstOfPair
        <3>2. NextPending(o) = NoPoint
            BY <1>6, <3>1 DEF NextPending
        <3> QED BY <1>1, <1>2, <1>4, <2>1, <2>5, <3>2 DEF Third
    <2> QED BY <2>3, <2>4, <2>5
<1>7. CASE Comparable(o) /\ ~OffAnchor(o)
    <2>1. Known(gps.anchor) /\ o.at >= gps.anchor.at /\ ~Contradicts(gps.anchor, o)
        BY <1>7 DEF Comparable, OffAnchor
    <2>2. ~Continues(o) /\ ~Contradiction(o) /\ ~FirstOfPair(o)
        BY <1>7 DEF Continues, Contradiction, FirstOfPair
    <2>3. NextPending(o) = NoPoint /\ Counted(o) = gps.count /\ ~Restricts(o)
        BY <1>7, <2>2 DEF NextPending, Counted, Restricts
    <2>4. gps.pending # NoPoint => MovesAnchor(o)
        BY <2>1, <2>2, <2>3 DEF MovesAnchor, Refreshes
    <2> QED BY <1>1, <1>2, <1>4, <2>1, <2>3, <2>4 DEF Back
<1>8. CASE ~Comparable(o)
    <2>1. ~OffAnchor(o) /\ ~Continues(o) /\ ~Contradiction(o) /\ ~FirstOfPair(o)
        BY <1>8 DEF OffAnchor, Continues, Contradiction, FirstOfPair
    <2>2. NextPending(o) = PendingOf(o) /\ Counted(o) = gps.count /\ ~Restricts(o)
        BY <1>8, <2>1 DEF NextPending, Counted, Restricts
    <2>3. CASE Known(gps.pending) /\ gps.pending.net = o.net
        <3>1. PendingOf(o) = gps.pending
            BY <2>3 DEF PendingOf
        <3>2. ~(o.at >= gps.anchor.at)
            BY <1>5, <1>8, <2>3 DEF Comparable
        <3>3. ~MovesAnchor(o)
            BY <3>2 DEF MovesAnchor
        <3>4. o.at < gps.anchor.at /\ Known(gps.anchor)
            BY <1>1, <1>5, <2>3, <3>2
        <3> QED BY <1>1, <1>2, <1>4, <2>2, <2>3, <3>1, <3>3, <3>4 DEF Overtaken
    <2>4. CASE ~(Known(gps.pending) /\ gps.pending.net = o.net)
        <3>1. PendingOf(o) = NoPoint
            BY <2>4 DEF PendingOf
        <3>2. MovesAnchor(o) => o.at >= gps.anchor.at
            BY DEF MovesAnchor
        <3>3. gps.anchor.net # o.net /\ o.at >= gps.anchor.at => MovesAnchor(o)
            BY <2>1 DEF MovesAnchor, Refreshes
        <3> QED BY <1>1, <1>2, <1>4, <2>2, <2>4, <3>1, <3>2, <3>3 DEF Elsewhere
    <2> QED BY <2>3, <2>4
<1> QED BY <1>6, <1>7, <1>8

LEMMA RecordKeepsShape ==
    ASSUME GpsAssumption, SwitchInOrder, GpsShape, NEW r \in Readings, RecordReading(r)
    PROVE  GpsShape'
<1> DEFINE o == reading[r]
<1>1. /\ o \in GpsPoints /\ reading' = [reading EXCEPT ![r] = NoPoint]
      /\ UNCHANGED <<gpsNow, user, bad>>
      /\ gps'.first /\ gps'.count \in 0 .. 2 /\ gps'.until \in Nat
      /\ First(o) \/ Pair(o) \/ Third(o) \/ Back(o) \/ Overtaken(o) \/ Elsewhere(o)
    BY RecordIs
<1>2. gps'.anchor \in {gps.anchor, o} /\ gps'.pending \in {gps.pending, o, NoPoint}
    BY <1>1 DEF First, Pair, Third, Back, Overtaken, Elsewhere
<1>3. Known(o) /\ o.at =< gpsNow
    BY <1>1, NoPointIsNone DEF GpsShape, Known
<1>4. \A q \in Readings : Known(reading[q]) /\ reading[q].at < o.at => reading[q].net = o.net
    BY DEF RecordReading
<1>5. /\ reading' \in [Readings -> GpsPoints \cup {NoPoint}]
      /\ \A q \in Readings : Known(reading'[q]) => q # r /\ reading'[q] = reading[q]
    <2>1. reading \in [Readings -> GpsPoints \cup {NoPoint}]
        BY DEF GpsShape
    <2> QED BY <1>1, <2>1 DEF Known
<1>6. gps'.anchor \in GpsPoints \cup {NoPoint} /\ gps'.pending \in GpsPoints \cup {NoPoint}
    BY <1>1, <1>2 DEF GpsShape
<1>7. \A q \in Readings : Known(reading'[q]) => reading'[q].at =< gpsNow'
    BY <1>1, <1>5 DEF GpsShape
<1>8. Known(gps'.anchor) => gps'.anchor.at =< gpsNow'
    BY <1>1, <1>2, <1>3 DEF GpsShape
<1>9. Known(gps'.pending) =>
          /\ Known(gps'.anchor) /\ gps'.anchor.net # "none"
          /\ gps'.pending.net = gps'.anchor.net /\ gps'.pending.at >= gps'.anchor.at
    <2>1. CASE First(o)
        BY <2>1 DEF First, Known
    <2>2. CASE Pair(o) \/ Overtaken(o)
        BY <2>2 DEF Pair, Overtaken, GpsShape, Known
    <2>3. CASE Third(o) \/ Back(o) \/ Elsewhere(o)
        BY <2>3 DEF Third, Back, Elsewhere, Known
    <2> QED BY <1>1, <2>1, <2>2, <2>3
<1>10. \A q \in Readings :
          Known(reading'[q]) /\ Known(gps'.anchor) /\ reading'[q].at < gps'.anchor.at
            => reading'[q].net = gps'.anchor.net
    BY <1>2, <1>4, <1>5 DEF GpsShape
<1> QED BY <1>1, <1>5, <1>6, <1>7, <1>8, <1>9, <1>10 DEF GpsShape, Known

LEMMA TruesArePoints ==
    ASSUME GpsShape, NEW b, NEW x \in Trues(b)
    PROVE  x \in GpsPoints /\ x.at \in Nat /\ x.place \in Places
<1>1. x \in GpsPoints
    BY DEF Trues, GpsShape
<1> QED BY <1>1 DEF GpsPoints

(* A transaction leaves no reading that was not there.                      *)
LEMMA RecordKeepsTrues ==
    ASSUME GpsAssumption, GpsShape, NEW r \in Readings, RecordReading(r), NEW b
    PROVE  /\ Trues(b)' \subseteq Trues(b)
           /\ \A q \in Readings : Known(reading'[q]) => q # r /\ reading'[q] = reading[q]
           /\ Truthful(b) => Truthful(b)'
<1> DEFINE o == reading[r]
<1>1. /\ o \in GpsPoints /\ reading' = [reading EXCEPT ![r] = NoPoint]
      /\ UNCHANGED <<gpsNow, user, bad>>
      /\ First(o) \/ Pair(o) \/ Third(o) \/ Back(o) \/ Overtaken(o) \/ Elsewhere(o)
    BY RecordIs
<1>2. gps'.anchor \in {gps.anchor, o} /\ gps'.pending \in {gps.pending, o, NoPoint}
    BY <1>1 DEF First, Pair, Third, Back, Overtaken, Elsewhere
<1>3. \A q \in Readings : Known(reading'[q]) => q # r /\ reading'[q] = reading[q]
    <2>1. reading \in [Readings -> GpsPoints \cup {NoPoint}]
        BY DEF GpsShape
    <2> QED BY <1>1, <2>1 DEF Known
<1>4. Trues(b)' \subseteq Trues(b)
    BY <1>2, <1>3 DEF Trues, Known
<1>5. ASSUME Truthful(b) PROVE Truthful(b)'
    <2>1. \A x \in Trues(b)' : x.at =< gpsNow' /\ Flight[x.place][user'] =< gpsNow' - x.at
        BY <1>1, <1>4, <1>5 DEF Truthful
    <2>2. \A x, y \in Trues(b)' : InTime(x, y)
        BY <1>4, <1>5 DEF Truthful
    <2>3. \A q \in Readings : reading'[q] \notin {NoPoint, b} =>
              /\ Flight[reading'[q].place][user'] = 0
              /\ \A y \in Trues(b)' : Near(reading'[q], y)
        BY <1>1, <1>3, <1>4, <1>5 DEF Truthful, Known
    <2> QED BY <2>1, <2>2, <2>3 DEF Truthful, InTime, Near
<1> QED BY <1>3, <1>4, <1>5

(* True readings contradict neither the anchor nor the pending point.       *)
LEMMA TruthsAgree ==
    ASSUME GpsAssumption, GpsShape, NEW b, Truthful(b), NEW r \in Readings,
           reading[r] \notin {NoPoint, b}
    PROVE  /\ gps.anchor \notin {NoPoint, b} /\ gps.anchor.at =< reading[r].at
                => ~Contradicts(gps.anchor, reading[r])
           /\ gps.pending \notin {NoPoint, b} => ~Contradicts(gps.pending, reading[r])
<1> DEFINE o == reading[r]
<1>1. o \in GpsPoints /\ o \in Trues(b) /\ o.at \in Nat
    BY DEF GpsShape, Trues, GpsPoints
<1>2. ASSUME gps.anchor \notin {NoPoint, b}, gps.anchor.at =< o.at
      PROVE  ~Contradicts(gps.anchor, o)
    <2>1. gps.anchor \in GpsPoints /\ gps.anchor \in Trues(b)
        BY <1>2 DEF GpsShape, Trues
    <2>2. InTime(gps.anchor, o)
        BY <1>1, <2>1 DEF Truthful
    <2> QED BY <1>1, <1>2, <2>1, <2>2, NoContradiction
<1>3. ASSUME gps.pending \notin {NoPoint, b}
      PROVE  ~Contradicts(gps.pending, o)
    <2>1. gps.pending \in GpsPoints /\ gps.pending \in Trues(b) /\ gps.pending.at \in Nat
        BY <1>3 DEF GpsShape, Trues, GpsPoints
    <2>2. InTime(gps.pending, o) /\ Near(o, gps.pending)
        BY <1>1, <2>1 DEF Truthful
    <2>3. gps.pending.at =< o.at \/ o.at =< gps.pending.at
        BY <1>1, <2>1
    <2> QED BY <1>1, <2>1, <2>2, <2>3, NoContradiction
<1> QED BY <1>2, <1>3

LEMMA RecordKeepsOneWrong ==
    ASSUME GpsAssumption, SwitchInOrder, GpsShape, NEW r \in Readings, RecordReading(r),
           NEW b, OneWrong(b)
    PROVE  OneWrong(b)'
<1> DEFINE o == reading[r]
<1>1. /\ o \in GpsPoints /\ reading' = [reading EXCEPT ![r] = NoPoint]
      /\ UNCHANGED <<gpsNow, user, bad>>
      /\ gps'.first /\ (gps.first => gps'.inside = gps.inside)
      /\ First(o) \/ Pair(o) \/ Third(o) \/ Back(o) \/ Overtaken(o) \/ Elsewhere(o)
    BY RecordIs
<1>2. o # NoPoint /\ o.at \in Nat /\ (Known(gps.anchor) => gps.anchor.at \in Nat)
    BY <1>1, NoPointIsNone DEF GpsPoints, GpsShape, Known
<1>3. Truthful(b)' /\ \A q \in Readings : Known(reading'[q]) => q # r /\ reading'[q] = reading[q]
    BY RecordKeepsTrues DEF OneWrong
<1>4. gps'.anchor \in {gps.anchor, o} /\ gps'.pending \in {gps.pending, o, NoPoint}
    BY <1>1 DEF First, Pair, Third, Back, Overtaken, Elsewhere
<1>5. o # b => /\ gps.anchor # b => ~First(o) /\ ~Pair(o) /\ ~Third(o)
               /\ gps.pending # b => ~Third(o)
    <2>1. Truthful(b)
        BY DEF OneWrong
    <2> QED BY <1>2, <2>1, TruthsAgree DEF First, Pair, Third, Known
<1>6. ~First(o) /\ ~Third(o) => gps'.count = gps.count /\ gps'.until = gps.until
    BY <1>1 DEF Pair, Back, Overtaken, Elsewhere
<1>7. \A q \in Readings : reading'[q] = b /\ b # NoPoint => q # r /\ reading[q] = b /\ o # b
    BY <1>3 DEF Known, OneWrong, WrongOnce
<1>8. CountedOnce(b) /\ WrongOnce(b) /\ (gps.until = 0 \/ gps.inside)
    BY DEF OneWrong
<1>9. WrongOnce(b)'
    <2>1. SUFFICES ASSUME b # NoPoint
                   PROVE  \A q \in Readings : reading'[q] = b => gps'.anchor # b /\ gps'.count = 0
        BY <1>1, <1>7, <1>8 DEF WrongOnce
    <2>2. SUFFICES ASSUME NEW q \in Readings, reading'[q] = b
                   PROVE  gps'.anchor # b /\ gps'.count = 0
        OBVIOUS
    <2>3. q # r /\ reading[q] = b /\ o # b /\ gps.anchor # b /\ gps.count = 0
        BY <1>7, <1>8, <2>1, <2>2 DEF WrongOnce
    <2> QED BY <1>4, <1>5, <1>6, <2>3
<1>10. CountedOnce(b)' /\ (gps'.until = 0 \/ gps'.inside)
    <2>1. gps'.until = gps.until => gps'.until = 0 \/ gps'.inside
        BY <1>1, <1>8 DEF GpsShape
    <2>2. CASE gps.count = 0 /\ gps.pending = NoPoint
        <3>1. ~Pair(o) /\ ~Third(o) /\ ~Overtaken(o)
            BY <2>2 DEF Pair, Third, Overtaken, Known
        <3>2. CASE Back(o) \/ Elsewhere(o)
            BY <2>1, <2>2, <3>2 DEF Back, Elsewhere, CountedOnce
        <3>3. CASE First(o)
            <4>1. gps'.count = 1 /\ gps'.pending = o /\ gps'.anchor = gps.anchor /\ gps.anchor # NoPoint
                BY <2>2, <3>3 DEF First, Known
            <4>2. b # NoPoint /\ (o = b \/ gps.anchor = b) /\ ~(o = b /\ gps.anchor = b)
                BY <1>2, <1>5, <1>8, <3>3, <4>1 DEF WrongOnce
            <4>3. \A q \in Readings : reading'[q] # b
                BY <1>7, <1>8, <4>2 DEF WrongOnce
            <4>4. gps'.until = 0 \/ gps'.inside
                BY <1>1, <1>8, <3>3, <4>1 DEF First, Known, GpsShape
            <4> QED BY <1>2, <4>1, <4>2, <4>3, <4>4 DEF CountedOnce
        <3> QED BY <1>1, <3>1, <3>2, <3>3
    <2>3. CASE /\ gps.count = 1 /\ b # NoPoint /\ \A q \in Readings : reading[q] # b
               /\ gps.pending \in {NoPoint, b} /\ gps.anchor # b
        <3>1. o # b /\ ~First(o) /\ ~Pair(o) /\ ~Third(o) /\ \A q \in Readings : reading'[q] # b
            BY <1>5, <1>7, <2>3
        <3>2. gps'.count = 1 /\ gps'.anchor # b /\ gps'.until = gps.until
            BY <1>4, <1>6, <2>3, <3>1
        <3>3. gps'.pending \in {NoPoint, b}
            BY <1>1, <2>3, <3>1 DEF Back, Overtaken, Elsewhere
        <3> QED BY <2>1, <2>3, <3>1, <3>2, <3>3 DEF CountedOnce
    <2>4. CASE /\ gps.count = 1 /\ b # NoPoint /\ \A q \in Readings : reading[q] # b
               /\ gps.pending \notin {NoPoint, b} /\ gps.anchor = b
        <3>1. o # b /\ ~First(o) /\ ~Third(o) /\ \A q \in Readings : reading'[q] # b
            BY <1>5, <1>7, <2>4 DEF First
        <3>2. gps'.count = 1 /\ gps'.until = gps.until
            BY <1>6, <2>4, <3>1
        <3>3. CASE Pair(o) \/ Overtaken(o)
            BY <2>1, <2>4, <3>1, <3>2, <3>3 DEF Pair, Overtaken, CountedOnce
        <3>4. CASE Back(o)
            BY <2>1, <2>4, <3>1, <3>2, <3>4 DEF Back, CountedOnce
        <3>5. CASE Elsewhere(o)
            <4>1. Known(gps.anchor) /\ Known(gps.pending) /\ gps.pending.net = gps.anchor.net
                BY <2>4 DEF Known, GpsShape
            <4>2. gps.anchor.net # o.net
                BY <3>5, <4>1 DEF Elsewhere
            <4>3. ~(o.at < gps.anchor.at)
                BY <1>2, <4>1, <4>2 DEF GpsShape, Known
            <4>4. gps'.anchor = o /\ gps'.pending = NoPoint
                BY <1>2, <3>5, <4>1, <4>2, <4>3 DEF Elsewhere
            <4> QED BY <2>1, <2>4, <3>1, <3>2, <4>4 DEF CountedOnce
        <3> QED BY <1>1, <3>1, <3>3, <3>4, <3>5
    <2> QED BY <1>8, <2>2, <2>3, <2>4 DEF CountedOnce
<1> QED BY <1>3, <1>9, <1>10 DEF OneWrong

(* A reading of where the user is, or of a place too near to matter.        *)
LEMMA BeginKeepsOneWrong ==
    ASSUME GpsAssumption, GpsShape, NEW r \in Readings, reading[r] = NoPoint,
           NEW o \in GpsPoints, o.at = gpsNow, Flight[user][o.place] = 0,
           reading' = [reading EXCEPT ![r] = o], UNCHANGED <<gpsNow, user, gps>>,
           bad' \in Nat, bad' =< bad, NEW b, OneWrong(b)
    PROVE  OneWrong(b)'
<1>1. /\ gpsNow \in Nat /\ user \in Places /\ o.place \in Places /\ bad \in Nat /\ BadReadings \in Nat
      /\ \A q \in Readings : reading'[q] = IF q = r THEN o ELSE reading[q]
    BY DEF GpsShape, GpsAssumption, GpsPoints
<1>2. Truthful(b) /\ WrongOnce(b) /\ CountedOnce(b) /\ (gps.until = 0 \/ gps.inside)
    BY DEF OneWrong
<1>3. o # b /\ o # NoPoint
    BY <1>1, <1>2, NoPointIsNone DEF WrongOnce
<1>4. \A x \in Trues(b)' : x \in Trues(b) \/ x = o
    BY <1>1 DEF Trues
<1>5. \A x \in Trues(b) : x \in GpsPoints /\ x.at \in Nat /\ x.place \in Places
    BY TruesArePoints
<1>6. \A x \in Trues(b) :
         /\ x.at =< gpsNow /\ Flight[x.place][o.place] \in Nat
         /\ Flight[o.place][x.place] = Flight[x.place][o.place]
         /\ Flight[x.place][o.place] =< gpsNow - x.at
    <2>1. SUFFICES ASSUME NEW x \in Trues(b)
                   PROVE  /\ x.at =< gpsNow /\ Flight[x.place][o.place] \in Nat
                          /\ Flight[o.place][x.place] = Flight[x.place][o.place]
                          /\ Flight[x.place][o.place] =< gpsNow - x.at
        OBVIOUS
    <2> DEFINE f == Flight[x.place][o.place]
               g == Flight[x.place][user]
    <2>2. f \in Nat /\ g \in Nat /\ Flight[o.place][x.place] = f
        BY <1>1, <1>5, FlightsAreNat
    <2>3. f =< g + Flight[user][o.place]
        BY <1>1, <1>5 DEF GpsAssumption
    <2>4. f =< g + 0
        BY <2>3
    <2>5. x.at =< gpsNow /\ g =< gpsNow - x.at /\ x.at \in Nat
        BY <1>2, <1>5 DEF Truthful
    <2>6. f =< gpsNow - x.at
        <3> HIDE DEF f, g
        <3> QED BY <1>1, <2>2, <2>4, <2>5
    <2> QED BY <2>2, <2>5, <2>6
<1>7. Truthful(b)'
    <2>1. \A x \in Trues(b)' : x.at =< gpsNow' /\ Flight[x.place][user'] =< gpsNow' - x.at
        <3>1. Flight[o.place][user] = 0 /\ 0 =< gpsNow - o.at /\ o.at =< gpsNow
            BY <1>1, FlightsAreNat
        <3> QED BY <1>2, <1>4, <3>1 DEF Truthful
    <2>2. \A x \in Trues(b) : InTime(x, o) /\ InTime(o, x) /\ Near(o, x)
        <3>1. SUFFICES ASSUME NEW x \in Trues(b), o.at =< x.at
                       PROVE  Flight[o.place][x.place] = 0 /\ Flight[o.place][x.place] =< x.at - o.at
            BY <1>6 DEF InTime, Near
        <3> DEFINE f == Flight[x.place][o.place]
        <3>2. f \in Nat /\ f =< gpsNow - x.at /\ x.at =< gpsNow /\ Flight[o.place][x.place] = f
            BY <1>6
        <3>3. x.at = gpsNow
            <4> DEFINE s == x.at
            <4>1. s \in Nat /\ gpsNow =< s /\ s =< gpsNow
                BY <1>5, <3>1, <3>2
            <4>2. s = gpsNow
                <5> HIDE DEF s
                <5> QED BY <1>1, <4>1
            <4> QED BY <4>2
        <3>4. f = 0
            <4> HIDE DEF f
            <4> QED BY <1>1, <3>2, <3>3
        <3>5. 0 =< x.at - o.at
            BY <1>1, <3>3
        <3> QED BY <3>2, <3>4, <3>5
    <2>3. InTime(o, o) /\ Near(o, o)
        <3>1. Flight[o.place][o.place] = 0 /\ 0 =< o.at - o.at
            BY <1>1, FlightsAreNat
        <3> QED BY <3>1 DEF InTime, Near
    <2>4. \A x, y \in Trues(b)' : InTime(x, y)
        BY <1>2, <1>4, <2>2, <2>3 DEF Truthful
    <2>5. \A q \in Readings : reading'[q] \notin {NoPoint, b} =>
             /\ Flight[reading'[q].place][user'] = 0
             /\ \A y \in Trues(b)' : Near(reading'[q], y)
        <3>1. SUFFICES ASSUME NEW q \in Readings, reading'[q] \notin {NoPoint, b}
                       PROVE  /\ Flight[reading'[q].place][user] = 0
                              /\ \A y \in Trues(b)' : Near(reading'[q], y)
            OBVIOUS
        <3>2. CASE q = r
            <4>1. reading'[q] = o /\ Flight[o.place][user] = 0
                BY <1>1, <3>2, FlightsAreNat
            <4> QED BY <1>4, <2>2, <2>3, <4>1
        <3>3. CASE q # r
            <4>1. /\ reading'[q] = reading[q] /\ Flight[reading[q].place][user] = 0
                  /\ \A y \in Trues(b) : Near(reading[q], y)
                BY <1>1, <1>2, <3>1, <3>3 DEF Truthful
            <4>2. Near(reading[q], o)
                <5>1. reading[q] \in Trues(b)
                    BY <1>1, <3>1, <3>3 DEF Trues
                <5> DEFINE x == reading[q]
                           f == Flight[x.place][o.place]
                <5>2. x.place \in Places /\ Flight[x.place][user] = 0
                    BY <1>5, <4>1, <5>1
                <5>3. f \in Nat /\ f =< Flight[x.place][user] + Flight[user][o.place]
                    BY <1>1, <5>2 DEF GpsAssumption
                <5>4. f =< 0 + 0
                    BY <5>2, <5>3
                <5>5. f = 0
                    <6>1. f \in Nat
                        BY <5>3
                    <6> HIDE DEF f
                    <6> QED BY <5>4, <6>1
                <5> QED BY <5>5 DEF Near
            <4> QED BY <1>4, <4>1, <4>2
        <3> QED BY <3>2, <3>3
    <2> QED BY <2>1, <2>4, <2>5 DEF Truthful, InTime, Near
<1>8. WrongOnce(b)'
    <2>1. \A q \in Readings : reading'[q] = b => reading[q] = b /\ q # r
        BY <1>1, <1>3
    <2> QED BY <1>1, <1>2, <2>1 DEF WrongOnce
<1>9. CountedOnce(b)'
    BY <1>1, <1>2, <1>3 DEF CountedOnce
<1> QED BY <1>2, <1>7, <1>8, <1>9 DEF OneWrong

(* The first wrong reading, of another place than the user's.               *)
LEMMA BeginsOneWrong ==
    ASSUME GpsAssumption, GpsShape, NEW r \in Readings, reading[r] = NoPoint,
           NEW o \in GpsPoints, o.at = gpsNow, Flight[user][o.place] # 0,
           reading' = [reading EXCEPT ![r] = o], UNCHANGED <<gpsNow, user, gps>>,
           bad' < BadReadings, OneWrong(NoPoint)
    PROVE  OneWrong(o)'
<1>1. /\ gpsNow \in Nat /\ user \in Places /\ o.place \in Places
      /\ \A q \in Readings : reading'[q] = IF q = r THEN o ELSE reading[q]
    BY DEF GpsShape, GpsPoints
<1>2. Truthful(NoPoint) /\ gps.count = 0 /\ gps.pending = NoPoint /\ (gps.until = 0 \/ gps.inside)
    BY DEF OneWrong, CountedOnce
<1>3. Trues(o)' \subseteq Trues(NoPoint)
    BY <1>1 DEF Trues
<1>4. Flight[user][o.place] \in Nat /\ Flight[user][o.place] > 0 /\ Flight[o.place][user] # 0
    <2>1. Flight[user][o.place] \in Nat /\ Flight[o.place][user] = Flight[user][o.place]
        BY <1>1, FlightsAreNat
    <2> QED BY <2>1
<1>5. \A x \in Trues(NoPoint) : x.at = gpsNow => x # o
    <2>1. SUFFICES ASSUME o \in Trues(NoPoint) PROVE FALSE
        OBVIOUS
    <2> DEFINE f == Flight[o.place][user]
    <2>2. f =< gpsNow - o.at /\ f \in Nat
        BY <1>1, <1>2, <2>1, FlightsAreNat DEF Truthful
    <2>3. f = 0
        <3> HIDE DEF f
        <3> QED BY <1>1, <2>2
    <2> QED BY <1>4, <2>3
<1>6. Truthful(o)'
    <2>1. \A x \in Trues(o)' : x.at =< gpsNow' /\ Flight[x.place][user'] =< gpsNow' - x.at
        BY <1>2, <1>3 DEF Truthful
    <2>2. \A x, y \in Trues(o)' : InTime(x, y)
        BY <1>2, <1>3 DEF Truthful
    <2>3. \A q \in Readings : reading'[q] \notin {NoPoint, o} =>
             /\ Flight[reading'[q].place][user'] = 0
             /\ \A y \in Trues(o)' : Near(reading'[q], y)
        BY <1>1, <1>2, <1>3 DEF Truthful
    <2> QED BY <2>1, <2>2, <2>3 DEF Truthful, InTime, Near
<1>7. WrongOnce(o)'
    <2>1. \A q \in Readings : reading'[q] = o => q = r
        <3>1. SUFFICES ASSUME NEW q \in Readings, q # r, reading[q] = o PROVE FALSE
            BY <1>1
        <3>2. o \in Trues(NoPoint)
            BY <3>1, NoPointIsNone DEF Trues
        <3> QED BY <1>5, <3>2
    <2>2. gps.anchor # o
        BY <1>5, NoPointIsNone DEF Trues
    <2> QED BY <1>1, <1>2, <1>4, <2>1, <2>2 DEF WrongOnce
<1> QED BY <1>2, <1>6, <1>7 DEF OneWrong, CountedOnce

(* Time passes, with the user under way or not: at gpsNow' the user is at p.*)
LEMMA TimeKeepsOneWrong ==
    ASSUME GpsAssumption, GpsShape, NEW p \in Places, user' = p, NEW d \in Nat, gpsNow' = gpsNow + d,
           Flight[user][p] =< d, UNCHANGED <<bad, reading, gps>>,
           Flight[user][p] > 0 => \A r \in Readings : reading[r] = NoPoint,
           NEW b, OneWrong(b)
    PROVE  OneWrong(b)'
<1>1. gpsNow \in Nat /\ user \in Places /\ Flight[user][p] \in Nat
    BY FlightsAreNat DEF GpsShape
<1>2. Truthful(b) /\ WrongOnce(b) /\ CountedOnce(b) /\ (gps.until = 0 \/ gps.inside)
    BY DEF OneWrong
<1>3. Trues(b)' = Trues(b)
    BY DEF Trues
<1>4. \A x \in Trues(b) : x \in GpsPoints /\ x.at \in Nat /\ x.place \in Places
    BY TruesArePoints
<1>5. Truthful(b)'
    <2>1. \A x \in Trues(b) : x.at =< gpsNow' /\ Flight[x.place][p] =< gpsNow' - x.at
        <3>1. SUFFICES ASSUME NEW x \in Trues(b)
                       PROVE  x.at =< gpsNow + d /\ Flight[x.place][p] =< (gpsNow + d) - x.at
            OBVIOUS
        <3> DEFINE f == Flight[x.place][p]
                   g == Flight[x.place][user]
                   h == Flight[user][p]
                   s == x.at
        <3>2. f \in Nat /\ g \in Nat /\ h \in Nat /\ h =< d /\ f =< g + h
            BY <1>1, <1>4 DEF GpsAssumption
        <3>3. s \in Nat /\ s =< gpsNow /\ g =< gpsNow - s
            BY <1>2, <1>4 DEF Truthful
        <3>4. s =< gpsNow + d /\ f =< (gpsNow + d) - s
            <4>1. h \in Nat /\ h =< d
                BY <1>1
            <4>2. f \in Nat /\ g \in Nat /\ f =< g + h
                BY <3>2
            <4>3. \A t, w, x1, y1, z1, u \in Nat :
                     u =< t /\ y1 =< t - u /\ z1 =< w /\ x1 =< y1 + z1
                       => u =< t + w /\ x1 =< (t + w) - u
                OBVIOUS
            <4>4. gpsNow \in Nat
                BY <1>1
            <4> HIDE DEF f, g, h, s
            <4> QED BY <3>3, <4>1, <4>2, <4>3, <4>4
        <3> QED BY <3>4
    <2>2. \A x, y \in Trues(b) : InTime(x, y)
        BY <1>2 DEF Truthful
    <2>3. \A r \in Readings : reading[r] \notin {NoPoint, b} =>
             /\ Flight[reading[r].place][p] = 0
             /\ \A y \in Trues(b) : Near(reading[r], y)
        <3>1. SUFFICES ASSUME NEW r \in Readings, reading[r] \notin {NoPoint, b}
                       PROVE  Flight[reading[r].place][p] = 0
            BY <1>2 DEF Truthful
        <3>2. reading[r] \in Trues(b) /\ Flight[reading[r].place][user] = 0
            BY <1>2, <3>1 DEF Truthful, Trues
        <3> DEFINE f == Flight[reading[r].place][p]
        <3>3. f \in Nat /\ f =< Flight[reading[r].place][user] + Flight[user][p]
            BY <1>1, <1>4, <3>2 DEF GpsAssumption
        <3>4. Flight[user][p] = 0
            BY <1>1, <3>1
        <3>5. f =< 0 + 0
            BY <3>2, <3>3, <3>4
        <3>6. f = 0
            <4>1. f \in Nat
                BY <3>3
            <4> HIDE DEF f
            <4> QED BY <3>5, <4>1
        <3> QED BY <3>6
    <2> QED BY <1>3, <2>1, <2>2, <2>3 DEF Truthful, InTime, Near
<1>6. WrongOnce(b)'
    <2>1. SUFFICES ASSUME b # NoPoint
                   PROVE  b.at =< gpsNow' /\ (b.at = gpsNow' => Flight[p][b.place] > 0)
        BY <1>2 DEF WrongOnce
    <2>2. b.at \in Nat /\ b.place \in Places /\ b.at =< gpsNow /\ (b.at = gpsNow => Flight[user][b.place] > 0)
        BY <1>2, <2>1 DEF WrongOnce, GpsPoints
    <2>3. ASSUME b.at = gpsNow' PROVE Flight[p][b.place] > 0
        <3> DEFINE f == Flight[p][b.place]
                   g == Flight[user][b.place]
        <3>1. d = 0 /\ b.at = gpsNow
            BY <1>1, <2>2, <2>3
        <3>2. Flight[user][p] = 0
            BY <1>1, <3>1
        <3>3. f \in Nat /\ g \in Nat /\ g > 0 /\ g =< Flight[user][p] + f
            BY <1>1, <2>2, <3>1 DEF GpsAssumption
        <3>4. g =< 0 + f
            BY <3>2, <3>3
        <3>5. f > 0
            <4> HIDE DEF f, g
            <4> QED BY <3>3, <3>4
        <3> QED BY <3>5
    <2> QED BY <1>1, <2>2, <2>3
<1> QED BY <1>2, <1>5, <1>6 DEF OneWrong, CountedOnce

(* Typing, and what links anchor, pending point and the readings under way. *)
LEMMA BeginKeepsShape ==
    ASSUME GpsAssumption, GpsShape, NEW r \in Readings, NEW o \in GpsPoints, o.at = gpsNow,
           reading' = [reading EXCEPT ![r] = o], UNCHANGED <<gpsNow, user, gps>>,
           bad' \in 0 .. BadReadings
    PROVE  GpsShape'
<1>1. /\ reading' \in [Readings -> GpsPoints \cup {NoPoint}] /\ gpsNow \in Nat
      /\ \A q \in Readings : reading'[q] = IF q = r THEN o ELSE reading[q]
    BY DEF GpsShape
<1>2. \A q \in Readings : Known(reading'[q]) => reading'[q].at =< gpsNow
    BY <1>1 DEF GpsShape
<1>3. Known(gps.anchor) => ~(gpsNow < gps.anchor.at)
    <2>1. Known(gps.anchor) => gps.anchor.at \in Nat /\ gps.anchor.at =< gpsNow
        BY DEF GpsShape, GpsPoints, Known
    <2> QED BY <1>1, <2>1
<1>4. \A q \in Readings :
         Known(reading'[q]) /\ Known(gps.anchor) /\ reading'[q].at < gps.anchor.at
            => reading'[q].net = gps.anchor.net
    BY <1>1, <1>3 DEF GpsShape
<1> QED BY <1>1, <1>2, <1>4 DEF GpsShape, Known

LEMMA TimeKeepsShape ==
    ASSUME GpsShape, user' \in Places, NEW d \in Nat, gpsNow' = gpsNow + d, UNCHANGED <<bad, reading, gps>>
    PROVE  GpsShape'
<1>1. gpsNow \in Nat /\ gpsNow' \in Nat
    BY DEF GpsShape
<1>2. \A r \in Readings : Known(reading[r]) => reading[r].at =< gpsNow'
    <2>1. \A r \in Readings : Known(reading[r]) => reading[r].at \in Nat /\ reading[r].at =< gpsNow
        BY DEF GpsShape, GpsPoints, Known
    <2> QED BY <1>1, <2>1
<1>3. Known(gps.anchor) => gps.anchor.at =< gpsNow'
    <2>1. Known(gps.anchor) => gps.anchor.at \in Nat /\ gps.anchor.at =< gpsNow
        BY DEF GpsShape, GpsPoints, Known
    <2> QED BY <1>1, <2>1
<1> QED BY <1>1, <1>2, <1>3 DEF GpsShape, Known

LEMMA GpsInvInit == ASSUME GpsAssumption, GpsInit PROVE GpsInv
<1>1. /\ gpsNow = 1 /\ user \in Places /\ bad = BadReadings /\ BadReadings \in Nat
      /\ gps.anchor = NoPoint /\ gps.pending = NoPoint /\ gps.count = 0 /\ gps.until = 0
      /\ reading = [r \in Readings |-> NoPoint]
    BY DEF GpsInit, NoGps, GpsAssumption
<1>2. GpsShape
    BY <1>1 DEF GpsShape, Known
<1>3. OneWrong(NoPoint)
    <2>1. Trues(NoPoint) = {}
        BY <1>1 DEF Trues
    <2> QED BY <1>1, <2>1 DEF OneWrong, Truthful, WrongOnce, CountedOnce
<1> QED BY <1>2, <1>3 DEF GpsInv

LEMMA GpsInvStep ==
    ASSUME GpsAssumption, SwitchInOrder, GpsInv, [GpsNext]_gpsVars
    PROVE  GpsInv'
<1>1. /\ GpsShape /\ bad \in Nat /\ BadReadings \in Nat /\ bad =< BadReadings
      /\ gpsNow \in Nat /\ user \in Places
      /\ bad + 1 >= BadReadings => \E b \in GpsPoints \cup {NoPoint} : OneWrong(b)
    BY DEF GpsInv, GpsShape, GpsAssumption
<1>2. CASE UNCHANGED gpsVars
    <2>1. /\ UNCHANGED <<gpsNow, user, bad, reading, gps>> /\ \A b : Trues(b)' = Trues(b)
        BY <1>2 DEF gpsVars, Trues
    <2>2. GpsShape'
        BY <1>1, <2>1 DEF GpsShape
    <2>3. \A b : OneWrong(b) => OneWrong(b)'
        BY <2>1 DEF OneWrong, Truthful, WrongOnce, CountedOnce
    <2> QED BY <1>1, <2>1, <2>2, <2>3 DEF GpsInv
<1>3. ASSUME NEW r \in Readings, NEW p \in Places, NEW net \in Networks \cup {"none"},
             BeginReading(r, p, net)
      PROVE  GpsInv'
    <2>0. PICK o \in GpsPoints : o = [at |-> gpsNow, place |-> p, net |-> net]
        BY <1>1 DEF GpsPoints
    <2>1. /\ reading[r] = NoPoint /\ reading' = [reading EXCEPT ![r] = o]
          /\ UNCHANGED <<gpsNow, user, gps>>
          /\ (p = user /\ bad' = bad) \/ (bad > 0 /\ bad' = bad - 1)
        BY <1>3, <2>0 DEF BeginReading
    <2>2. o.at = gpsNow /\ o.place = p
        BY <2>0
    <2>3. bad' \in Nat /\ bad' =< bad /\ bad' \in 0 .. BadReadings
        BY <1>1, <2>1
    <2>4. GpsShape'
        BY <1>1, <2>1, <2>2, <2>3, BeginKeepsShape
    <2>5. ASSUME bad' + 1 >= BadReadings PROVE \E b \in GpsPoints \cup {NoPoint} : OneWrong(b)'
        <3>0. bad + 1 >= BadReadings
            <4>1. \A k, m, n \in Nat : k =< m /\ k + 1 >= n => m + 1 >= n
                OBVIOUS
            <4>2. bad' \in Nat /\ bad \in Nat /\ BadReadings \in Nat
                BY <1>1, <2>3
            <4> QED BY <2>3, <2>5, <4>1, <4>2
        <3>1. PICK b \in GpsPoints \cup {NoPoint} : OneWrong(b)
            BY <1>1, <3>0
        <3>2. CASE Flight[user][p] = 0
            <4>1. OneWrong(b)'
                BY <1>1, <2>1, <2>2, <2>3, <3>1, <3>2, BeginKeepsOneWrong
            <4> QED BY <4>1
        <3>3. CASE Flight[user][p] # 0
            <4>1. bad > 0 /\ bad' = bad - 1
                BY <1>1, <2>1, <3>3, FlightsAreNat
            <4>2. ~(bad < BadReadings) /\ bad' < BadReadings
                BY <1>1, <2>5, <4>1
            <4>3. b = NoPoint
                BY <3>1, <4>2 DEF OneWrong, WrongOnce
            <4>4. OneWrong(o)'
                BY <1>1, <2>1, <2>2, <3>1, <3>3, <4>2, <4>3, BeginsOneWrong
            <4> QED BY <4>4
        <3> QED BY <3>2, <3>3
    <2> QED BY <2>4, <2>5 DEF GpsInv
<1>4. ASSUME NEW r \in Readings, RecordReading(r)
      PROVE  GpsInv'
    <2>1. GpsShape' /\ bad' = bad
        BY <1>1, <1>4, RecordKeepsShape, RecordIs
    <2>2. \A b \in GpsPoints \cup {NoPoint} : OneWrong(b) => OneWrong(b)'
        BY <1>1, <1>4, RecordKeepsOneWrong
    <2> QED BY <1>1, <2>1, <2>2 DEF GpsInv
<1>5. ASSUME NEW p \in Places, NEW d \in Nat, user' = p, gpsNow' = gpsNow + d,
             UNCHANGED <<bad, reading, gps>>, Flight[user][p] =< d,
             Flight[user][p] > 0 => \A r \in Readings : reading[r] = NoPoint
      PROVE  GpsInv'
    <2>1. GpsShape'
        BY <1>1, <1>5, TimeKeepsShape
    <2>2. \A b \in GpsPoints \cup {NoPoint} : OneWrong(b) => OneWrong(b)'
        BY <1>1, <1>5, TimeKeepsOneWrong
    <2> QED BY <1>1, <1>5, <2>1, <2>2 DEF GpsInv
<1>6. CASE GpsWait
    <2>1. user' = user /\ gpsNow' = gpsNow + 1 /\ UNCHANGED <<bad, reading, gps>>
        BY <1>6 DEF GpsWait
    <2>2. Flight[user][user] =< 1 /\ ~(Flight[user][user] > 0)
        BY <1>1, FlightsAreNat
    <2> QED BY <1>1, <1>5, <2>1, <2>2
<1>7. ASSUME NEW p \in Places, Go(p) PROVE GpsInv'
    <2> DEFINE d == Flight[user][p]
    <2>1. d \in Nat /\ d =< d
        BY <1>1, FlightsAreNat
    <2>2. /\ user' = p /\ gpsNow' = gpsNow + d /\ UNCHANGED <<bad, reading, gps>>
          /\ d > 0 => \A r \in Readings : reading[r] = NoPoint
        BY <1>7 DEF Go
    <2> QED BY <1>5, <2>1, <2>2
<1> QED BY <1>2, <1>3, <1>4, <1>6, <1>7 DEF GpsNext

(* For any places, networks, number of readings at once and length of       *)
(* restriction: true readings of one user never contradict each other, in   *)
(* whatever order record_gps_observation stores them, and one wrong reading *)
(* is counted once at most and restricts only somebody first seen inside a  *)
(* stranger's reward.                                                       *)
THEOREM OneReadingForgiven ==
    ASSUME GpsAssumption, SwitchInOrder
    PROVE  GpsSpec => []OneBadReadingForgiven
<1>1. GpsInit => GpsInv
    BY GpsInvInit
<1>2. GpsInv /\ [GpsNext]_gpsVars => GpsInv'
    BY GpsInvStep
<1>3. GpsInv => OneBadReadingForgiven
    <2>1. SUFFICES ASSUME GpsInv PROVE OneBadReadingForgiven
        OBVIOUS
    <2>2. BadReadings \in Nat /\ bad \in Nat
        BY <2>1 DEF GpsInv, GpsShape, GpsAssumption
    <2>3. SUFFICES ASSUME bad + 1 >= BadReadings
                   PROVE  /\ bad = BadReadings => gps.count = 0
                          /\ gps.count =< 1 /\ (gps.until = 0 \/ gps.inside)
        BY <2>2 DEF OneBadReadingForgiven
    <2>4. PICK b \in GpsPoints \cup {NoPoint} : OneWrong(b)
        BY <2>1, <2>3 DEF GpsInv
    <2>5. bad = BadReadings => b = NoPoint
        BY <2>2, <2>4 DEF OneWrong, WrongOnce
    <2> QED BY <2>4, <2>5 DEF OneWrong, CountedOnce
<1> QED BY <1>1, <1>2, <1>3, PTL DEF GpsSpec
-----------------------------------------------------------------------------
(* Funding clusters *)

Members == [signer : Signers, at : Nat]
SourceRecord == [members : SUBSET Members, saturated : BOOLEAN, uncertain : BOOLEAN, evidence : BOOLEAN]

(* What the record c of a source may say when the signers of F are funded   *)
(* by it.                                                                   *)
Grounded(c, F) ==
    ~c.uncertain =>
        /\ c.members \subseteq F
        /\ ~c.saturated => c.members = F
        /\ c.evidence => \E group \in SUBSET F : Tight(group)

(* Only an observed origin names a source, and every record is grounded.    *)
ClusterInv ==
    /\ origin \in [Signers -> [result : {"absent", "provider_failure", "observed"},
                               transfer : Transfers, checked : Nat, refresh : Nat]]
    /\ source \in [Sources -> SourceRecord]
    /\ clusterNow \in Nat
    /\ observer \in [Observers -> {Idle} \cup [signer : Signers, at : Nat]]
    /\ \A s \in Signers : origin[s].result # "observed" => origin[s].transfer = Nowhere
    /\ \A w \in Sources : Grounded(source[w], Funded(w))

(* The bookkeeping of one source when its signer s comes, changes or goes.  *)
(* F and G are the signers funded by it before and after.                   *)
LEMMA AddIsGrounded ==
    ASSUME NEW c \in SourceRecord, NEW F \in SUBSET Members, NEW m \in Members, NEW corrects \in BOOLEAN,
           NEW G \in SUBSET Members, G = {n \in F : n.signer # m.signer} \cup {m},
           \A n \in F : n.signer = m.signer => n = m \/ corrects,
           \A n, k \in F : n.signer = k.signer => n = k,
           Grounded(c, F)
    PROVE  AddMember(c, m, corrects) \in SourceRecord /\ Grounded(AddMember(c, m, corrects), G)
<1> DEFINE old == {n \in c.members : n.signer = m.signer}
<1>1. c.members \in SUBSET Members /\ {c.saturated, c.uncertain, c.evidence} \subseteq BOOLEAN
    BY DEF SourceRecord
<1>2. CASE c.uncertain
    BY <1>2 DEF AddMember, Grounded
<1>3. CASE ~c.uncertain /\ old = {m}
    <2>1. m \in F
        BY <1>3 DEF Grounded
    <2>2. G = F
        BY <2>1
    <2> QED BY <1>3, <2>2 DEF AddMember
<1>4. CASE ~c.uncertain /\ old # {m} /\ c.saturated /\ (old # {} \/ corrects)
    <2>1. AddMember(c, m, corrects) = Doubtful(c)
        BY <1>4 DEF AddMember
    <2>2. Doubtful(c) \in SourceRecord /\ Doubtful(c).uncertain
        BY <1>1 DEF Doubtful, SourceRecord
    <2> QED BY <2>1, <2>2 DEF Grounded
<1>5. CASE ~c.uncertain /\ old # {m} /\ ~c.saturated /\ old # {}
    <2> DEFINE members == (c.members \ old) \cup {m}
               d == Recomputed(c, members)
    <2>1. AddMember(c, m, corrects) = d
        BY <1>5 DEF AddMember
    <2>2. c.members = F
        BY <1>5 DEF Grounded
    <2>3. members = G
        BY <2>2
    <2>4. members \in SUBSET Members /\ Tight(members) \in BOOLEAN
        BY <2>3 DEF Tight
    <2>5. d \in SourceRecord /\ d.members = members /\ d.saturated = c.saturated
          /\ d.uncertain = c.uncertain /\ d.evidence = Tight(members)
        <3> HIDE DEF members
        <3> QED BY <1>1, <2>4 DEF Recomputed, SourceRecord
    <2> HIDE DEF d, members
    <2> QED BY <2>1, <2>3, <2>5 DEF Grounded
<1>6. CASE ~c.uncertain /\ old = {} /\ ~(c.saturated /\ corrects)
    <2> DEFINE full == Cardinality(c.members) >= MemberLimit
               members == IF full THEN c.members ELSE c.members \cup {m}
               d == Joined(c, m)
    <2>1. AddMember(c, m, corrects) = d
        BY <1>6 DEF AddMember
    <2>2. members \in SUBSET Members /\ Tight(members) \in BOOLEAN /\ full \in BOOLEAN
        BY <1>1 DEF Tight
    <2>3. d = [c EXCEPT !.members = members, !.saturated = @ \/ full, !.evidence = @ \/ Tight(members)]
        BY DEF Joined
    <2>4. d \in SourceRecord /\ d.members = members /\ d.saturated = (c.saturated \/ full)
          /\ d.uncertain = c.uncertain /\ d.evidence = (c.evidence \/ Tight(members))
        <3> HIDE DEF members, full, d
        <3> QED BY <1>1, <2>2, <2>3 DEF SourceRecord
    <2>5. F \subseteq G /\ m \in G
        <3>1. \A n \in F : n.signer = m.signer => n = m
            BY <1>6 DEF Grounded
        <3> QED BY <3>1
    <2>6. members \subseteq G
        BY <1>6, <2>5 DEF Grounded
    <2>7. ASSUME ~d.saturated PROVE members = G
        <3>1. ~c.saturated /\ ~full
            BY <2>2, <2>4, <2>7
        <3>2. c.members = F /\ members = F \cup {m}
            BY <1>6, <3>1 DEF Grounded
        <3>3. F \cup {m} = G
            BY <1>6, <2>5, <3>2
        <3> QED BY <3>2, <3>3
    <2>8. d.evidence => \E group \in SUBSET G : Tight(group)
        BY <1>6, <2>4, <2>5, <2>6 DEF Grounded
    <2> HIDE DEF d, members, full
    <2> QED BY <2>1, <2>4, <2>6, <2>7, <2>8 DEF Grounded
<1> QED BY <1>2, <1>3, <1>4, <1>5, <1>6

LEMMA RemoveIsGrounded ==
    ASSUME NEW c \in SourceRecord, NEW F \in SUBSET Members, NEW m \in F,
           NEW G \in SUBSET Members, G = {n \in F : n.signer # m.signer},
           Grounded(c, F)
    PROVE  RemoveMember(c, m.signer) \in SourceRecord /\ Grounded(RemoveMember(c, m.signer), G)
<1> DEFINE s == m.signer
<1>1. c.members \in SUBSET Members /\ {c.saturated, c.uncertain, c.evidence} \subseteq BOOLEAN
    BY DEF SourceRecord
<1>2. CASE c.saturated
    <2>1. RemoveMember(c, s) = Doubtful(c)
        BY <1>2 DEF RemoveMember
    <2>2. Doubtful(c) \in SourceRecord /\ Doubtful(c).uncertain
        BY <1>1 DEF Doubtful, SourceRecord
    <2> QED BY <2>1, <2>2 DEF Grounded
<1>3. CASE ~c.saturated /\ s \in Who(c.members)
    <2> DEFINE members == {n \in c.members : n.signer # s}
               d == Recomputed(c, members)
    <2>1. RemoveMember(c, s) = d
        BY <1>3 DEF RemoveMember
    <2>2. members \in SUBSET Members /\ Tight(members) \in BOOLEAN
        BY <1>1 DEF Tight
    <2>3. d \in SourceRecord /\ d.members = members /\ d.saturated = c.saturated
          /\ d.uncertain = c.uncertain /\ d.evidence = Tight(members)
        <3> HIDE DEF members
        <3> QED BY <1>1, <2>2 DEF Recomputed, SourceRecord
    <2>4. ~c.uncertain => members = G
        BY <1>3 DEF Grounded
    <2> HIDE DEF d, members
    <2> QED BY <2>1, <2>3, <2>4 DEF Grounded
<1>4. CASE ~c.saturated /\ s \notin Who(c.members)
    <2>1. RemoveMember(c, s) = c
        BY <1>4 DEF RemoveMember
    <2>2. m \notin c.members
        BY <1>4 DEF Who
    <2>3. c.uncertain
        BY <1>4, <2>2 DEF Grounded
    <2> QED BY <2>1, <2>3 DEF Grounded
<1> QED BY <1>2, <1>3, <1>4

LEMMA TransferTimes == ASSUME ClusterAssumption, NEW t \in Transfers PROVE t.at \in Nat
<1>1. Fundings \subseteq Nat
    BY DEF ClusterAssumption
<1>2. CASE t \in [from : Sources, at : Fundings]
    BY <1>1, <1>2
<1>3. CASE t = Nowhere
    BY <1>3 DEF Nowhere
<1> QED BY <1>2, <1>3 DEF Transfers

(* A stored lookup moves its signer from one source to the other.           *)
LEMMA CommitMoves ==
    ASSUME ClusterAssumption, ClusterInv, NEW s \in Signers, NEW t \in Transfers,
           NEW rec, rec.transfer = t, origin' = [origin EXCEPT ![s] = rec],
           NEW w \in Sources
    PROVE  LET F == Funded(w)
               old == [signer |-> s, at |-> origin[s].transfer.at]
               new == [signer |-> s, at |-> t.at]
               rest == {n \in F : n.signer # s}
           IN /\ F \in SUBSET Members /\ new \in Members
              /\ \A n, k \in F : n.signer = k.signer => n = k
              /\ Funded(w)' = IF w = t.from THEN rest \cup {new} ELSE rest
              /\ \A n \in F : n.signer = s => n = old /\ origin[s].transfer.from = w
              /\ origin[s].transfer.from = w => old \in F
<1> DEFINE at(x) == origin[x].transfer.at
           from(x) == origin[x].transfer.from
<1>1. \A x \in Signers : origin[x].transfer \in Transfers /\ at(x) \in Nat
    <2>1. \A x \in Signers : origin[x].transfer \in Transfers
        BY DEF ClusterInv
    <2> QED BY <2>1, TransferTimes
<1>2. t.at \in Nat
    BY TransferTimes
<1>3. \A x \in Signers : origin'[x] = IF x = s THEN rec ELSE origin[x]
    BY DEF ClusterInv
<1>4. \A n : n \in Funded(w) <=> \E x \in Signers : from(x) = w /\ n = [signer |-> x, at |-> at(x)]
    BY DEF Funded
<1>5. \A n : n \in Funded(w)' <=> \E x \in Signers :
              /\ (IF x = s THEN t.from ELSE from(x)) = w
              /\ n = [signer |-> x, at |-> IF x = s THEN t.at ELSE at(x)]
    BY <1>3 DEF Funded
<1> HIDE DEF at, from
<1>6. Funded(w) \in SUBSET Members
    BY <1>1, <1>4 DEF Members
<1>7. \A n, k \in Funded(w) : n.signer = k.signer => n = k
    BY <1>4
<1>8. \A n \in Funded(w) : n.signer = s => n = [signer |-> s, at |-> at(s)] /\ from(s) = w
    BY <1>4
<1>9. from(s) = w => [signer |-> s, at |-> at(s)] \in Funded(w)
    BY <1>4
<1>10. Funded(w)' = IF w = t.from THEN {n \in Funded(w) : n.signer # s} \cup {[signer |-> s, at |-> t.at]}
                    ELSE {n \in Funded(w) : n.signer # s}
    <2>1. \A n : n \in Funded(w)' <=>
             \/ n \in Funded(w) /\ n.signer # s
             \/ w = t.from /\ n = [signer |-> s, at |-> t.at]
        BY <1>4, <1>5
    <2> QED BY <2>1
<1> QED BY <1>2, <1>6, <1>7, <1>8, <1>9, <1>10 DEF Members, at, from

LEMMA ClusterInvStep ==
    ASSUME ClusterAssumption, ClusterInv, [ClusterNext]_clusterVars
    PROVE  ClusterInv'
<1>1. /\ clusterNow \in Nat /\ CacheTime \in Nat /\ FailureTime \in Nat
      /\ observer \in [Observers -> {Idle} \cup [signer : Signers, at : Nat]]
      /\ \A o \in Observers : observer[o] # Idle => observer[o].signer \in Signers /\ observer[o].at \in Nat
    BY DEF ClusterInv, ClusterAssumption
<1>2. ASSUME UNCHANGED <<origin, source>>, clusterNow' \in Nat,
             observer' \in [Observers -> {Idle} \cup [signer : Signers, at : Nat]]
      PROVE  ClusterInv'
    BY <1>2 DEF ClusterInv, Grounded, Funded
<1>3. CASE UNCHANGED clusterVars
    BY <1>1, <1>2, <1>3 DEF clusterVars
<1>4. CASE ClusterTick \/ ObserversCrash
    BY <1>1, <1>2, <1>4 DEF ClusterTick, ObserversCrash
<1>5. ASSUME NEW o \in Observers, NEW s \in Signers, BeginObserve(o, s)
      PROVE  ClusterInv'
    BY <1>1, <1>2, <1>5 DEF BeginObserve
<1>6. ASSUME NEW o \in Observers, LookupFails(o)
      PROVE  ClusterInv'
    <2> DEFINE s == observer[o].signer
               at == observer[o].at
               fail == [result |-> "provider_failure", transfer |-> Nowhere, checked |-> at,
                        refresh |-> at + FailureTime]
    <2>1. s \in Signers /\ at \in Nat /\ at + FailureTime \in Nat
        BY <1>1, <1>6 DEF LookupFails
    <2>2. /\ \/ origin' = origin
             \/ origin[s].result # "observed" /\ origin' = [origin EXCEPT ![s] = fail]
          /\ observer' = [observer EXCEPT ![o] = Idle] /\ UNCHANGED <<clusterNow, source>>
        BY <1>6 DEF LookupFails
    <2>3. observer' \in [Observers -> {Idle} \cup [signer : Signers, at : Nat]]
        BY <1>1, <2>2
    <2>4. fail \in [result : {"absent", "provider_failure", "observed"},
                    transfer : Transfers, checked : Nat, refresh : Nat]
          /\ fail.result # "observed" /\ fail.transfer = Nowhere
        BY <2>1 DEF Transfers
    <2> HIDE DEF fail, s, at
    <2>5. CASE origin' = origin
        BY <1>1, <1>2, <2>2, <2>3, <2>5
    <2>6. CASE origin[s].result # "observed" /\ origin' = [origin EXCEPT ![s] = fail]
        <3>1. /\ origin' \in [Signers -> [result : {"absent", "provider_failure", "observed"},
                                          transfer : Transfers, checked : Nat, refresh : Nat]]
              /\ \A x \in Signers : origin'[x] = IF x = s THEN fail ELSE origin[x]
            BY <2>1, <2>4, <2>6 DEF ClusterInv
        <3>2. \A x \in Signers : origin'[x].transfer = origin[x].transfer
                /\ (origin'[x].result # "observed" => origin'[x].transfer = Nowhere)
            BY <2>1, <2>4, <2>6, <3>1 DEF ClusterInv
        <3>3. \A w \in Sources : Funded(w)' = Funded(w)
            BY <3>2 DEF Funded
        <3>4. \A w \in Sources : Grounded(source'[w], Funded(w)')
            BY <2>2, <3>3 DEF ClusterInv
        <3> QED BY <1>1, <2>2, <2>3, <3>1, <3>2, <3>4 DEF ClusterInv, Grounded
    <2> QED BY <2>2, <2>5, <2>6
<1>7. ASSUME NEW o \in Observers, NEW t \in Transfers, ObserveCommit(o, t)
      PROVE  ClusterInv'
    <2> DEFINE s == observer[o].signer
               at == observer[o].at
               new == [signer |-> s, at |-> t.at]
               rec == [result |-> "observed", transfer |-> t, checked |-> at, refresh |-> at + CacheTime]
    <2>1. s \in Signers /\ at \in Nat /\ at + CacheTime \in Nat
        BY <1>1, <1>7 DEF ObserveCommit
    <2>2. observer' = [observer EXCEPT ![o] = Idle] /\ clusterNow' = clusterNow
        BY <1>7 DEF ObserveCommit
    <2>3. observer' \in [Observers -> {Idle} \cup [signer : Signers, at : Nat]]
        BY <1>1, <2>2
    <2>4. CASE UNCHANGED <<origin, source>>
        BY <1>1, <1>2, <2>2, <2>3, <2>4
    <2>5. CASE /\ origin' = [origin EXCEPT ![s] = rec]
               /\ source' = [w \in Sources |->
                               IF w = t.from THEN AddMember(source[w], new, Corrects(s, t))
                               ELSE IF w \in Left(s, t) THEN RemoveMember(source[w], s)
                               ELSE source[w]]
        <3>1. rec \in [result : {"absent", "provider_failure", "observed"},
                       transfer : Transfers, checked : Nat, refresh : Nat]
              /\ rec.result = "observed" /\ rec.transfer = t
            BY <2>1
        <3> HIDE DEF rec
        <3>2. /\ origin' \in [Signers -> [result : {"absent", "provider_failure", "observed"},
                                          transfer : Transfers, checked : Nat, refresh : Nat]]
              /\ \A x \in Signers : origin'[x].result # "observed" => origin'[x].transfer = Nowhere
            BY <2>1, <2>5, <3>1 DEF ClusterInv
        <3>3. ASSUME NEW w \in Sources
              PROVE  source'[w] \in SourceRecord /\ Grounded(source'[w], Funded(w)')
            <4> DEFINE F == Funded(w)
                       G == Funded(w)'
                       old == [signer |-> s, at |-> origin[s].transfer.at]
            <4>1. /\ F \in SUBSET Members /\ new \in Members /\ new.signer = s /\ old.signer = s
                  /\ \A n, k \in F : n.signer = k.signer => n = k
                  /\ G = IF w = t.from THEN {n \in F : n.signer # s} \cup {new} ELSE {n \in F : n.signer # s}
                  /\ \A n \in F : n.signer = s => n = old /\ origin[s].transfer.from = w
                  /\ origin[s].transfer.from = w => old \in F
                <5> HIDE DEF s, at
                <5>1. origin' = [origin EXCEPT ![s] = rec] /\ rec.transfer = t /\ s \in Signers
                    BY <2>1, <2>5, <3>1
                <5> QED BY <5>1, CommitMoves
            <4>2. source[w] \in SourceRecord /\ Grounded(source[w], F) /\ w # "none"
                BY DEF ClusterInv, ClusterAssumption
            <4>3. CASE w = t.from
                <5>1. source'[w] = AddMember(source[w], new, Corrects(s, t))
                    BY <2>5, <4>3
                <5>2. \A n \in F : n.signer = new.signer => n = new \/ Corrects(s, t)
                    <6>1. SUFFICES ASSUME NEW n \in F, n.signer = s, n # new PROVE Corrects(s, t)
                        BY <4>1
                    <6>2. n = old /\ origin[s].transfer.from = w
                        BY <4>1, <6>1
                    <6>3. origin[s].transfer # t
                        BY <6>1, <6>2
                    <6>4. origin[s].result = "observed"
                        BY <2>1, <4>2, <6>2 DEF ClusterInv, Nowhere
                    <6> QED BY <4>3, <6>2, <6>3, <6>4 DEF Corrects
                <5>3. Corrects(s, t) \in BOOLEAN
                    BY DEF Corrects
                <5>4. G \in SUBSET Members /\ G = {n \in F : n.signer # new.signer} \cup {new}
                    BY <4>1, <4>3
                <5>5. source'[w] \in SourceRecord /\ Grounded(source'[w], G)
                    <6> HIDE DEF F, G, new, s
                    <6> QED BY <4>1, <4>2, <5>1, <5>2, <5>3, <5>4, AddIsGrounded
                <5> QED BY <5>5
            <4>4. CASE w # t.from /\ origin[s].transfer.from = w
                <5>1. source'[w] = RemoveMember(source[w], s)
                    BY <2>5, <4>2, <4>4 DEF Left
                <5>2. /\ F \in SUBSET Members /\ old \in F
                      /\ G \in SUBSET Members /\ G = {n \in F : n.signer # old.signer}
                    BY <4>1, <4>4
                <5>3. source'[w] = RemoveMember(source[w], old.signer)
                    BY <5>1
                <5>4. source'[w] \in SourceRecord /\ Grounded(source'[w], G)
                    <6> HIDE DEF F, G, old, s
                    <6> QED BY <4>2, <5>2, <5>3, RemoveIsGrounded
                <5> QED BY <5>4
            <4>5. CASE w # t.from /\ origin[s].transfer.from # w
                <5>1. source'[w] = source[w]
                    BY <2>5, <4>5 DEF Left
                <5>2. G = F
                    <6>1. \A n \in F : n.signer # s
                        BY <4>1, <4>5
                    <6> QED BY <4>1, <4>5, <6>1
                <5> QED BY <4>2, <5>1, <5>2
            <4> QED BY <4>3, <4>4, <4>5
        <3>4. source' \in [Sources -> SourceRecord]
            BY <2>5, <3>3
        <3> QED BY <1>1, <2>2, <2>3, <3>2, <3>3, <3>4 DEF ClusterInv, Grounded
    <2> QED BY <1>7, <2>4, <2>5 DEF ObserveCommit
<1> QED BY <1>3, <1>4, <1>5, <1>6, <1>7 DEF ClusterNext

(* A record of a source has at most MemberLimit members, and a lookup is    *)
(* not from the future.                                                     *)
Small(members) == IsFiniteSet(members) /\ Cardinality(members) =< MemberLimit

ClusterBounds ==
    /\ clusterNow \in 1 .. ObserveTime
    /\ \A w \in Sources : Small(source[w].members)
    /\ \A o \in Observers : observer[o].at =< clusterNow

LEMMA SubsetIsSmall ==
    ASSUME ClusterAssumption, NEW S, Small(S), NEW T \in SUBSET S
    PROVE  Small(T)
<1>1. MemberLimit \in Nat
    BY DEF ClusterAssumption
<1>2. IsFiniteSet(T) /\ Cardinality(T) =< Cardinality(S)
    BY FS_Subset DEF Small
<1>3. Cardinality(S) \in Nat /\ Cardinality(T) \in Nat
    BY <1>2, FS_CardinalityType DEF Small
<1> QED BY <1>1, <1>2, <1>3 DEF Small

LEMMA AddStaysSmall ==
    ASSUME ClusterAssumption, NEW c \in SourceRecord, Small(c.members), NEW m, NEW corrects
    PROVE  Small(AddMember(c, m, corrects).members)
<1> DEFINE old == {n \in c.members : n.signer = m.signer}
<1>1. MemberLimit \in Nat /\ Cardinality(c.members) \in Nat
    BY FS_CardinalityType DEF ClusterAssumption, Small
<1>2. CASE c.uncertain \/ old = {m}
    BY <1>2 DEF AddMember
<1>3. CASE ~(c.uncertain \/ old = {m}) /\ c.saturated /\ (old # {} \/ corrects)
    <2>1. AddMember(c, m, corrects) = Doubtful(c)
        BY <1>3 DEF AddMember
    <2>2. Doubtful(c).members = c.members
        BY DEF Doubtful, SourceRecord
    <2> QED BY <2>1, <2>2
<1>4. CASE ~(c.uncertain \/ old = {m}) /\ ~(c.saturated /\ (old # {} \/ corrects)) /\ old # {}
    <2> DEFINE rest == c.members \ old
    <2>1. AddMember(c, m, corrects) = Recomputed(c, rest \cup {m})
        BY <1>4 DEF AddMember
    <2>2. Recomputed(c, rest \cup {m}).members = rest \cup {m}
        BY DEF Recomputed, SourceRecord
    <2>3. PICK n \in c.members : n \in old
        BY <1>4
    <2>4. IsFiniteSet(rest) /\ rest \subseteq c.members \ {n}
        BY <2>3, FS_Subset DEF Small
    <2>5. IsFiniteSet(c.members \ {n}) /\ Cardinality(c.members \ {n}) = Cardinality(c.members) - 1
        BY <2>3, FS_RemoveElement DEF Small
    <2> HIDE DEF rest
    <2>6. Cardinality(rest) =< Cardinality(c.members) - 1
        BY <2>4, <2>5, FS_Subset
    <2>7. Cardinality(rest) \in Nat /\ IsFiniteSet(rest \cup {m})
        BY <2>4, FS_CardinalityType, FS_AddElement
    <2>8. Cardinality(rest \cup {m}) = Cardinality(rest) \/ Cardinality(rest \cup {m}) = Cardinality(rest) + 1
        BY <2>4, FS_AddElement
    <2>9. Cardinality(rest \cup {m}) =< Cardinality(c.members)
        BY <1>1, <2>6, <2>7, <2>8
    <2>10. Small(rest \cup {m})
        <3>1. Cardinality(rest \cup {m}) \in Nat /\ Cardinality(c.members) =< MemberLimit
            BY <2>7, FS_CardinalityType DEF Small
        <3> QED BY <1>1, <2>7, <2>9, <3>1 DEF Small
    <2> QED BY <2>1, <2>2, <2>10
<1>5. CASE ~(c.uncertain \/ old = {m}) /\ ~(c.saturated /\ (old # {} \/ corrects)) /\ old = {}
    <2>1. AddMember(c, m, corrects) = Joined(c, m)
        BY <1>5 DEF AddMember
    <2>2. CASE Cardinality(c.members) >= MemberLimit
        <3>1. Joined(c, m).members = c.members
            BY <2>2 DEF Joined, SourceRecord
        <3> QED BY <2>1, <3>1
    <2>3. CASE ~(Cardinality(c.members) >= MemberLimit)
        <3>1. Joined(c, m).members = c.members \cup {m}
            BY <2>3 DEF Joined, SourceRecord
        <3>2. IsFiniteSet(c.members \cup {m})
              /\ Cardinality(c.members \cup {m}) \in {Cardinality(c.members), Cardinality(c.members) + 1}
            BY FS_AddElement DEF Small
        <3> QED BY <1>1, <2>1, <2>3, <3>1, <3>2 DEF Small
    <2> QED BY <2>2, <2>3
<1> QED BY <1>2, <1>3, <1>4, <1>5

LEMMA RemoveStaysSmall ==
    ASSUME ClusterAssumption, NEW c \in SourceRecord, Small(c.members), NEW s
    PROVE  Small(RemoveMember(c, s).members)
<1>1. CASE c.saturated
    <2>1. Doubtful(c).members = c.members
        BY DEF Doubtful, SourceRecord
    <2> QED BY <1>1, <2>1 DEF RemoveMember
<1>2. CASE ~c.saturated /\ s \in Who(c.members)
    <2> DEFINE rest == {n \in c.members : n.signer # s}
    <2>1. RemoveMember(c, s) = Recomputed(c, rest)
        BY <1>2 DEF RemoveMember
    <2>2. Recomputed(c, rest).members = rest
        BY DEF Recomputed, SourceRecord
    <2> QED BY <2>1, <2>2, SubsetIsSmall
<1>3. CASE ~c.saturated /\ s \notin Who(c.members)
    BY <1>3 DEF RemoveMember
<1> QED BY <1>1, <1>2, <1>3

LEMMA ClusterBoundsStep ==
    ASSUME ClusterAssumption, ClusterInv, ClusterBounds, [ClusterNext]_clusterVars
    PROVE  ClusterBounds'
<1>1. /\ clusterNow \in Nat /\ ObserveTime \in Nat
      /\ source \in [Sources -> SourceRecord]
      /\ observer \in [Observers -> {Idle} \cup [signer : Signers, at : Nat]]
    BY DEF ClusterInv, ClusterAssumption
<1>2. clusterNow' \in 1 .. ObserveTime /\ clusterNow' >= clusterNow
    <2>1. clusterNow' = clusterNow \/ (clusterNow < ObserveTime /\ clusterNow' = clusterNow + 1)
        BY Zenon DEF ClusterNext, clusterVars, BeginObserve, LookupFails, ObserveCommit, ClusterTick, ObserversCrash
    <2>2. clusterNow \in 1 .. ObserveTime
        BY DEF ClusterBounds
    <2> QED BY <1>1, <2>1, <2>2
<1>3. \A o \in Observers : observer'[o].at =< clusterNow'
    <2> SUFFICES ASSUME NEW o \in Observers PROVE observer'[o].at =< clusterNow'
        OBVIOUS
    <2>1. \/ observer' = observer
          \/ observer' = [p \in Observers |-> Idle]
          \/ \E p \in Observers : observer' = [observer EXCEPT ![p] = Idle]
          \/ \E p \in Observers, s \in Signers :
                observer' = [observer EXCEPT ![p] = [signer |-> s, at |-> clusterNow]]
        BY Zenon DEF ClusterNext, clusterVars, BeginObserve, LookupFails, ObserveCommit, ClusterTick, ObserversCrash
    <2>3. observer'[o] = observer[o] \/ observer'[o] = Idle \/ observer'[o].at = clusterNow
        BY <1>1, <2>1
    <2>2. observer[o].at \in Nat /\ Idle.at = 0
        BY <1>1 DEF Idle
    <2> QED BY <1>1, <1>2, <2>2, <2>3 DEF ClusterBounds
<1>4. \A w \in Sources : Small(source'[w].members)
    <2> SUFFICES ASSUME NEW w \in Sources PROVE Small(source'[w].members)
        OBVIOUS
    <2>1. source[w] \in SourceRecord /\ Small(source[w].members)
        BY <1>1 DEF ClusterBounds
    <2>2. CASE source' = source
        BY <2>1, <2>2
    <2>3. CASE source' # source
        <3>1. PICK o \in Observers, t \in Transfers : ObserveCommit(o, t)
            BY <2>3 DEF ClusterNext, clusterVars, BeginObserve, LookupFails, ClusterTick, ObserversCrash
        <3> DEFINE s == observer[o].signer  member == [signer |-> s, at |-> t.at]
        <3>2. source' = [v \in Sources |-> IF v = t.from THEN AddMember(source[v], member, Corrects(s, t))
                                           ELSE IF v \in Left(s, t) THEN RemoveMember(source[v], s)
                                           ELSE source[v]]
            BY <2>3, <3>1 DEF ObserveCommit
        <3>3. \/ source'[w] = AddMember(source[w], member, Corrects(s, t))
              \/ source'[w] = RemoveMember(source[w], s)
              \/ source'[w] = source[w]
            BY <3>2
        <3> HIDE DEF s, member
        <3>4. Small(AddMember(source[w], member, Corrects(s, t)).members)
            BY <2>1, AddStaysSmall
        <3>5. Small(RemoveMember(source[w], s).members)
            BY <2>1, RemoveStaysSmall
        <3> QED BY <2>1, <3>3, <3>4, <3>5
    <2> QED BY <2>2, <2>3
<1> QED BY <1>2, <1>3, <1>4 DEF ClusterBounds, Small

LEMMA ClusterInvInit ==
    ASSUME ClusterAssumption, ClusterInit
    PROVE  ClusterInv /\ ClusterBounds
<1>1. /\ origin = [s \in Signers |-> NoOrigin] /\ source = [w \in Sources |-> NoSource]
      /\ observer = [o \in Observers |-> Idle] /\ clusterNow = 1
    BY DEF ClusterInit
<1>2. \A w \in Sources : Funded(w) = {}
    BY <1>1 DEF Funded, NoOrigin, Nowhere, ClusterAssumption
<1>3. \A w \in Sources : Grounded(source[w], Funded(w))
    BY <1>1, <1>2 DEF Grounded, NoSource
<1>4. NoSource \in SourceRecord
    BY DEF NoSource, SourceRecord
<1>5. NoOrigin \in [result : {"absent", "provider_failure", "observed"},
                    transfer : Transfers, checked : Nat, refresh : Nat]
      /\ NoOrigin.transfer = Nowhere
    BY DEF NoOrigin, Transfers
<1>6. ClusterInv
    BY <1>1, <1>3, <1>4, <1>5 DEF ClusterInv
<1>7. Small({})
    <2>1. MemberLimit \in Nat
        BY DEF ClusterAssumption
    <2> QED BY <2>1, FS_EmptySet DEF Small
<1>8. 1 \in 1 .. ObserveTime /\ 0 =< 1
    BY DEF ClusterAssumption
<1>9. \A w \in Sources : source[w].members = {}
    BY <1>1 DEF NoSource
<1>10. \A o \in Observers : observer[o].at = 0
    BY <1>1 DEF Idle
<1>11. ClusterBounds
    BY <1>1, <1>7, <1>8, <1>9, <1>10 DEF ClusterBounds
<1> QED BY <1>6, <1>11

(* For any signers, sources, limits and times, and whatever the chain       *)
(* answers to lookups that overtake each other: the members that observe    *)
(* keeps of a source are the signers whose origin it is, and its evidence   *)
(* rests on a tight group of them.                                          *)
THEOREM ClustersStayGrounded ==
    ASSUME ClusterAssumption
    PROVE  ClusterSpec => []ClustersAreGrounded
<1>1. ClusterInit => ClusterInv
    BY ClusterInvInit
<1>2. ClusterInv /\ [ClusterNext]_clusterVars => ClusterInv'
    BY ClusterInvStep
<1>3. ClusterInv => ClustersAreGrounded
    BY DEF ClusterInv, Grounded, ClustersAreGrounded
<1> QED BY <1>1, <1>2, <1>3, PTL DEF ClusterSpec

(* No source keeps more than MemberLimit signers, all of whom it was asked  *)
(* about, however lookups overtake each other.                              *)
THEOREM ClusterTypes ==
    ASSUME ClusterAssumption
    PROVE  ClusterSpec => []ClusterTypeOK
<1>1. ClusterInit => ClusterInv /\ ClusterBounds
    BY ClusterInvInit
<1>2. ClusterInv /\ ClusterBounds /\ [ClusterNext]_clusterVars => (ClusterInv /\ ClusterBounds)'
    BY ClusterInvStep, ClusterBoundsStep
<1>3. ClusterInv /\ ClusterBounds => ClusterTypeOK
    BY DEF ClusterInv, ClusterBounds, ClusterTypeOK, Small, SourceRecord, Members, Who
<1> QED BY <1>1, <1>2, <1>3, PTL DEF ClusterSpec
=============================================================================
