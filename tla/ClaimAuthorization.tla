------------------------- MODULE ClaimAuthorization -------------------------
(***************************************************************************)
(* The one-use claim authorization of claim_security.py, the guard that    *)
(* takes a claim request through it, the security record the guard writes  *)
(* behind the application, and the payout gate that reads that record.     *)
(*                                                                         *)
(* A claim is named by the request that created it.  Ages count ticks and  *)
(* are capped where nothing looks any further.                             *)
(***************************************************************************)
EXTENDS Naturals, FiniteSets

CONSTANTS
    Auths,        \* challenge identifiers, random and never issued twice
    Requests,     \* claim requests; several may carry one authorization
    Suspicious,   \* requests of new identities at the exact centre of a Spot
    TTL, Grace,   \* life of an authorization, and what a slow worker gets
    Window,       \* burst window
    BurstMin,     \* identities that make a burst
    Hold,         \* observation hold of a payout
    Recorder,     \* which _record_claim_event is bound
    RecordFails,  \* storing the record may fail
    Operator      \* an operator releases claims from review

ASSUME AuthAssumption ==
    /\ Suspicious \subseteq Requests
    /\ TTL \in Nat \ {0} /\ Grace \in Nat
    /\ Window \in Nat /\ BurstMin \in Nat /\ Hold \in Nat /\ Window < Hold
    /\ Recorder \in {"primary", "installed"}
    /\ {RecordFails, Operator} \subseteq BOOLEAN

VARIABLES
    now,      \* parity of the clock
    auth,     \* the authorization rows of app_metadata
    req,      \* where each request's coroutine is
    claim,    \* the claims: age, and the authorization that admitted it
    record,   \* the security record of each claim
    marked,   \* claims ever marked for review (history)
    payout    \* the payout of each claim

authVars == <<now, auth, req, claim, record, marked, payout>>

Late == TTL + Grace

NoClaim == [age |-> 0, by |-> "none"]
NoRecord == [stored |-> FALSE, review |-> FALSE, released |-> FALSE]
AtRest == [pc |-> "idle", auth |-> "none"]

AuthTypeOK ==
    /\ now \in 0 .. 1
    /\ auth \in [Auths -> [status : {"absent", "issued", "verifying", "processing", "gone"},
                           age : 0 .. Late]]
    /\ req \in [Requests -> {AtRest} \cup
                   [pc : {"checked", "verifying", "approved", "rejected", "processing",
                          "forwarding", "created", "recorded", "answering", "done"},
                    auth : Auths]]
    /\ claim \in [Requests -> {NoClaim} \cup [age : 0 .. Hold, by : Auths]]
    /\ record \in [Requests -> [stored : BOOLEAN, review : BOOLEAN, released : BOOLEAN]]
    /\ marked \subseteq Requests
    /\ payout \in [Requests -> {"none", "allowed", "sent"}]

AuthInit ==
    /\ now = 0
    /\ auth = [a \in Auths |-> [status |-> "absent", age |-> 0]]
    /\ req = [r \in Requests |-> AtRest]
    /\ claim = [r \in Requests |-> NoClaim]
    /\ record = [r \in Requests |-> NoRecord]
    /\ marked = {}
    /\ payout = [r \in Requests |-> "none"]

-----------------------------------------------------------------------------
(* Issue and cleanup *)

Usable(a) == auth[a].status = "issued" /\ auth[a].age < TTL

(* Mutant of Removable: a record taken by a worker that stopped is kept. *)
RemovableIssued(a) == auth[a].status = "issued" /\ auth[a].age >= TTL

(* An issued record expires with its time, one that a worker has taken      *)
(* when the grace period is over too.                                       *)
Removable(a) ==
    \/ auth[a].status = "issued" /\ auth[a].age >= TTL
    \/ auth[a].status \in {"verifying", "processing"} /\ auth[a].age >= Late

Cleaned == [a \in Auths |-> IF Removable(a) THEN [auth[a] EXCEPT !.status = "gone"] ELSE auth[a]]

(* prepare_claim_authorization cleans up and issues in one transaction; a   *)
(* missing session or a full rate bucket ends it after the cleanup.         *)
Prepare(a) ==
    /\ auth[a].status = "absent"
    /\ auth' = [Cleaned EXCEPT ![a] = [status |-> "issued", age |-> 0]]
    /\ UNCHANGED <<now, req, claim, record, marked, payout>>

CleanupAuthorizations ==
    /\ \E a \in Auths : Removable(a)
    /\ auth' = Cleaned
    /\ UNCHANGED <<now, req, claim, record, marked, payout>>

-----------------------------------------------------------------------------
(* The guard *)

Goto(r, pc) == req' = [req EXCEPT ![r].pc = pc]

(* The authorization is read and compared with the request, without a lock. *)
Check(r, a) ==
    /\ req[r] = AtRest /\ claim[r] = NoClaim
    /\ Usable(a)
    /\ req' = [req EXCEPT ![r] = [pc |-> "checked", auth |-> a]]
    /\ UNCHANGED <<now, auth, claim, record, marked, payout>>

(* Mutant of TakeAttempt: the status read before is trusted. *)
TakeAttemptStale(r) ==
    /\ req[r].pc = "checked"
    /\ auth' = [auth EXCEPT ![req[r].auth].status = "verifying"]
    /\ Goto(r, "verifying")
    /\ UNCHANGED <<now, claim, record, marked, payout>>

(* It is read again under the write lock: one attempt per authorization.    *)
TakeAttempt(r) ==
    /\ req[r].pc = "checked"
    /\ IF Usable(req[r].auth)
       THEN /\ auth' = [auth EXCEPT ![req[r].auth].status = "verifying"]
            /\ Goto(r, "verifying")
       ELSE /\ Goto(r, "done")
            /\ UNCHANGED auth
    /\ UNCHANGED <<now, claim, record, marked, payout>>

(* Signature, wallet and fresh-claim checks, outside any transaction.       *)
Verify(r) ==
    /\ req[r].pc = "verifying"
    /\ Goto(r, "approved") \/ Goto(r, "rejected")
    /\ UNCHANGED <<now, auth, claim, record, marked, payout>>

(* Mutant of Retire: a rejected attempt gives the approval back. *)
RetireReissues(r) ==
    /\ req[r].pc = "rejected"
    /\ auth' = [auth EXCEPT ![req[r].auth].status = IF @ = "gone" THEN @ ELSE "issued"]
    /\ Goto(r, "done")
    /\ UNCHANGED <<now, claim, record, marked, payout>>

(* _retire_claim_authorization, after every kind of rejection               *)
Retire(r) ==
    /\ req[r].pc = "rejected"
    /\ auth' = [auth EXCEPT ![req[r].auth].status = "gone"]
    /\ Goto(r, "done")
    /\ UNCHANGED <<now, claim, record, marked, payout>>

BeginProcessing(r) ==
    /\ req[r].pc = "approved"
    /\ IF auth[req[r].auth].status = "verifying"
       THEN /\ auth' = [auth EXCEPT ![req[r].auth].status = "processing"]
            /\ Goto(r, "processing")
       ELSE /\ Goto(r, "done")
            /\ UNCHANGED auth
    /\ UNCHANGED <<now, claim, record, marked, payout>>

(* _preclaim_decision: impossible travel and the hourly limit of a wallet   *)
Preclaim(r) ==
    /\ req[r].pc = "processing"
    /\ Goto(r, "forwarding") \/ Goto(r, "rejected")
    /\ UNCHANGED <<now, auth, claim, record, marked, payout>>

(* The application creates the claim, or a business rule rejects it.        *)
ApplicationAnswers(r) ==
    /\ req[r].pc = "forwarding"
    /\ \/ /\ claim' = [claim EXCEPT ![r] = [age |-> 0, by |-> req[r].auth]]
          /\ Goto(r, "created")
       \/ /\ Goto(r, "rejected")
          /\ UNCHANGED claim
    /\ UNCHANGED <<now, auth, record, marked, payout>>

(* _coordinated_burst_claim_ids over the recorded events of the window      *)
Burst(stored) ==
    LET candidates == {r \in stored \cap Suspicious : claim[r].age =< Window}
    IN IF Cardinality(candidates) >= BurstMin THEN candidates ELSE {}

Stored == {r \in Requests : record[r].stored}

(* _record_claim_event: the record, and the marks of a burst, in one        *)
(* transaction.                                                             *)
RecordClaimEvent(r) ==
    /\ req[r].pc = "created"
    /\ Recorder = "primary"
    /\ LET burst == Burst(Stored \cup {r}) IN
       /\ record' = [s \in Requests |->
                        IF s = r THEN [stored |-> TRUE, review |-> r \in burst, released |-> FALSE]
                        ELSE [record[s] EXCEPT !.review = @ \/ s \in burst]]
       /\ marked' = marked \cup burst
    /\ Goto(r, "recorded")
    /\ UNCHANGED <<now, auth, claim, payout>>

(* The guard swallows an exception of the recorder: the claim stays without *)
(* record and the authorization processing.                                 *)
RecordingRaises(r) ==
    /\ RecordFails
    /\ req[r].pc = "created"
    /\ Goto(r, "answering")
    /\ UNCHANGED <<now, auth, claim, record, marked, payout>>

(* _record_claim_event_with_broad_burst, the recorder that is installed,    *)
(* has no parameter for the authorization the guard passes.                 *)
InstalledRecorderRaises(r) ==
    /\ Recorder = "installed"
    /\ req[r].pc = "created"
    /\ Goto(r, "answering")
    /\ UNCHANGED <<now, auth, claim, record, marked, payout>>

ConsumeAuthorization(r) ==
    /\ req[r].pc = "recorded"
    /\ auth' = [auth EXCEPT ![req[r].auth].status = "gone"]
    /\ Goto(r, "answering")
    /\ UNCHANGED <<now, claim, record, marked, payout>>

(* The captured response is forwarded; background settlement is released.   *)
Answer(r) ==
    /\ req[r].pc = "answering"
    /\ Goto(r, "done")
    /\ UNCHANGED <<now, auth, claim, record, marked, payout>>

-----------------------------------------------------------------------------
(* The payout gate *)

(* Mutants of PayoutAllowed: the observation hold is dropped, and a claim   *)
(* without record is taken for one of a development deployment.             *)
PayoutAllowedAtOnce(r) == record[r].stored /\ ~record[r].review

PayoutAllowedUnrecorded(r) == ~record[r].review /\ claim[r].age >= Hold

(* _payout_security_decision on a public deployment                         *)
PayoutAllowed(r) ==
    /\ record[r].stored
    /\ ~record[r].review
    /\ claim[r].age >= Hold

DecidePayout(r) ==
    /\ claim[r] # NoClaim /\ payout[r] = "none"
    /\ PayoutAllowed(r)
    /\ payout' = [payout EXCEPT ![r] = "allowed"]
    /\ UNCHANGED <<now, auth, req, claim, record, marked>>

(* The intent is inserted in a transaction of its own.                      *)
SendPayout(r) ==
    /\ payout[r] = "allowed"
    /\ payout' = [payout EXCEPT ![r] = "sent"]
    /\ UNCHANGED <<now, auth, req, claim, record, marked>>

(* release_claim_manual_review                                              *)
Release(r) ==
    /\ Operator
    /\ record[r].review
    /\ record' = [record EXCEPT ![r].review = FALSE, ![r].released = TRUE]
    /\ UNCHANGED <<now, auth, req, claim, marked, payout>>

-----------------------------------------------------------------------------
Sooner(x, y) == IF x < y THEN x ELSE y

Tick ==
    /\ now' = 1 - now
    /\ auth' = [a \in Auths |-> IF auth[a].status \in {"absent", "gone"} THEN auth[a]
                                ELSE [auth[a] EXCEPT !.age = Sooner(@ + 1, Late)]]
    /\ claim' = [r \in Requests |-> IF claim[r] = NoClaim THEN NoClaim
                                    ELSE [claim[r] EXCEPT !.age = Sooner(@ + 1, Hold)]]
    /\ UNCHANGED <<req, record, marked, payout>>

(* The process stops: coroutines are lost, rows are not.                    *)
AuthCrash ==
    /\ \E r \in Requests : req[r].pc \notin {"idle", "done"} \/ payout[r] = "allowed"
    /\ req' = [r \in Requests |-> IF req[r].pc \in {"idle", "done"} THEN req[r]
                                  ELSE [req[r] EXCEPT !.pc = "done"]]
    /\ payout' = [r \in Requests |-> IF payout[r] = "allowed" THEN "none" ELSE payout[r]]
    /\ UNCHANGED <<now, auth, claim, record, marked>>

GuardStep(r) ==
    \/ TakeAttempt(r) \/ Verify(r) \/ Retire(r) \/ BeginProcessing(r) \/ Preclaim(r)
    \/ ApplicationAnswers(r) \/ RecordClaimEvent(r) \/ RecordingRaises(r)
    \/ ConsumeAuthorization(r) \/ Answer(r)

AuthNext ==
    \/ \E a \in Auths : Prepare(a) \/ \E r \in Requests : Check(r, a)
    \/ CleanupAuthorizations
    \/ \E r \in Requests : GuardStep(r) \/ DecidePayout(r) \/ SendPayout(r) \/ Release(r)
    \/ Tick
    \/ AuthCrash

AuthSpec == AuthInit /\ [][AuthNext]_authVars

AuthInstalledSpec ==
    AuthInit /\ [][AuthNext \/ \E r \in Requests : InstalledRecorderRaises(r)]_authVars

(* Maintenance runs with every settlement pass and time goes on.            *)
AuthLiveSpec == AuthSpec /\ WF_authVars(Tick) /\ WF_authVars(CleanupAuthorizations)

-----------------------------------------------------------------------------
Attempting == {r \in Requests : req[r].pc \in {"verifying", "approved", "processing", "forwarding"}}

(* One approval creates at most one claim, and no approval is attempted     *)
(* twice, whichever requests carry it at the same time.                     *)
OneClaimPerAuthorization ==
    /\ \A r, s \in Requests :
          r # s /\ claim[r] # NoClaim /\ claim[s] # NoClaim => claim[r].by # claim[s].by
    /\ \A r, s \in Attempting : req[r].auth = req[s].auth => r = s

(* An approval that was taken or retired is never usable again: neither a   *)
(* rejection, a late worker, cleanup nor a restart brings it back.          *)
UsedStaysUsed ==
    [][\A a \in Auths : auth[a].status \in {"verifying", "processing", "gone"} =>
                            auth'[a].status \notin {"absent", "issued"}]_authVars

(* Both: an approval is used once, and for one claim.                        *)
AuthorizationUsedOnce == []OneClaimPerAuthorization /\ UsedStaysUsed

(* No claim is paid whose request stopped before its record was stored.     *)
PaidIsRecorded == \A r \in Requests : payout[r] # "none" => record[r].stored

(* A claim that a burst, completed by later claims, put under review has    *)
(* not been paid before, and is paid only after an operator's release.      *)
BurstIsHeld ==
    \A r \in Requests : r \in marked /\ payout[r] # "none" => record[r].released

(* Both: a payout has passed the screening its record stands for.           *)
PayoutsAreScreened == PaidIsRecorded /\ BurstIsHeld

(* Every authorization record is reclaimed, also one whose worker stopped.  *)
RecordsReclaimed == \A a \in Auths : auth[a].status # "absent" ~> auth[a].status = "gone"

(* A claim whose answer is forwarded has its security record.               *)
AnsweredIsRecorded == \A r \in Requests : req[r].pc = "answering" => record[r].stored
=============================================================================
