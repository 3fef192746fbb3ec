--------------------------- MODULE WalletSession ---------------------------
(***************************************************************************)
(* Wallet sessions: the challenge, its verification outside any transaction*)
(* and the transaction that creates user, binding and session, behind the  *)
(* rolling admission buckets.  One source network; signatures are external.*)
(***************************************************************************)
EXTENDS Naturals, FiniteSets, FiniteSetsExt

CONSTANTS
    Challenges,       \* random challenge identifiers
    Devices, Wallets,
    Verifiers,        \* concurrent verify requests
    Span,             \* ticks of an admission window
    ChallengeTTL,
    ChallengeLimit,   \* challenges per device and window
    SourceLimit,      \* challenges per source and window
    VerifyLimit,      \* verifications per device and window
    VerifySourceLimit,
    UserLimit         \* users created per source and window

ASSUME SessionAssumption ==
    /\ IsFiniteSet(Devices) /\ "source" \notin Devices /\ "none" \notin Wallets
    /\ Span \in Nat \ {0} /\ ChallengeTTL \in Nat \ {0}
    /\ {ChallengeLimit, SourceLimit, VerifyLimit, VerifySourceLimit, UserLimit} \subseteq Nat \ {0}

VARIABLES
    chal,      \* challenge rows
    verifier,  \* verify requests
    sessions,  \* session rows: the request, challenge, device and wallet they came from
    binding,   \* wallet bound to the user of each device
    users,     \* devices with a USER row
    bucket,    \* admission buckets: how many stamps of each age
    issued,    \* challenges really issued, by age (history)
    created    \* users really created, by age: bucket and history in one

sessionVars == <<chal, verifier, sessions, binding, users, bucket, issued, created>>

Stamps == 0 .. Span - 1
BucketKeys == {"challenge", "verify"} \X (Devices \cup {"source"})
Empty == [i \in Stamps |-> 0]
Total(b) == SumFunctionOnSet(b, Stamps)
Resting == [pc |-> "idle"]

SessionTypeOK ==
    /\ chal \in [Challenges -> [status : {"absent", "stored", "gone"}, device : Devices \cup {"none"},
                             age : 0 .. ChallengeTTL]]
    /\ \A v \in Verifiers : verifier[v].pc \in {"idle", "admitted", "loaded", "verified"}
    /\ sessions \subseteq [by : Verifiers, chal : Challenges, device : Devices, wallet : Wallets]
    /\ binding \in [Devices -> Wallets \cup {"none"}]
    /\ users \subseteq Devices
    /\ \A k \in BucketKeys : bucket[k] \in [Stamps -> Nat]
    /\ issued \in [Devices -> [Stamps -> Nat]] /\ created \in [Stamps -> Nat]

SessionInit ==
    /\ chal = [c \in Challenges |-> [status |-> "absent", device |-> "none", age |-> 0]]
    /\ verifier = [v \in Verifiers |-> Resting]
    /\ sessions = {}
    /\ binding = [d \in Devices |-> "none"]
    /\ users = {}
    /\ bucket = [k \in BucketKeys |-> Empty]
    /\ issued = [d \in Devices |-> Empty]
    /\ created = Empty

-----------------------------------------------------------------------------
Present(c) == chal[c].status = "stored"
Fresh(c) == Present(c) /\ chal[c].age < ChallengeTTL

(* Mutant of Admitted: the limit is off by one. *)
AdmittedOneMore(b, limit) == Total(b) =< limit

(* admit_timestamp: the stamps of the window are counted, then one added.   *)
Admitted(b, limit) == Total(b) < limit

Stamp(b) == [b EXCEPT ![0] = @ + 1]

Admit(b, limit) == IF Admitted(b, limit) THEN Stamp(b) ELSE b

(* security_challenge: both buckets are charged, the challenge issued only  *)
(* when both admit.                                                         *)
Challenge(c, d) ==
    /\ chal[c].status = "absent"
    /\ LET own == <<"challenge", d>>
           all == <<"challenge", "source">>
           ok == Admitted(bucket[all], SourceLimit) /\ Admitted(bucket[own], ChallengeLimit)
       IN /\ bucket' = [bucket EXCEPT ![all] = Admit(@, SourceLimit), ![own] = Admit(@, ChallengeLimit)]
          /\ chal' = IF ok THEN [chal EXCEPT ![c] = [status |-> "stored", device |-> d, age |-> 0]]
                     ELSE chal
          /\ issued' = IF ok THEN [issued EXCEPT ![d] = Stamp(@)] ELSE issued
    /\ UNCHANGED <<verifier, sessions, binding, users, created>>

(* guard_http_request_with_verify_rate_limit                                *)
VerifyAdmit(v, c, d, w) ==
    /\ verifier[v] = Resting
    /\ LET own == <<"verify", d>>
           all == <<"verify", "source">>
       IN
       /\ bucket' = [bucket EXCEPT ![all] = Admit(@, VerifySourceLimit), ![own] = Admit(@, VerifyLimit)]
       /\ verifier' = IF Admitted(bucket[all], VerifySourceLimit) /\ Admitted(bucket[own], VerifyLimit)
                      THEN [verifier EXCEPT ![v] = [pc |-> "admitted", chal |-> c, device |-> d, wallet |-> w]]
                      ELSE verifier
    /\ UNCHANGED <<chal, sessions, binding, users, issued, created>>

(* security_verify reads the challenge without a lock and drops an expired one *)
VerifyLoad(v) ==
    /\ verifier[v].pc = "admitted"
    /\ LET c == verifier[v].chal
           mine == Present(c) /\ chal[c].device = verifier[v].device
       IN /\ verifier' = [verifier EXCEPT ![v] = IF mine /\ Fresh(c) THEN [@ EXCEPT !.pc = "loaded"]
                                                 ELSE Resting]
          /\ chal' = IF mine /\ ~Fresh(c) THEN [chal EXCEPT ![c].status = "gone"] ELSE chal
    /\ UNCHANGED <<sessions, binding, users, bucket, issued, created>>

(* The Node verifier accepts the signature or not (external).               *)
CheckSignature(v) ==
    /\ verifier[v].pc = "loaded"
    /\ \E next \in {Resting, [verifier[v] EXCEPT !.pc = "verified"]} :
          verifier' = [verifier EXCEPT ![v] = next]
    /\ UNCHANGED <<chal, sessions, binding, users, bucket, issued, created>>

(* get_or_create_public_user: an existing user is never counted.            *)
MayRegister(d) == d \in users \/ Total(created) < UserLimit

(* Mutant of MayBind: a device may change its wallet. *)
MayBindAny(d, w) == TRUE

MayBind(d, w) == binding[d] \in {"none", w}

(* Mutant of StillOpen: the challenge read before the signature is trusted. *)
StillOpenOnce(v) == TRUE

StillOpen(v) ==
    /\ Fresh(verifier[v].chal)
    /\ chal[verifier[v].chal].device = verifier[v].device

(* The transaction of security_verify: a refused registration or binding    *)
(* leaves the challenge, and a user that was created stays.                 *)
VerifyCommit(v) ==
    /\ verifier[v].pc = "verified"
    /\ LET c == verifier[v].chal
           d == verifier[v].device
           w == verifier[v].wallet
           registered == StillOpen(v) /\ MayRegister(d)
           bound == registered /\ MayBind(d, w)
       IN /\ users' = IF registered THEN users \cup {d} ELSE users
          /\ created' = IF registered /\ d \notin users THEN Stamp(created) ELSE created
          /\ sessions' = IF bound
                         THEN sessions \cup {[by |-> v, chal |-> c, device |-> d, wallet |-> w]}
                         ELSE sessions
          /\ binding' = IF bound THEN [binding EXCEPT ![d] = w] ELSE binding
          /\ chal' = IF bound THEN [chal EXCEPT ![c].status = "gone"] ELSE chal
    /\ verifier' = [verifier EXCEPT ![v] = Resting]
    /\ UNCHANGED <<bucket, issued>>

Shift(b) == [i \in Stamps |-> IF i = 0 THEN 0 ELSE b[i - 1]]

SessionTick ==
    /\ chal' = [c \in Challenges |-> IF Fresh(c) THEN [chal[c] EXCEPT !.age = @ + 1] ELSE chal[c]]
    /\ bucket' = [k \in BucketKeys |-> Shift(bucket[k])]
    /\ issued' = [d \in Devices |-> Shift(issued[d])]
    /\ created' = Shift(created)
    /\ UNCHANGED <<verifier, sessions, binding, users>>

SessionCrash ==
    /\ \E v \in Verifiers : verifier[v] # Resting
    /\ verifier' = [v \in Verifiers |-> Resting]
    /\ UNCHANGED <<chal, sessions, binding, users, bucket, issued, created>>

SessionNext ==
    \/ \E c \in Challenges, d \in Devices : Challenge(c, d)
    \/ \E v \in Verifiers :
          \/ \E c \in Challenges, d \in Devices, w \in Wallets : VerifyAdmit(v, c, d, w)
          \/ VerifyLoad(v) \/ CheckSignature(v) \/ VerifyCommit(v)
    \/ SessionTick
    \/ SessionCrash

SessionSpec == SessionInit /\ [][SessionNext]_sessionVars

-----------------------------------------------------------------------------
(* However verifications race, every session of a device is for the one     *)
(* wallet the device is bound to, and a challenge opens one session,        *)
(* although its signature may be verified several times at once.            *)
SessionsAreProven ==
    /\ \A s \in sessions : binding[s.device] = s.wallet
    /\ \A s, t \in sessions : s.chal = t.chal => s = t

(* In no window are more challenges issued, to a device or to the source,   *)
(* or more users created, than the limits allow.                            *)
AdmissionBucketsHold ==
    /\ \A d \in Devices : Total(issued[d]) =< ChallengeLimit
    /\ SumFunctionOnSet([d \in Devices |-> Total(issued[d])], Devices) =< SourceLimit
    /\ Total(created) =< UserLimit
=============================================================================
