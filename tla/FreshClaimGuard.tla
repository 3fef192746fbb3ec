--------------------------- MODULE FreshClaimGuard ---------------------------
(***************************************************************************)
(* The signer and first-location decisions in front of a public claim      *)
(* (fresh_claim_guard.py), for one user and one signer.  A request reads   *)
(* the clock once and keeps that `at' through both provider lookups; each  *)
(* lookup runs outside the transaction that stores its result.  Points     *)
(* nearer to each other than the mismatch distance are one point.          *)
(***************************************************************************)
EXTENDS Naturals, Sequences

CONSTANTS
    Lookups,        \* concurrent requests
    Ips,
    Points,         \* where the provider may place an address
    Blatant,        \* those that contradict the user's GPS position
    Histories,      \* possible times of the signer's oldest confirmed activity
    TrustAge, NegativeCache, FailureRetry,
    Cooldown, SecondCooldown, UnknownRetry,
    LookupTime      \* bound of the clock

ASSUME FreshAssumption ==
    /\ Blatant \subseteq Points /\ Histories \subseteq Nat
    /\ {TrustAge, NegativeCache, FailureRetry, Cooldown, SecondCooldown, UnknownRetry}
          \subseteq Nat \ {0}
    /\ LookupTime \in Nat

VARIABLES
    freshNow,   \* server clock
    suspended,  \* the user's status is BANNED
    signer,     \* the durable signer record
    place,      \* the durable first-location record
    lookup      \* the requests

freshVars == <<freshNow, suspended, signer, place, lookup>>

NoSigner == [trusted |-> FALSE, checked |-> 0, refresh |-> 0]
NoPlace == [decided |-> 0, verified |-> FALSE, retry |-> 0, mismatchIp |-> "none",
            seenIp |-> "none", seen |-> "none", unreliable |-> <<>>]
Start == [pc |-> "idle"]

FreshInit ==
    /\ freshNow = 1 /\ suspended = FALSE
    /\ signer = NoSigner /\ place = NoPlace
    /\ lookup = [r \in Lookups |-> Start]

Elements(seq) == {seq[i] : i \in DOMAIN seq}
Earlier(x, y) == IF x < y THEN x ELSE y

-----------------------------------------------------------------------------
\* What a stored record says to a request that began at `at'.

SignerSettled(at) == signer.trusted \/ signer.refresh > at

\* _location_state_decision
Restricted(at) == place.retry > at
PlaceSettled(at) == Restricted(at) \/ place.verified
Unreliable(ip) == ip \in Elements(place.unreliable)

\* The answer of a request: whether the claim may go on.
Decide(r, ok) == lookup' = [lookup EXCEPT ![r] = [pc |-> "done", ok |-> ok]]

\* The signer or the account is trusted: the location is decided next.
Proceed(r, at, ip) == lookup' = [lookup EXCEPT ![r] = [pc |-> "trusted", at |-> at, ip |-> ip]]

\* public_claim_decision: an account old enough may skip the signer (it needs
\* two active days as well, _account_age_trusted).
BeginDecision(r, ip) ==
    /\ lookup[r].pc = "idle" /\ ~suspended
    /\ \/ (signer.trusted \/ freshNow >= TrustAge) /\ Proceed(r, freshNow, ip)
       \/ ~signer.trusted /\ SignerSettled(freshNow) /\ Decide(r, FALSE)
       \/ /\ ~SignerSettled(freshNow)
          /\ lookup' = [lookup EXCEPT ![r] = [pc |-> "signer", at |-> freshNow, ip |-> ip]]
    /\ UNCHANGED <<freshNow, suspended, signer, place>>

\* first_location_decision up to the lookup.
AskPlace(r) ==
    /\ lookup[r].pc = "trusted"
    /\ LET at == lookup[r].at
           ip == lookup[r].ip
       IN \/ PlaceSettled(at) /\ Decide(r, ~Restricted(at))
          \/ ~PlaceSettled(at) /\ Unreliable(ip) /\ Decide(r, TRUE)
          \/ /\ ~PlaceSettled(at) /\ ~Unreliable(ip)
             /\ lookup' = [lookup EXCEPT ![r].pc = "place"]
    /\ UNCHANGED <<freshNow, suspended, signer, place>>

-----------------------------------------------------------------------------
\* signer_or_account_trusted after the history lookup.

Established(at, oldest) == oldest + TrustAge =< at
SignerRecord(at, oldest) ==
    IF Established(at, oldest) THEN [trusted |-> TRUE, checked |-> at, refresh |-> 0]
    ELSE [trusted |-> FALSE, checked |-> at,
          refresh |-> Earlier(at + NegativeCache, oldest + TrustAge + 1)]
SignerUnknown(at, wait) == [trusted |-> FALSE, checked |-> at, refresh |-> at + wait]

\* Mutant of KeepsSigner: the record read before the lookup is not read again.
KeepsSignerStale(at, found) == FALSE
KeepsSigner(at, found) ==
    \/ signer.trusted
    \/ ~found.trusted /\ SignerSettled(at) /\ signer.checked >= at

SignerCommit(r, found) ==
    LET at == lookup[r].at
        ip == lookup[r].ip
    IN \/ /\ suspended
          /\ Decide(r, FALSE) /\ UNCHANGED signer
       \/ /\ ~suspended /\ KeepsSigner(at, found) /\ UNCHANGED signer
          /\ \/ signer.trusted /\ Proceed(r, at, ip)
             \/ ~signer.trusted /\ Decide(r, FALSE)
       \/ /\ ~suspended /\ ~KeepsSigner(at, found)
          /\ signer' = found
          /\ \/ found.trusted /\ Proceed(r, at, ip)
             \/ ~found.trusted /\ Decide(r, FALSE)

\* The provider fails, finds nothing, or finds an oldest activity.
HistoryAnswered(r) ==
    /\ lookup[r].pc = "signer"
    /\ LET at == lookup[r].at
       IN \/ SignerCommit(r, SignerUnknown(at, FailureRetry))
          \/ SignerCommit(r, SignerUnknown(at, NegativeCache))
          \/ \E oldest \in {h \in Histories : h =< freshNow} : SignerCommit(r, SignerRecord(at, oldest))
    /\ UNCHANGED <<freshNow, suspended, place>>

-----------------------------------------------------------------------------
\* first_location_decision after the provider lookup.

\* Mutant of KeepsPlace: the record read before the lookup is not read again.
KeepsPlaceStale(at) == FALSE
KeepsPlace(at) == PlaceSettled(at) \/ place.decided >= at

ProviderMoved(ip, point) == place.seenIp = ip /\ place.seen # point

LastTwo(seq) == SubSeq(seq, IF Len(seq) > 2 THEN Len(seq) - 1 ELSE 1, Len(seq))

\* The provider has put one address at two distant points: it proves nothing.
WithUnreliable(at, ip) ==
    [place EXCEPT !.decided = at, !.retry = 0,
                  !.unreliable = LastTwo(Append(@, ip)),
                  !.mismatchIp = IF @ = ip THEN "none" ELSE @]

\* Every mismatch of one address after its first is a longer restriction.
CooldownOf(ip) == IF place.mismatchIp = ip THEN SecondCooldown ELSE Cooldown

WithAnswer(at, ip, point) ==
    LET seen == [place EXCEPT !.decided = at, !.seenIp = ip, !.seen = point]
    IN IF point \notin Blatant
       THEN [seen EXCEPT !.verified = TRUE, !.retry = 0]
       ELSE [seen EXCEPT !.mismatchIp = ip, !.retry = at + CooldownOf(ip)]

PlaceCommit(r, next, ok) ==
    \/ suspended /\ Decide(r, FALSE) /\ UNCHANGED place
    \/ /\ ~suspended /\ KeepsPlace(lookup[r].at) /\ UNCHANGED place
       /\ Decide(r, place.verified /\ ~Restricted(lookup[r].at))
    \/ /\ ~suspended /\ ~KeepsPlace(lookup[r].at)
       /\ place' = next /\ Decide(r, ok)

ProviderAnswers(r, point) ==
    /\ lookup[r].pc = "place"
    /\ LET at == lookup[r].at
           ip == lookup[r].ip
       IN \/ /\ ~suspended /\ ~PlaceSettled(at) /\ Unreliable(ip)
             /\ Decide(r, TRUE) /\ UNCHANGED place
          \/ /\ suspended \/ PlaceSettled(at) \/ ~Unreliable(ip)
             /\ \/ ProviderMoved(ip, point) /\ PlaceCommit(r, WithUnreliable(at, ip), TRUE)
                \/ /\ ~ProviderMoved(ip, point)
                   /\ PlaceCommit(r, WithAnswer(at, ip, point), point \notin Blatant)
    /\ UNCHANGED <<freshNow, suspended, signer>>

ProviderFails(r) ==
    /\ lookup[r].pc = "place"
    /\ LET at == lookup[r].at
       IN PlaceCommit(r, [place EXCEPT !.decided = at, !.retry = at + UnknownRetry], FALSE)
    /\ UNCHANGED <<freshNow, suspended, signer>>

-----------------------------------------------------------------------------
Elapse == freshNow < LookupTime /\ freshNow' = freshNow + 1 /\ UNCHANGED <<suspended, signer, place, lookup>>

SuspendUser == ~suspended /\ suspended' = TRUE /\ UNCHANGED <<freshNow, signer, place, lookup>>

\* A new request takes the place of an answered one.
Again(r) ==
    /\ lookup[r].pc = "done"
    /\ lookup' = [lookup EXCEPT ![r] = Start]
    /\ UNCHANGED <<freshNow, suspended, signer, place>>

FreshNext ==
    \/ \E r \in Lookups :
          \/ \E ip \in Ips : BeginDecision(r, ip)
          \/ AskPlace(r) \/ HistoryAnswered(r) \/ ProviderFails(r) \/ Again(r)
          \/ \E point \in Points : ProviderAnswers(r, point)
    \/ Elapse \/ SuspendUser

FreshSpec == FreshInit /\ [][FreshNext]_freshVars

-----------------------------------------------------------------------------
FreshTypeOK ==
    /\ freshNow \in 1 .. LookupTime /\ suspended \in BOOLEAN
    /\ signer \in [trusted : BOOLEAN, checked : 0 .. LookupTime, refresh : Nat]
    /\ place.verified \in BOOLEAN /\ place.decided \in 0 .. LookupTime /\ Len(place.unreliable) =< 2
    /\ \A r \in Lookups : lookup[r].pc \in {"idle", "signer", "trusted", "place", "done"}

\* signer_or_account_trusted, "Never let a stale failure/negative overwrite a
\* positive result or another request's newer completed lookup".
SignerVerdictStands ==
    signer' # signer => ~signer.trusted /\ (signer'.trusted \/ signer'.checked > signer.checked)

\* first_location_decision, "A concurrent verification, ban, or newer
\* restriction always wins over this potentially stale observation": whatever
\* a slow lookup brings, a verification is for good, a restriction that runs
\* is neither ended nor moved, and the record of a banned user rests.
PlaceVerdictStands ==
    place' # place =>
        /\ ~place.verified /\ place.retry =< freshNow /\ ~suspended
        /\ place'.decided > place.decided

\* No request is let through while a restriction runs that another one set
\* during its lookups.
PassesUnrestricted ==
    \A r \in Lookups :
        lookup'[r].pc = "done" /\ lookup'[r] # lookup[r] /\ lookup'[r].ok =>
            place'.retry =< freshNow

\* Together: late answers of two slow providers never undo a later verdict.
VerdictsStand == [][SignerVerdictStands /\ PlaceVerdictStands /\ PassesUnrestricted]_freshVars
=============================================================================
