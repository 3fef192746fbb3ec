---------------------------- MODULE TravelGuard ----------------------------
(* The impossible-travel guard in front of claim creation                  *)
(* (claim_location_guard.py), for one user.  A claim is an anchor: the     *)
(* user was at its Spot when it was made or, while a duration claim waits, *)
(* when it was last updated.  An attempt that no traveller could make      *)
(* since an anchor is banned (hard) or starts a cooldown (soft); a second  *)
(* jump during the cooldown is banned unless the trusted claim or the      *)
(* first suspicious Spot explains it.                                      *)
(*                                                                         *)
(* The user's real position is part of the model, so that what an honest   *)
(* traveller may expect can be stated.  An attempt outside it is a forged  *)
(* reading (Forging), after which the user is not honest any more, or one  *)
(* bad GPS reading (Glitches).  Distances are travel times: Journey[s][t] at the soft limit, SoftTime[s][t] the       *)
(* smallest time that is no soft violation, the same but 0 below the       *)
(* minimum distance; HardTime alike for the hard limit.  Refusal           *)
(* and ban are answers of the route inside its transaction, so what they   *)
(* store is committed.                                                     *)
EXTENDS Integers, Sequences

CONSTANTS TravelSpots, StartSpots, Timed, Journey, SoftTime, HardTime, Recent,
          Forging, Glitches, AwayHeartbeats, TravelTime, MaxVisits

ASSUME TravelAssumption ==
    /\ Timed \subseteq TravelSpots /\ StartSpots \subseteq TravelSpots
    /\ Journey \in [TravelSpots -> [TravelSpots -> Nat]]
    /\ SoftTime \in [TravelSpots -> [TravelSpots -> Nat]]
    /\ HardTime \in [TravelSpots -> [TravelSpots -> Nat]]
    /\ \A s, t \in TravelSpots : HardTime[s][t] =< SoftTime[s][t] /\ SoftTime[s][t] =< Journey[s][t]
    /\ \A s \in TravelSpots : Journey[s][s] = 0
    /\ \A s, t, u \in TravelSpots : Journey[s][u] =< Journey[s][t] + Journey[t][u]
    /\ Recent \in Nat \ {0} /\ Glitches \in Nat /\ TravelTime \in Nat /\ MaxVisits \in Nat
    /\ Forging \in BOOLEAN /\ AwayHeartbeats \in BOOLEAN

VARIABLES time,      \* server clock
          pos,       \* the Spot the user is at
          glitches,  \* bad GPS readings still to come
          honest,    \* whether no reading was forged so far (no code reads it)
          visits,    \* the user's claims, oldest first
          marker,    \* the durable suspicion marker
          banned     \* the user's status is BANNED

travelVars == <<time, pos, glitches, honest, visits, marker, banned>>

VisitRows == [spot : TravelSpots, at : 0 .. TravelTime, seen : 0 .. TravelTime, pending : BOOLEAN]
NoMarker == [on |-> FALSE]
Markers(n) == [on : {TRUE}, trusted : 1 .. n, spot : TravelSpots, at : 0 .. TravelTime,
               retry : Nat, lastSpot : TravelSpots, lastAt : 0 .. TravelTime]

TravelInit ==
    /\ time = 0 /\ pos \in StartSpots /\ glitches = Glitches /\ honest = TRUE
    /\ visits = <<>> /\ marker = NoMarker /\ banned = FALSE

-----------------------------------------------------------------------------
\* The arithmetic of the guard.

Longer(x, y) == IF x < y THEN y ELSE x
ObservedAt(c) == IF c.pending THEN c.seen ELSE c.at

\* Whether going from a Spot seen at time `seen' to t by now takes less than `time' allows.
Elapsed(seen) == Longer(1, time - seen)
SoftViolation(s, t, seen) == seen =< time /\ Elapsed(seen) < SoftTime[s][t]
HardViolation(s, t, seen) == seen =< time /\ Elapsed(seen) < HardTime[s][t]
RetryAt(s, t, seen) == seen + SoftTime[s][t] + 1

\* Mutant of RecentAnchors: only the newest claim is an anchor.
RecentAnchorsNewest == {i \in DOMAIN visits : i = Len(visits)}
RecentAnchors == {i \in DOMAIN visits : i > Len(visits) - Recent}
Anchor(i) == visits[i].spot
HardJump(t) == \E i \in RecentAnchors : HardViolation(Anchor(i), t, ObservedAt(visits[i]))
SoftJumps(t) == {i \in RecentAnchors : SoftViolation(Anchor(i), t, ObservedAt(visits[i]))}
RetryOf(i, t) == RetryAt(Anchor(i), t, ObservedAt(visits[i]))

\* The claim that keeps the user waiting longest, the newest of those.
Trusted(t) ==
    CHOOSE i \in SoftJumps(t) :
        \A j \in SoftJumps(t) : \/ RetryOf(j, t) < RetryOf(i, t)
                                \/ RetryOf(j, t) = RetryOf(i, t) /\ j =< i

Active == marker.on /\ time < marker.retry
Repeated(t) == t = marker.lastSpot

\* Mutant of SecondJump: the trusted claim does not excuse the attempt.
SecondJumpMerciless(t) ==
    /\ SoftViolation(marker.lastSpot, t, marker.lastAt)
    /\ SoftViolation(marker.spot, t, marker.at)
SecondJump(t) ==
    /\ SoftViolation(marker.lastSpot, t, marker.lastAt)
    /\ SoftViolation(Anchor(marker.trusted), t, ObservedAt(visits[marker.trusted]))
    /\ SoftViolation(marker.spot, t, marker.at)

-----------------------------------------------------------------------------
\* One attempt that has passed the other claim rules, and what it stores.

BanUser == banned' = TRUE /\ marker' = NoMarker /\ UNCHANGED visits

HardBan(t) == HardJump(t) /\ BanUser

\* Mutant of ActiveCooldown: another attempt starts the waiting time anew.
ActiveCooldownSlides(t) ==
    /\ ~HardJump(t) /\ Active
    /\ marker' = [marker EXCEPT !.lastSpot = t, !.lastAt = time, !.retry = time + 1]
    /\ UNCHANGED <<visits, banned>>

ActiveCooldown(t) ==
    /\ ~HardJump(t) /\ Active
    /\ \/ Repeated(t) /\ UNCHANGED <<marker, banned, visits>>
       \/ ~Repeated(t) /\ SecondJump(t) /\ BanUser
       \/ /\ ~Repeated(t) /\ ~SecondJump(t)
          /\ marker' = [marker EXCEPT !.lastSpot = t, !.lastAt = time]
          /\ UNCHANGED <<banned, visits>>

NewCooldown(t) ==
    /\ ~HardJump(t) /\ ~Active /\ SoftJumps(t) # {}
    /\ marker' = [on |-> TRUE, trusted |-> Trusted(t), spot |-> t, at |-> time,
                  retry |-> RetryOf(Trusted(t), t), lastSpot |-> t, lastAt |-> time]
    /\ UNCHANGED <<visits, banned>>

Admit(t) ==
    /\ ~HardJump(t) /\ ~Active /\ SoftJumps(t) = {} /\ Len(visits) < MaxVisits
    /\ visits' = Append(visits, [spot |-> t, at |-> time, seen |-> time, pending |-> t \in Timed])
    /\ marker' = NoMarker
    /\ UNCHANGED banned

\* A bad reading is one the guard can tell from the truth but not a hard jump.
BadReading(t) == t # pos /\ glitches > 0 /\ SoftJumps(t) # {} /\ ~HardJump(t)

Attempt(t) ==
    /\ ~banned
    /\ \/ t = pos /\ UNCHANGED <<glitches, honest>>
       \/ BadReading(t) /\ glitches' = glitches - 1 /\ UNCHANGED honest
       \/ Forging /\ t # pos /\ honest' = FALSE /\ UNCHANGED glitches
    /\ HardBan(t) \/ ActiveCooldown(t) \/ NewCooldown(t) \/ Admit(t)
    /\ UNCHANGED <<time, pos>>

-----------------------------------------------------------------------------
\* What else moves an anchor, and the user.

\* A location heartbeat of a waiting duration claim, which the code records
\* wherever it comes from.
PresenceHeartbeat(i) ==
    /\ i \in DOMAIN visits /\ visits[i].pending /\ ~banned
    /\ AwayHeartbeats \/ Forging \/ pos = visits[i].spot
    /\ honest' = (honest /\ (AwayHeartbeats \/ pos = visits[i].spot))
    /\ visits' = [visits EXCEPT ![i].seen = time]
    /\ UNCHANGED <<time, pos, glitches, marker, banned>>

\* The claim succeeds or fails: its anchor is again the moment it was made.
Decided(i) ==
    /\ i \in DOMAIN visits /\ visits[i].pending
    /\ visits' = [visits EXCEPT ![i].pending = FALSE, ![i].seen = visits[i].at]
    /\ UNCHANGED <<time, pos, glitches, honest, marker, banned>>

Wait == time < TravelTime /\ time' = time + 1 /\ UNCHANGED <<pos, glitches, honest, visits, marker, banned>>

\* The user travels, no faster than the soft limit.  Where somebody who
\* forges positions really is makes no difference.
Travel(s) ==
    /\ s # pos /\ ~Forging
    /\ time + Journey[pos][s] =< TravelTime
    /\ time' = time + Journey[pos][s] /\ pos' = s
    /\ UNCHANGED <<glitches, honest, visits, marker, banned>>

TravelNext ==
    \/ \E t \in TravelSpots : Attempt(t) \/ Travel(t)
    \/ \E i \in 1 .. MaxVisits : PresenceHeartbeat(i) \/ Decided(i)
    \/ Wait

TravelSpec == TravelInit /\ [][TravelNext]_travelVars

-----------------------------------------------------------------------------
\* The marker names a claim that exists and asks for a wait that has an end:
\* longer than the attempt, never longer than one journey after it.
TravelTypeOK ==
    /\ time \in 0 .. TravelTime /\ pos \in TravelSpots /\ glitches \in 0 .. Glitches
    /\ visits \in Seq(VisitRows) /\ Len(visits) =< MaxVisits
    /\ banned \in BOOLEAN /\ honest \in BOOLEAN
    /\ marker # NoMarker =>
        /\ marker \in Markers(Len(visits))
        /\ marker.retry > marker.at
        /\ marker.retry =< marker.at + SoftTime[Anchor(marker.trusted)][marker.spot] + 1

\* create_claim_with_impossible_travel_guard: whatever positions a user
\* reports, any Recent + 1 claims in a row that exist are a journey somebody
\* could have made.
AdmittedIsPlausible ==
    \A i, j \in DOMAIN visits :
        i < j /\ j - i =< Recent =>
            Longer(1, visits[j].at - visits[i].at) >= SoftTime[Anchor(i)][Anchor(j)]

\* _active_cooldown_decision: while a cooldown runs no claim is created and
\* its end does not move, whatever the user tries; only a ban ends it early.
CooldownHolds ==
    [][Active => /\ Len(visits') = Len(visits)
                 /\ banned' \/ (marker'.on /\ marker'.retry = marker.retry)]_travelVars

\* Both: neither by moving fast nor by trying often is an impossible journey
\* made of claims.
JourneysArePlausible == []AdmittedIsPlausible /\ CooldownHolds

\* A user who is where the phone says, but for one bad reading, is never
\* banned ("one bad GPS reading" of the module's own description).
HonestNeverBanned == honest => ~banned
=============================================================================
