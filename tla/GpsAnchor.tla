------------------------------ MODULE GpsAnchor ------------------------------
(***************************************************************************)
(* The GPS readings of one user at Find Spots (record_gps_observation of   *)
(* fresh_claim_guard.py): one stable anchor and at most one pending        *)
(* suspicious point from the same network address.  The clock is read      *)
(* before the transaction, so readings may be stored out of order.         *)
(*                                                                         *)
(* The user's real position is part of the model: a reading is true or one *)
(* of BadReadings wrong ones.  Distances are times: Flight[p][q] is the    *)
(* least that is no contradiction, 0 below the minimum distance.  Places   *)
(* are as far apart as the anchor's movement threshold.                    *)
(***************************************************************************)
EXTENDS Naturals

CONSTANTS Places, Networks, Readings, Flight, BadReadings, AnchorRefresh, Restriction, GpsTime,
          SwitchInOrder

ASSUME GpsAssumption ==
    /\ Flight \in [Places -> [Places -> Nat]]
    /\ \A p, q \in Places : Flight[p][p] = 0 /\ Flight[p][q] = Flight[q][p]
    /\ \A p, q, s \in Places : Flight[p][s] =< Flight[p][q] + Flight[q][s]
    /\ BadReadings \in Nat /\ AnchorRefresh \in Nat \ {0} /\ Restriction \in Nat \ {0}
    /\ GpsTime \in Nat /\ SwitchInOrder \in BOOLEAN

VARIABLES
    gpsNow,   \* server clock
    user,     \* where the user is
    bad,      \* wrong readings still to come
    reading,  \* requests between reading the clock and their transaction
    gps       \* the durable state

gpsVars == <<gpsNow, user, bad, reading, gps>>

NoPoint == [at |-> 0]
NoGps == [first |-> FALSE, inside |-> FALSE, anchor |-> NoPoint, pending |-> NoPoint,
          count |-> 0, until |-> 0]

GpsInit ==
    /\ gpsNow = 1 /\ user \in Places /\ bad = BadReadings
    /\ reading = [r \in Readings |-> NoPoint]
    /\ gps = NoGps

-----------------------------------------------------------------------------
Known(point) == point # NoPoint
Later(x, y) == IF x < y THEN y ELSE x

\* Nobody gets from one point to a later one in the time between them.
Contradicts(from, to) ==
    Later(1, IF to.at < from.at THEN 0 ELSE to.at - from.at) < Flight[from.place][to.place]

Comparable(o) ==
    Known(gps.anchor) /\ gps.anchor.net = o.net /\ o.net # "none" /\ o.at >= gps.anchor.at

\* The pending point counts only for the network address it came from.
PendingOf(o) == IF Known(gps.pending) /\ gps.pending.net = o.net THEN gps.pending ELSE NoPoint

OffAnchor(o) == Comparable(o) /\ Contradicts(gps.anchor, o)

\* Far from the anchor, but near the pending point.
Continues(o) == OffAnchor(o) /\ Known(PendingOf(o)) /\ ~Contradicts(PendingOf(o), o)

Contradiction(o) == OffAnchor(o) /\ ~Continues(o)
FirstOfPair(o) == Contradiction(o) /\ ~Known(PendingOf(o))

\* A return to the anchor and the second point of a pair retire the pending one.
NextPending(o) ==
    IF FirstOfPair(o) THEN o
    ELSE IF Continues(o) \/ ~Comparable(o) THEN PendingOf(o)
    ELSE NoPoint

Refreshes(o) ==
    \/ gps.anchor = NoPoint \/ gps.anchor.net # o.net \/ gps.anchor.place # o.place
    \/ o.at >= gps.anchor.at + AnchorRefresh
    \/ NextPending(o) # gps.pending

\* Mutant of MovesAnchor: the anchor follows the first reading of a pair.
MovesAnchorAtOnce(o) == Refreshes(o) /\ o.at >= gps.anchor.at /\ ~Continues(o)
MovesAnchor(o) ==
    Refreshes(o) /\ o.at >= gps.anchor.at /\ ~Continues(o) /\ ~FirstOfPair(o)

\* Two are as good as more.
Counted(o) == IF Contradiction(o) /\ gps.count < 2 THEN gps.count + 1 ELSE gps.count

Restricts(o) == Contradiction(o) /\ (Counted(o) = 2 \/ gps.inside)

-----------------------------------------------------------------------------
\* record_gps_observation: the clock first, the transaction later.
BeginReading(r, p, net) ==
    /\ reading[r] = NoPoint
    /\ \/ p = user /\ UNCHANGED bad
       \/ p # user /\ bad > 0 /\ bad' = bad - 1
    /\ reading' = [reading EXCEPT ![r] = [at |-> gpsNow, place |-> p, net |-> net]]
    /\ UNCHANGED <<gpsNow, user, gps>>

\* Whether a stranger's reward is there is looked up for the first reading only.
RecordReading(r) ==
    /\ reading[r] # NoPoint
    /\ SwitchInOrder => \A q \in Readings : Known(reading[q]) /\ reading[q].at < reading[r].at
                                            => reading[q].net = reading[r].net
    /\ LET o == reading[r]
       IN \E inside \in IF gps.first THEN {gps.inside} ELSE BOOLEAN :
             gps' = [first |-> TRUE, inside |-> inside,
                     anchor |-> IF MovesAnchor(o) THEN o ELSE gps.anchor,
                     pending |-> NextPending(o),
                     count |-> Counted(o),
                     until |-> IF Restricts(o) THEN Later(gps.until, o.at + Restriction) ELSE gps.until]
    /\ reading' = [reading EXCEPT ![r] = NoPoint]
    /\ UNCHANGED <<gpsNow, user, bad>>

GpsWait == gpsNow < GpsTime /\ gpsNow' = gpsNow + 1 /\ UNCHANGED <<user, bad, reading, gps>>

\* The user travels no faster than nature allows, and no journey is so short
\* that a reading still waits for its transaction when it ends.
Go(p) ==
    /\ Flight[user][p] > 0 => \A r \in Readings : reading[r] = NoPoint
    /\ p # user /\ gpsNow + Flight[user][p] =< GpsTime
    /\ user' = p /\ gpsNow' = gpsNow + Flight[user][p]
    /\ UNCHANGED <<bad, reading, gps>>

GpsNext ==
    \/ \E r \in Readings :
          \/ \E p \in Places, net \in Networks \cup {"none"} : BeginReading(r, p, net)
          \/ RecordReading(r)
    \/ \E p \in Places : Go(p)
    \/ GpsWait

GpsSpec == GpsInit /\ [][GpsNext]_gpsVars

-----------------------------------------------------------------------------
GpsTypeOK ==
    /\ gpsNow \in 1 .. GpsTime /\ user \in Places /\ bad \in 0 .. BadReadings
    /\ gps.first \in BOOLEAN /\ gps.inside \in BOOLEAN /\ gps.count \in 0 .. 2 /\ gps.until \in Nat
    /\ gps.pending # NoPoint => gps.anchor # NoPoint /\ gps.pending.net = gps.anchor.net

\* record_gps_observation, "Returning to the stable anchor retires the one
\* bounded bad excursion without manufacturing a second contradiction": in
\* whatever order the readings of an honest user are stored, true ones never
\* contradict each other, and one wrong reading is counted once at most and
\* restricts only somebody first seen inside a stranger's reward.
OneBadReadingForgiven ==
    /\ bad = BadReadings => gps.count = 0
    /\ bad + 1 >= BadReadings => gps.count =< 1 /\ (gps.until = 0 \/ gps.inside)
=============================================================================
