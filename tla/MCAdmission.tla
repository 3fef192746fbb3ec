----------------------------- MODULE MCAdmission ----------------------------
(***************************************************************************)
(* What is admitted: claims behind their rules and codes, claims behind    *)
(* the travel guard, and new drafts.  A behaviour is about one scenario,   *)
(* chosen at the start; the other components rest.                         *)
(*   codes    two users contend for the codes of a duration Spot           *)
(*   wallets  two devices of one wallet, and another wallet, at a duration *)
(*            Spot and an immediate one                                    *)
(*   forged   a user reports any position at any time                      *)
(*   honest   a user is where the phone says, but for one bad reading      *)
(*   drafts   creation and duplication of drafts                           *)
(***************************************************************************)
EXTENDS ClaimAdmission, TravelGuard, DraftAdmission, TLC

CONSTANTS u1, u2, u3, o, x1, x2, xo, coded, timed, quick, k1, k2, r1, r2, r3

VARIABLE part

\* Everybody may claim; the Spots belong to o.
MCWalletOf == [u \in Users |-> CASE u = u3 -> x2 [] u = o -> xo [] OTHER -> x1]
MCOwnerOf == [s \in Spots |-> o]
MCCapacity == [s \in Spots |-> 2]
MCPerUser == [s \in Spots |-> IF s = coded THEN 2 ELSE 1]
MCDuration == [s \in Spots |-> IF s = quick THEN 0 ELSE 1]
MCCodesOf == [s \in Spots |-> IF s = coded THEN {k1, k2} ELSE {}]

\* The claims and the cancellations of a step stay within these.
Within(users, place) ==
    /\ \A c \in DOMAIN claims' : claims'[c].user \in users /\ claims'[c].spot \in place
    /\ cancelling' \subseteq place

\* a and b are closer than the minimum distance, c is a moderate journey
\* away, and d one no vehicle makes in a tick.
MCPlace == [a |-> 0, b |-> 1, c |-> 2, d |-> 4]
MCSpots == DOMAIN MCPlace
MCGap(s, t) == IF MCPlace[s] < MCPlace[t] THEN MCPlace[t] - MCPlace[s] ELSE MCPlace[s] - MCPlace[t]
MCJourney == [s \in MCSpots |-> [t \in MCSpots |-> MCGap(s, t)]]
MCSoftTime == [s \in MCSpots |-> [t \in MCSpots |-> IF MCGap(s, t) > 1 THEN MCGap(s, t) ELSE 0]]
MCHardTime == [s \in MCSpots |-> [t \in MCSpots |-> IF MCGap(s, t) > 3 THEN 2 ELSE 0]]

Forged == INSTANCE TravelGuard WITH
    StartSpots <- {"a"}, Forging <- TRUE, Glitches <- 0,
    TravelTime <- 3, MaxVisits <- 3

MCSymmetry == Permutations({r1, r2, r3}) \cup Permutations({k1, k2})

MCInit ==
    /\ part \in {"codes", "wallets", "forged", "honest", "drafts"}
    /\ AdmissionInit /\ Init
    /\ IF part = "forged" THEN Forged!TravelInit ELSE TravelInit /\ (part # "honest" => pos = "a")

MCNext ==
    /\ \/ /\ \/ part = "codes" /\ AdmissionNext /\ Within({u1, u3}, {coded})
             \/ part = "wallets" /\ AdmissionNext /\ Within({u1, u2, u3}, {timed, quick}) /\ UNCHANGED <<cancelling, cancelled>>
          /\ UNCHANGED <<travelVars, draftVars>>
       \/ /\ \/ part = "forged" /\ Forged!TravelNext
             \/ part = "honest" /\ TravelNext
          /\ UNCHANGED <<admissionVars, draftVars>>
       \/ part = "drafts" /\ Next /\ UNCHANGED <<admissionVars, travelVars>>
    /\ UNCHANGED part

MCSpec == MCInit /\ [][MCNext]_<<admissionVars, travelVars, draftVars, part>>
=============================================================================
