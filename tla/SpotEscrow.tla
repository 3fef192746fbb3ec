----------------------------- MODULE SpotEscrow -----------------------------
(***************************************************************************)
(* What the money of a Spot promises, whoever decides on it: an account    *)
(* that receives deposits and never promises more than it has received nor *)
(* pays more than it has promised, and that is closed only when everything *)
(* received has been paid.  A closed account does not move any more.       *)
(***************************************************************************)
EXTENDS Naturals

VARIABLES
    received,    \* deposits confirmed on the chain
    promised,    \* payments recorded and not known to have failed
    paid,        \* payments the chain has executed
    closed       \* the Spot has ended and its money is accounted for

account == <<received, promised, paid>>

Init == received = 0 /\ promised = 0 /\ paid = 0 /\ closed = FALSE

(* A deposit is confirmed. *)
Receive ==
    /\ ~closed
    /\ received' > received
    /\ UNCHANGED <<promised, paid>>

(* A reward, a fee, a refund, the remainder or the sweep is decided. *)
Promise ==
    /\ ~closed
    /\ promised' > promised /\ promised' =< received
    /\ UNCHANGED <<received, paid>>

(* The chain executes a payment. *)
Pay ==
    /\ ~closed
    /\ paid' > paid /\ paid' =< promised
    /\ UNCHANGED <<received, promised>>

(* A payment has failed for good: its money can be promised again. *)
Withdraw ==
    /\ ~closed
    /\ promised' < promised /\ promised' >= paid
    /\ UNCHANGED <<received, paid>>

(* Closing, or reopening for another look, moves nothing. *)
Rest == UNCHANGED account

Next ==
    /\ Rest \/ Receive \/ Promise \/ Pay \/ Withdraw
    /\ closed' => promised' = received' /\ paid' = received'

Spec == Init /\ [][Next]_<<account, closed>>
=============================================================================
