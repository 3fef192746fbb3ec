------------------------------ MODULE PaidOnce ------------------------------
(***************************************************************************)
(* What the transaction outbox promises: every obligation of a Spot (one   *)
(* claim's reward, its creation fee, its refund, its platform fee, its     *)
(* remainder) is paid by at most one on-chain transaction, and a payment   *)
(* never goes away.                                                        *)
(***************************************************************************)
CONSTANTS Obligations, Transactions

VARIABLE paid    \* pairs of an obligation and the transaction that paid it

Init == paid = {}

(* The chain executes transaction r, the one payment of obligation o. *)
Pay(o, r) ==
    /\ \A u \in Transactions : <<o, u>> \notin paid
    /\ paid' = paid \cup {<<o, r>>}

Next == \E o \in Obligations, r \in Transactions : Pay(o, r)

Spec == Init /\ [][Next]_paid
=============================================================================
