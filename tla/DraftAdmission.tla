--------------------------- MODULE DraftAdmission ---------------------------
(***************************************************************************)
(* Admission of new drafts: the create and the duplicate routes reserve    *)
(* rolling capacity and a deposit-key index in one writer transaction,     *)
(* derive the deposit address outside it under a semaphore, charge the     *)
(* reservation, and insert the draft in a third transaction.  Requests     *)
(* interleave, clients disconnect, the process stops between the steps,    *)
(* drafts are edited, funded, published and deleted meanwhile.             *)
(*                                                                         *)
(* A Spot's `value` stands for its total value plus creation fee.          *)
(***************************************************************************)
EXTENDS Integers, FiniteSets

CONSTANTS Creators, Requests,
          MaxDrafts,    \* MAX_DRAFT_SPOTS_PER_USER
          UserLimit,    \* DRAFT_CREATION_LIMIT_PER_USER
          GlobalLimit,  \* DRAFT_CREATION_GLOBAL_LIMIT
          Window,       \* DRAFT_CREATION_WINDOW_SECONDS
          Stale,        \* DRAFT_RESERVATION_STALE_SECONDS
          DerivationSlots,     \* DRAFT_DERIVATION_MAX_CONCURRENCY
          MaxValue,     \* bound: largest draft value
          MaxClock      \* bound: length of a behaviour

ASSUME DraftAssumption ==
    /\ {MaxDrafts, UserLimit, GlobalLimit, DerivationSlots, MaxValue} \subseteq Nat \ {0}
    /\ {Window, Stale, MaxClock} \subseteq Nat
    /\ 0 < Stale /\ Stale < Window /\ Creators # {}

VARIABLES clock, nextKey, admissions, slots, requests, spots

draftVars == <<clock, nextKey, admissions, slots, requests, spots>>

Stages == {"new", "queued", "deriving", "derived", "charged", "done"}

\* A request before it has reserved anything.
NewRequest == [stage |-> "new", user |-> CHOOSE u \in Creators : TRUE,
               key |-> 0, at |-> 0, attended |-> TRUE]

Running(r) == requests[r].stage \in {"queued", "deriving", "derived", "charged"}

\* Drafts of a user that count toward the simultaneous limit.
DraftsOf(u) == {s \in spots : s.user = u /\ s.status = "draft"}

FullyFunded(s) == s.confirmed >= s.value

\* Admissions of Spots whose whole deposit is confirmed no longer count.
Released(rows) ==
    {a \in rows : ~ (/\ a.status = "consumed"
                     /\ \E s \in spots : /\ s.key = a.key
                                         /\ s.status # "deleted"
                                         /\ FullyFunded(s))}

\* Abandoned reservations go at their own threshold, consumed ones after the
\* whole window.
Live(rows) ==
    {a \in rows : a.at > clock - (IF a.status = "pending" THEN Stale ELSE Window)}

Countable == Live(Released(admissions))

Admissible(u) ==
    /\ Cardinality(Countable) < GlobalLimit
    /\ Cardinality({a \in Countable : a.user = u}) < UserLimit

\* Mutant of NextKey: the next index is one above those of existing Spots.
NextKeyFromSpots ==
    LET keys == {s.key : s \in {t \in spots : t.status # "deleted"}}
    IN  IF keys = {} THEN 0 ELSE 1 + CHOOSE k \in keys : \A j \in keys : j <= k

\* The durable sequence: an index is taken whether or not a draft follows.
NextKey == nextKey

Step(r, stage) == requests' = [requests EXCEPT ![r].stage = stage]

Init ==
    /\ clock = 0
    /\ nextKey = 0
    /\ admissions = {}
    /\ slots = DerivationSlots
    /\ requests = [r \in Requests |-> NewRequest]
    /\ spots = {}

-----------------------------------------------------------------------------
\* First transaction of either route: capacity and a key index.
Reserve(r, u) ==
    /\ requests[r].stage = "new"
    /\ Cardinality(DraftsOf(u)) < MaxDrafts
    /\ Admissible(u)
    /\ nextKey' = nextKey + 1
    /\ admissions' = Countable \cup
         {[key |-> NextKey, user |-> u, status |-> "pending", at |-> clock]}
    /\ requests' = [requests EXCEPT ![r] =
         [stage |-> "queued", user |-> u, key |-> NextKey, at |-> clock,
          attended |-> TRUE]]
    /\ UNCHANGED <<clock, slots, spots>>

\* The allowance is exhausted; the pruning of this transaction is kept.
RateLimited(r, u) ==
    /\ requests[r].stage = "new"
    /\ Cardinality(DraftsOf(u)) < MaxDrafts
    /\ ~ Admissible(u)
    /\ admissions' = Countable
    /\ Step(r, "done")
    /\ UNCHANGED <<clock, nextKey, slots, spots>>

\* The user holds the maximum of drafts before anything is reserved.
DraftLimited(r, u) ==
    /\ requests[r].stage = "new"
    /\ Cardinality(DraftsOf(u)) >= MaxDrafts
    /\ Step(r, "done")
    /\ UNCHANGED <<clock, nextKey, admissions, slots, spots>>

\* The shielded task takes a derivation slot.
Acquire(r) ==
    /\ requests[r].stage = "queued"
    /\ slots > 0
    /\ slots' = slots - 1
    /\ Step(r, "deriving")
    /\ UNCHANGED <<clock, nextKey, admissions, spots>>

\* The thread returns an address; the slot is released by the worker task.
Derived(r) ==
    /\ requests[r].stage = "deriving"
    /\ slots' = slots + 1
    /\ Step(r, "derived")
    /\ UNCHANGED <<clock, nextKey, admissions, spots>>

\* Mutant of DerivationFails: no finally clause releases the slot.
DerivationFailsKeepsSlot(r) ==
    /\ requests[r].stage = "deriving"
    /\ Step(r, "done")
    /\ UNCHANGED <<clock, nextKey, admissions, slots, spots>>

\* The thread raises: the slot is released, the reservation stays pending.
DerivationFails(r) ==
    /\ requests[r].stage = "deriving"
    /\ slots' = slots + 1
    /\ Step(r, "done")
    /\ UNCHANGED <<clock, nextKey, admissions, spots>>

PendingRow(r) ==
    {a \in admissions : a.key = requests[r].key /\ a.status = "pending"
                        /\ a.user = requests[r].user}

\* Mutant of Consume: a reservation that was pruned meanwhile is no error.
ConsumeUnchecked(r) ==
    /\ requests[r].stage = "derived"
    /\ admissions' = (admissions \ PendingRow(r)) \cup
         {[a EXCEPT !.status = "consumed"] : a \in PendingRow(r)}
    /\ Step(r, "charged")
    /\ UNCHANGED <<clock, nextKey, slots, spots>>

\* Second transaction: charge the reservation, or fail when it was pruned.
Consume(r) ==
    /\ requests[r].stage = "derived"
    /\ admissions' = (admissions \ PendingRow(r)) \cup
         {[a EXCEPT !.status = "consumed"] : a \in PendingRow(r)}
    /\ Step(r, IF PendingRow(r) # {} THEN "charged" ELSE "done")
    /\ UNCHANGED <<clock, nextKey, slots, spots>>

\* Mutant of RoomForDraft: the count made before the derivation is trusted.
RoomForDraftTrusted(u) == TRUE

RoomForDraft(u) == Cardinality(DraftsOf(u)) < MaxDrafts

\* Third transaction: the draft limit again, and the draft.
CreateDraft(r) ==
    LET q == requests[r] IN
    /\ q.stage = "charged"
    /\ q.attended
    /\ spots' = IF RoomForDraft(q.user)
                THEN spots \cup {[key |-> q.key, by |-> r, user |-> q.user,
                                  at |-> q.at, status |-> "draft", value |-> 1,
                                  pending |-> 0, confirmed |-> 0, history |-> FALSE]}
                ELSE spots
    /\ Step(r, "done")
    /\ UNCHANGED <<clock, nextKey, admissions, slots>>

\* The client is gone: derivation and charge go on, no draft follows.
Disconnect(r) ==
    /\ Running(r)
    /\ requests[r].attended
    /\ requests' = [requests EXCEPT ![r].attended = FALSE]
    /\ UNCHANGED <<clock, nextKey, admissions, slots, spots>>

Abandoned(r) ==
    /\ requests[r].stage = "charged"
    /\ ~ requests[r].attended
    /\ Step(r, "done")
    /\ UNCHANGED <<clock, nextKey, admissions, slots, spots>>

-----------------------------------------------------------------------------
\* One row of the Spot table changes.
Becomes(s, t) ==
    /\ spots' = (spots \ {s}) \cup {t}
    /\ UNCHANGED <<clock, nextKey, admissions, slots, requests>>

\* The value is locked while a deposit is pending or confirmed.
ValueOpen(s) == s.pending = 0 /\ s.confirmed = 0

EditDraft(s) ==
    /\ s.status = "draft"
    /\ ValueOpen(s)
    /\ \E v \in (1 .. MaxValue) \ {s.value} : Becomes(s, [s EXCEPT !.value = v])

\* A reported deposit is recorded as pending, at most for what is due.
DepositSubmitted(s) ==
    /\ s.status = "draft"
    /\ s.pending = 0
    /\ \E a \in 1 .. (s.value - s.confirmed) :
         Becomes(s, [s EXCEPT !.pending = a, !.history = TRUE])

DepositConfirmed(s) ==
    /\ s.pending > 0
    /\ Becomes(s, [s EXCEPT !.pending = 0, !.confirmed = @ + s.pending])

DepositFailed(s) ==
    /\ s.pending > 0
    /\ Becomes(s, [s EXCEPT !.pending = 0])

Publish(s) ==
    /\ s.status = "draft"
    /\ FullyFunded(s)
    /\ Becomes(s, [s EXCEPT !.status = "published"])

\* Drafts with any deposit row, failed ones included, cannot be deleted.
DeleteDraft(s) ==
    /\ s.status = "draft"
    /\ ~ s.history
    /\ Becomes(s, [s EXCEPT !.status = "deleted"])

-----------------------------------------------------------------------------
\* Only the committed rows survive; a new process has every slot.
Crash ==
    /\ \E r \in Requests : Running(r)
    /\ requests' = [r \in Requests |->
         IF requests[r].stage = "new" THEN requests[r]
         ELSE [requests[r] EXCEPT !.stage = "done"]]
    /\ slots' = DerivationSlots
    /\ UNCHANGED <<clock, nextKey, admissions, spots>>

DraftTick ==
    /\ clock < MaxClock
    /\ clock' = clock + 1
    /\ UNCHANGED <<nextKey, admissions, slots, requests, spots>>

ServerStep(r) == Acquire(r) \/ Derived(r) \/ DerivationFails(r) \/ Consume(r)
                 \/ CreateDraft(r) \/ Abandoned(r)

CreatorStep(s) == EditDraft(s) \/ DepositSubmitted(s) \/ DepositConfirmed(s)
                  \/ DepositFailed(s) \/ Publish(s) \/ DeleteDraft(s)

Next ==
    \/ \E r \in Requests, u \in Creators :
         Reserve(r, u) \/ RateLimited(r, u) \/ DraftLimited(r, u)
    \/ \E r \in Requests : ServerStep(r) \/ Disconnect(r)
    \/ \E s \in spots : CreatorStep(s)
    \/ Crash
    \/ DraftTick

Spec == Init /\ [][Next]_draftVars

\* The tasks and threads of a running process go on.
LiveSpec == Spec /\ \A r \in Requests : WF_draftVars(ServerStep(r))

-----------------------------------------------------------------------------
Admission == [key : Nat, user : Creators, status : {"pending", "consumed"}, at : 0 .. MaxClock]

Spot == [key : Nat, by : Requests, user : Creators, at : 0 .. MaxClock,
         status : {"draft", "published", "deleted"}, value : 1 .. MaxValue,
         pending : 0 .. MaxValue, confirmed : 0 .. MaxValue, history : BOOLEAN]

\* Types, and every derivation slot is either free or held by exactly one
\* running derivation, through failures, disconnects and restarts.
DraftTypeOK ==
    /\ clock \in 0 .. MaxClock
    /\ nextKey \in Nat
    /\ admissions \subseteq Admission
    /\ spots \subseteq Spot
    /\ requests \in [Requests -> [stage : Stages, user : Creators, key : Nat,
                                  at : 0 .. MaxClock, attended : BOOLEAN]]
    /\ slots = DerivationSlots - Cardinality({r \in Requests : requests[r].stage = "deriving"})

\* No two drafts, deleted ones and failed requests included, ever share a
\* deposit-key index: an address shown once belongs to one Spot for ever.
KeysNeverReused ==
    /\ \A s, t \in spots : s.key = t.key => s = t
    /\ \A q, r \in Requests :
         (requests[q].stage # "new" /\ requests[r].stage # "new" /\ q # r
          /\ requests[q].key = requests[r].key)
         => "done" \in {requests[q].stage, requests[r].stage}
    /\ \A s \in spots, r \in Requests :
         Running(r) => s.key # requests[r].key

\* However creations and duplications interleave, no user holds more than the
\* maximum of drafts.
DraftCapKept == \A u \in Creators : Cardinality(DraftsOf(u)) <= MaxDrafts

\* The drafts admitted within one window that nobody has paid for, deleted ones
\* included, stay within the user's and the global allowance: deleting drafts,
\* losing requests or restarting buys no further addresses.
Unpaid == {s \in spots : s.at > clock - Window /\ ~ FullyFunded(s)}

AdmissionsBounded ==
    /\ Cardinality(Unpaid) <= GlobalLimit
    /\ \A u \in Creators : Cardinality({s \in Unpaid : s.user = u}) <= UserLimit

\* Both budgets of drafts, the standing and the rolling one.
DraftBudgetsKept == DraftCapKept /\ AdmissionsBounded

\* Every admitted request is decided, though other derivations fail, clients
\* leave and the process restarts.
RequestsDecided ==
    \A r \in Requests : requests[r].stage = "queued" ~> requests[r].stage = "done"
=============================================================================
