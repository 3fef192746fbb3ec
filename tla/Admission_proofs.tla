--------------------------- MODULE Admission_proofs ---------------------------
(***************************************************************************)
(* Proofs about admission: the deposit keys and the budgets of new drafts  *)
(* (DraftAdmission), the rules, limits and codes of claims on Standard     *)
(* Spots (ClaimAdmission), and the impossible-travel guard (TravelGuard).  *)
(***************************************************************************)
EXTENDS DraftAdmission, ClaimAdmission, TravelGuard, SumTheorems, FiniteSetTheorems, SequenceTheorems, TLAPS

-----------------------------------------------------------------------------
(* Drafts *)

RequestRows == [stage : Stages, user : Creators, key : Nat, at : 0 .. MaxClock, attended : BOOLEAN]

Deriving == {r \in Requests : requests[r].stage = "deriving"}

(* No Spot is paid, or about to be paid, more than it costs.                *)
Within(s) == s.confirmed + s.pending <= s.value

(* DraftTypeOK with what it takes to count the derivations that run, and    *)
(* the bound that keeps what is confirmed a possible amount.                *)
DraftTypes ==
    /\ clock \in 0 .. MaxClock
    /\ nextKey \in Nat
    /\ admissions \subseteq Admission
    /\ spots \subseteq Spot
    /\ \A s \in spots : Within(s)
    /\ requests \in [Requests -> RequestRows]
    /\ IsFiniteSet(Deriving) /\ slots = DerivationSlots - Cardinality(Deriving)

(* Every key that a Spot, an admission or a running request holds has been  *)
(* taken from the sequence, and a running request holds its key alone.      *)
KeysTaken ==
    /\ \A s \in spots : s.key < nextKey
    /\ \A a \in admissions : a.key < nextKey
    /\ \A r \in Requests : Running(r) => requests[r].key < nextKey
    /\ \A s, t \in spots : s.key = t.key => s = t
    /\ \A q, r \in Requests : Running(q) /\ Running(r) /\ requests[q].key = requests[r].key => q = r
    /\ \A s \in spots, r \in Requests : Running(r) => s.key # requests[r].key

LEMMA StepType ==
    ASSUME DraftTypes, NEW r \in Requests, NEW stage \in Stages, Step(r, stage)
    PROVE  /\ requests' \in [Requests -> RequestRows]
           /\ requests'[r].stage = stage /\ requests'[r].key = requests[r].key
           /\ requests'[r].user = requests[r].user /\ requests'[r].at = requests[r].at
           /\ \A q \in Requests : q # r => requests'[q] = requests[q]
<1>1. requests \in [Requests -> RequestRows] /\ requests[r] \in RequestRows
    BY DEF DraftTypes
<1>2. ASSUME NEW x \in RequestRows
      PROVE  /\ [x EXCEPT !.stage = stage] \in RequestRows
             /\ [x EXCEPT !.stage = stage].stage = stage /\ [x EXCEPT !.stage = stage].key = x.key
             /\ [x EXCEPT !.stage = stage].user = x.user /\ [x EXCEPT !.stage = stage].at = x.at
    BY DEF RequestRows
<1>3. requests' = [requests EXCEPT ![r] = [requests[r] EXCEPT !.stage = stage]]
    BY DEF Step
<1> QED BY <1>1, <1>2, <1>3

(* The derivations that run, after one has begun or ended.                  *)
LEMMA SlotTaken ==
    ASSUME DraftTypes, NEW r \in Requests, requests[r].stage # "deriving",
           Step(r, "deriving"), slots' = slots - 1
    PROVE  IsFiniteSet(Deriving') /\ slots' = DerivationSlots - Cardinality(Deriving')
<1>1. Deriving' = Deriving \cup {r} /\ r \notin Deriving
    BY StepType DEF Deriving, Stages
<1>2. IsFiniteSet(Deriving') /\ Cardinality(Deriving') = Cardinality(Deriving) + 1
    BY <1>1, FS_AddElement DEF DraftTypes
<1>3. Cardinality(Deriving) \in Nat
    BY FS_CardinalityType DEF DraftTypes
<1> QED BY <1>2, <1>3, DraftAssumption DEF DraftTypes

LEMMA SlotReleased ==
    ASSUME DraftTypes, NEW r \in Requests, requests[r].stage = "deriving",
           NEW stage \in Stages \ {"deriving"}, Step(r, stage), slots' = slots + 1
    PROVE  IsFiniteSet(Deriving') /\ slots' = DerivationSlots - Cardinality(Deriving')
<1>1. Deriving' = Deriving \ {r} /\ r \in Deriving
    BY StepType DEF Deriving
<1>2. IsFiniteSet(Deriving') /\ Cardinality(Deriving') = Cardinality(Deriving) - 1
    BY <1>1, FS_RemoveElement DEF DraftTypes
<1>3. Cardinality(Deriving) \in Nat
    BY FS_CardinalityType DEF DraftTypes
<1> QED BY <1>2, <1>3, DraftAssumption DEF DraftTypes

LEMMA CountableRows == Countable \subseteq admissions
BY DEF Countable, Live, Released

(* What Consume makes of a row.                                             *)
LEMMA ConsumedRow ==
    ASSUME NEW a \in Admission
    PROVE  /\ [a EXCEPT !.status = "consumed"] \in Admission
           /\ [a EXCEPT !.status = "consumed"].key = a.key
           /\ [a EXCEPT !.status = "consumed"].user = a.user
           /\ [a EXCEPT !.status = "consumed"].at = a.at
           /\ [a EXCEPT !.status = "consumed"].status = "consumed"
BY DEF Admission

(* What a creator's step makes of a Spot: its key, its request and its time *)
(* stay, it becomes no draft again, and what was paid stays paid.           *)
LEMMA CreatorChanges ==
    ASSUME DraftTypes, NEW s \in spots, CreatorStep(s)
    PROVE  /\ UNCHANGED <<clock, nextKey, admissions, slots, requests>>
           /\ \E t \in Spot : /\ spots' = (spots \ {s}) \cup {t}
                              /\ t.key = s.key /\ t.by = s.by /\ t.user = s.user /\ t.at = s.at
                              /\ t.status = "draft" => s.status = "draft"
                              /\ FullyFunded(s) => FullyFunded(t)
                              /\ Within(t)
<1>0. s \in Spot /\ Within(s) /\ MaxValue \in Nat \ {0}
    BY DraftAssumption DEF DraftTypes
<1>1. CASE EditDraft(s)
    <2>1. PICK v \in 1 .. MaxValue : Becomes(s, [s EXCEPT !.value = v])
        BY <1>1 DEF EditDraft
    <2>2. PICK t : t = [s EXCEPT !.value = v]
        OBVIOUS
    <2>3. /\ t \in Spot /\ t.key = s.key /\ t.by = s.by /\ t.user = s.user /\ t.at = s.at
          /\ t.status = s.status /\ t.value = v /\ t.pending = s.pending /\ t.confirmed = s.confirmed
        BY <1>0, <2>2 DEF Spot
    <2>5. Within(t)
        BY <1>1, <2>3 DEF EditDraft, ValueOpen, Within
    <2>4. ~FullyFunded(s)
        BY <1>0, <1>1 DEF EditDraft, ValueOpen, FullyFunded, Spot
    <2> QED BY <2>1, <2>2, <2>3, <2>4, <2>5 DEF Becomes
<1>2. CASE DepositSubmitted(s)
    <2>1. PICK a \in 1 .. (s.value - s.confirmed) : Becomes(s, [s EXCEPT !.pending = a, !.history = TRUE])
        BY <1>2 DEF DepositSubmitted
    <2>2. a \in 0 .. MaxValue
        BY <1>0 DEF Spot
    <2>3. PICK t : t = [s EXCEPT !.pending = a, !.history = TRUE]
        OBVIOUS
    <2>4. /\ t \in Spot /\ t.key = s.key /\ t.by = s.by /\ t.user = s.user /\ t.at = s.at
          /\ t.status = s.status /\ t.value = s.value /\ t.confirmed = s.confirmed /\ t.pending = a
        BY <1>0, <2>2, <2>3 DEF Spot
    <2>5. Within(t)
        BY <1>0, <2>1, <2>4 DEF Within, Spot
    <2> QED BY <2>1, <2>3, <2>4, <2>5 DEF Becomes, FullyFunded
<1>3. CASE DepositFailed(s)
    <2>1. PICK t : t = [s EXCEPT !.pending = 0]
        OBVIOUS
    <2>2. /\ t \in Spot /\ t.key = s.key /\ t.by = s.by /\ t.user = s.user /\ t.at = s.at
          /\ t.status = s.status /\ t.value = s.value /\ t.confirmed = s.confirmed
        BY <1>0, <2>1 DEF Spot
    <2>3. t.pending = 0 /\ Within(t)
        BY <1>0, <2>1, <2>2 DEF Within, Spot
    <2> QED BY <1>3, <2>1, <2>2, <2>3 DEF DepositFailed, Becomes, FullyFunded
<1>4. CASE Publish(s)
    <2>1. PICK t : t = [s EXCEPT !.status = "published"]
        OBVIOUS
    <2>2. /\ t \in Spot /\ t.key = s.key /\ t.by = s.by /\ t.user = s.user /\ t.at = s.at
          /\ t.status = "published" /\ t.value = s.value /\ t.confirmed = s.confirmed
        BY <1>0, <2>1 DEF Spot
    <2>3. t.pending = s.pending /\ Within(t)
        BY <1>0, <2>1, <2>2 DEF Within, Spot
    <2> QED BY <1>4, <2>1, <2>2, <2>3 DEF Publish, Becomes, FullyFunded
<1>5. CASE DeleteDraft(s)
    <2>1. PICK t : t = [s EXCEPT !.status = "deleted"]
        OBVIOUS
    <2>2. /\ t \in Spot /\ t.key = s.key /\ t.by = s.by /\ t.user = s.user /\ t.at = s.at
          /\ t.status = "deleted" /\ t.value = s.value /\ t.confirmed = s.confirmed
        BY <1>0, <2>1 DEF Spot
    <2>3. t.pending = s.pending /\ Within(t)
        BY <1>0, <2>1, <2>2 DEF Within, Spot
    <2> QED BY <1>5, <2>1, <2>2, <2>3 DEF DeleteDraft, Becomes, FullyFunded
<1>6. CASE DepositConfirmed(s)
    <2>1. PICK t : t = [s EXCEPT !.pending = 0, !.confirmed = @ + s.pending]
        OBVIOUS
    <2>2. /\ t.key = s.key /\ t.by = s.by /\ t.user = s.user /\ t.at = s.at
          /\ t.status = s.status /\ t.value = s.value /\ t.confirmed = s.confirmed + s.pending
          /\ t.pending = 0 /\ t.history = s.history
        BY <1>0, <2>1 DEF Spot
    <2>3. s.confirmed + s.pending \in 0 .. MaxValue /\ Within(t)
        BY <1>0, <2>2 DEF Within, Spot
    <2>4. t \in Spot
        <3>1. PICK c \in 0 .. MaxValue : c = s.confirmed + s.pending
            BY <2>3
        <3>2. t = [s EXCEPT !.pending = 0, !.confirmed = c]
            BY <2>1, <3>1
        <3>3. ASSUME NEW x \in Spot
              PROVE  [x EXCEPT !.pending = 0] \in Spot /\ [x EXCEPT !.confirmed = c] \in Spot
            BY <1>0 DEF Spot
        <3>4. PICK u \in Spot : u = [s EXCEPT !.pending = 0]
            BY <1>0, <3>3
        <3>5. t = [u EXCEPT !.confirmed = c]
            BY <3>2, <3>4
        <3> QED BY <3>3, <3>5
    <2>5. FullyFunded(s) => FullyFunded(t)
        BY <1>0, <2>2 DEF FullyFunded, Spot
    <2> QED BY <1>6, <2>1, <2>2, <2>3, <2>4, <2>5 DEF DepositConfirmed, Becomes
<1> QED BY <1>1, <1>2, <1>3, <1>4, <1>5, <1>6 DEF CreatorStep

LEMMA SlotKept ==
    ASSUME DraftTypes, NEW r \in Requests, requests[r].stage # "deriving",
           NEW stage \in Stages \ {"deriving"}, Step(r, stage), slots' = slots
    PROVE  IsFiniteSet(Deriving') /\ slots' = DerivationSlots - Cardinality(Deriving')
<1>1. Deriving' = Deriving
    BY StepType DEF Deriving
<1> QED BY <1>1 DEF DraftTypes

LEMMA ReserveRequests ==
    ASSUME DraftTypes, NEW r \in Requests, NEW u \in Creators, Reserve(r, u)
    PROVE  /\ requests' \in [Requests -> RequestRows]
           /\ requests'[r].stage = "queued" /\ requests'[r].key = nextKey
           /\ requests'[r].user = u /\ requests'[r].at = clock
           /\ \A q \in Requests : q # r => requests'[q] = requests[q]
<1>1. PICK x : x = [stage |-> "queued", user |-> u, key |-> nextKey, at |-> clock, attended |-> TRUE]
    OBVIOUS
<1>2. requests' = [requests EXCEPT ![r] = x] /\ requests \in [Requests -> RequestRows]
    BY <1>1 DEF Reserve, NextKey, DraftTypes
<1>3. x \in RequestRows /\ x.stage = "queued" /\ x.key = nextKey /\ x.user = u /\ x.at = clock
    BY <1>1 DEF DraftTypes, RequestRows, Stages
<1> QED BY <1>2, <1>3

LEMMA TypesCreate ==
    ASSUME DraftTypes, NEW r \in Requests, NEW u \in Creators,
           Reserve(r, u) \/ RateLimited(r, u) \/ DraftLimited(r, u)
    PROVE  DraftTypes'
<1>1. CASE Reserve(r, u)
    <2>1. [key |-> nextKey, user |-> u, status |-> "pending", at |-> clock] \in Admission
        BY DEF DraftTypes, Admission
    <2>2. admissions' \subseteq Admission
        BY <1>1, <2>1, CountableRows DEF Reserve, NextKey, DraftTypes
    <2>3. nextKey' \in Nat /\ UNCHANGED <<clock, slots, spots>> /\ requests[r].stage = "new"
        BY <1>1 DEF Reserve, DraftTypes
    <2>4. Deriving' = Deriving
        <3>1. requests'[r].stage = "queued"
            BY <1>1, ReserveRequests
        <3> QED BY <1>1, <2>3, <3>1, ReserveRequests DEF Deriving
    <2>5. (\A s \in spots : Within(s))'
        BY <2>3 DEF DraftTypes, Within
    <2> QED BY <1>1, <2>2, <2>3, <2>4, <2>5, ReserveRequests DEF DraftTypes
<1>2. CASE RateLimited(r, u)
    <2>1. /\ admissions' = Countable /\ Step(r, "done") /\ UNCHANGED <<clock, nextKey, slots, spots>>
          /\ requests[r].stage = "new"
        BY <1>2 DEF RateLimited
    <2> QED BY <2>1, CountableRows, StepType, SlotKept DEF DraftTypes, Within, Stages
<1>3. CASE DraftLimited(r, u)
    <2>1. /\ Step(r, "done") /\ UNCHANGED <<clock, nextKey, admissions, slots, spots>>
          /\ requests[r].stage = "new"
        BY <1>3 DEF DraftLimited
    <2> QED BY <2>1, StepType, SlotKept DEF DraftTypes, Within, Stages
<1> QED BY <1>1, <1>2, <1>3

LEMMA TypesServe ==
    ASSUME DraftTypes, NEW r \in Requests, ServerStep(r)
    PROVE  DraftTypes'
<1>1. CASE Acquire(r)
    <2>1. /\ Step(r, "deriving") /\ UNCHANGED <<clock, nextKey, admissions, spots>>
          /\ requests[r].stage # "deriving" /\ slots' = slots - 1
        BY <1>1 DEF Acquire
    <2> QED BY <2>1, StepType, SlotTaken DEF DraftTypes, Within, Stages
<1>2. CASE Derived(r)
    <2>1. /\ Step(r, "derived") /\ UNCHANGED <<clock, nextKey, admissions, spots>>
          /\ requests[r].stage = "deriving" /\ slots' = slots + 1
        BY <1>2 DEF Derived
    <2> QED BY <2>1, StepType, SlotReleased DEF DraftTypes, Within, Stages
<1>3. CASE DerivationFails(r)
    <2>1. /\ Step(r, "done") /\ UNCHANGED <<clock, nextKey, admissions, spots>>
          /\ requests[r].stage = "deriving" /\ slots' = slots + 1
        BY <1>3 DEF DerivationFails
    <2> QED BY <2>1, StepType, SlotReleased DEF DraftTypes, Within, Stages
<1>4. CASE Consume(r)
    <2>1. PICK stage \in {"charged", "done"} :
              Step(r, stage) /\ UNCHANGED <<clock, nextKey, slots, spots>>
              /\ requests[r].stage = "derived"
        BY <1>4 DEF Consume
    <2>2. PendingRow(r) \subseteq Admission
        BY DEF PendingRow, DraftTypes
    <2>3. admissions' \subseteq Admission
        BY <1>4, <2>2, ConsumedRow DEF Consume, DraftTypes
    <2> QED BY <2>1, <2>3, StepType, SlotKept DEF DraftTypes, Within, Stages
<1>5. CASE CreateDraft(r)
    <2>1. /\ Step(r, "done") /\ UNCHANGED <<clock, nextKey, admissions, slots>>
          /\ requests[r].stage = "charged"
        BY <1>5 DEF CreateDraft
    <2>2. PICK t : t = [key |-> requests[r].key, by |-> r, user |-> requests[r].user,
                        at |-> requests[r].at, status |-> "draft", value |-> 1,
                        pending |-> 0, confirmed |-> 0, history |-> FALSE]
        OBVIOUS
    <2>3. t \in Spot /\ Within(t)
        <3>1. requests[r] \in RequestRows
            BY DEF DraftTypes
        <3> QED BY <2>2, <3>1, DraftAssumption DEF RequestRows, Spot, Within
    <2>4. spots' = spots \cup {t} \/ spots' = spots
        BY <1>5, <2>2, Zenon DEF CreateDraft
    <2>5. spots' \subseteq Spot /\ (\A s \in spots : Within(s))'
        BY <2>3, <2>4 DEF DraftTypes, Within
    <2> QED BY <2>1, <2>5, StepType, SlotKept DEF DraftTypes, Stages
<1>6. CASE Abandoned(r)
    <2>1. /\ Step(r, "done") /\ UNCHANGED <<clock, nextKey, admissions, slots, spots>>
          /\ requests[r].stage = "charged"
        BY <1>6 DEF Abandoned
    <2> QED BY <2>1, StepType, SlotKept DEF DraftTypes, Within, Stages
<1> QED BY <1>1, <1>2, <1>3, <1>4, <1>5, <1>6 DEF ServerStep

(* A disconnect changes nothing but whether anybody still waits.            *)
LEMMA DisconnectRequests ==
    ASSUME DraftTypes, NEW r \in Requests, Disconnect(r)
    PROVE  /\ requests' \in [Requests -> RequestRows]
           /\ \A q \in Requests : /\ requests'[q].stage = requests[q].stage
                                  /\ requests'[q].key = requests[q].key
                                  /\ requests'[q].user = requests[q].user
                                  /\ requests'[q].at = requests[q].at
           /\ UNCHANGED <<clock, nextKey, admissions, slots, spots>>
<1>1. ASSUME NEW x \in RequestRows
      PROVE  /\ [x EXCEPT !.attended = FALSE] \in RequestRows
             /\ [x EXCEPT !.attended = FALSE].stage = x.stage
             /\ [x EXCEPT !.attended = FALSE].key = x.key
             /\ [x EXCEPT !.attended = FALSE].user = x.user
             /\ [x EXCEPT !.attended = FALSE].at = x.at
    BY DEF RequestRows
<1>2. requests' = [requests EXCEPT ![r] = [requests[r] EXCEPT !.attended = FALSE]]
    BY DEF Disconnect
<1> QED BY <1>1, <1>2 DEF DraftTypes, Disconnect

(* A restart keeps what was asked, and nothing runs afterwards.             *)
LEMMA CrashRequests ==
    ASSUME DraftTypes, Crash
    PROVE  /\ requests' \in [Requests -> RequestRows]
           /\ \A q \in Requests : requests'[q].stage \in {"new", "done"}
           /\ UNCHANGED <<clock, nextKey, admissions, spots>>
<1>1. ASSUME NEW x \in RequestRows
      PROVE  /\ [x EXCEPT !.stage = "done"] \in RequestRows
             /\ [x EXCEPT !.stage = "done"].stage = "done"
    BY DEF RequestRows, Stages
<1>2. requests' = [r \in Requests |-> IF requests[r].stage = "new" THEN requests[r]
                                      ELSE [requests[r] EXCEPT !.stage = "done"]]
    BY DEF Crash
<1> QED BY <1>1, <1>2 DEF DraftTypes, Crash

LEMMA TypesStep == DraftTypes /\ [Next]_draftVars => DraftTypes'
<1> SUFFICES ASSUME DraftTypes, [Next]_draftVars PROVE DraftTypes'
    OBVIOUS
<1>1. CASE \E r \in Requests, u \in Creators :
             Reserve(r, u) \/ RateLimited(r, u) \/ DraftLimited(r, u)
    BY <1>1, TypesCreate
<1>2. ASSUME NEW r \in Requests, ServerStep(r) PROVE DraftTypes'
    BY <1>2, TypesServe
<1>3. ASSUME NEW r \in Requests, Disconnect(r) PROVE DraftTypes'
    <2>1. Deriving' = Deriving
        BY <1>3, DisconnectRequests DEF Deriving
    <2> QED BY <1>3, <2>1, DisconnectRequests DEF DraftTypes, Within
<1>4. ASSUME NEW s \in spots, CreatorStep(s) PROVE DraftTypes'
    <2>1. PICK t \in Spot : spots' = (spots \ {s}) \cup {t} /\ Within(t)
        BY <1>4, CreatorChanges
    <2>2. UNCHANGED <<clock, nextKey, admissions, slots, requests>>
        BY <1>4, CreatorChanges
    <2> QED BY <2>1, <2>2 DEF DraftTypes, Within, Deriving
<1>5. CASE Crash
    <2>1. Deriving' = {}
        BY <1>5, CrashRequests DEF Deriving
    <2>2. slots' = DerivationSlots /\ IsFiniteSet({}) /\ Cardinality({}) = 0
        BY <1>5, FS_EmptySet DEF Crash
    <2> QED BY <1>5, <2>1, <2>2, CrashRequests, DraftAssumption DEF DraftTypes, Within
<1>6. CASE DraftTick
    BY <1>6, DraftAssumption DEF DraftTick, DraftTypes, Within, Deriving
<1>7. CASE UNCHANGED draftVars
    BY <1>7 DEF draftVars, DraftTypes, Within, Deriving
<1> QED BY <1>1, <1>2, <1>3, <1>4, <1>5, <1>6, <1>7, Zenon DEF Next

LEMMA TypesInit == Init => DraftTypes
<1> SUFFICES ASSUME Init PROVE DraftTypes
    OBVIOUS
<1>1. NewRequest \in RequestRows /\ NewRequest.stage = "new"
    <2>1. (CHOOSE u \in Creators : TRUE) \in Creators
        BY DraftAssumption
    <2> QED BY <2>1, DraftAssumption DEF NewRequest, RequestRows, Stages
<1>2. Deriving = {}
    BY <1>1 DEF Init, Deriving
<1>3. IsFiniteSet({}) /\ Cardinality({}) = 0
    BY FS_EmptySet
<1> QED BY <1>1, <1>2, <1>3, DraftAssumption DEF Init, DraftTypes

(* Types, and every derivation slot is either free or held by exactly one   *)
(* running derivation, whatever fails, leaves or restarts                   *)
(* (draft_creation.py: the worker task owns the semaphore slot).             *)
THEOREM DraftTypesKept == Spec => []DraftTypeOK
<1>1. DraftTypes => DraftTypeOK
    BY DEF DraftTypes, DraftTypeOK, RequestRows, Deriving
<1> QED BY <1>1, TypesInit, TypesStep, PTL DEF Spec

(* A running request that takes a step, or ends, keeps its key.             *)
LEMMA KeysGoOn ==
    ASSUME DraftTypes, KeysTaken, requests' \in [Requests -> RequestRows],
           \A q \in Requests : /\ Running(q)' => Running(q)
                               /\ requests'[q].key = requests[q].key,
           nextKey' = nextKey, spots' = spots,
           \A a \in admissions' : a.key < nextKey
    PROVE  KeysTaken'
BY DEF KeysTaken

LEMMA KeysStepOn ==
    ASSUME DraftTypes, KeysTaken, NEW r \in Requests, Running(r), NEW stage \in Stages,
           Step(r, stage), nextKey' = nextKey, spots' = spots,
           \A a \in admissions' : a.key < nextKey
    PROVE  KeysTaken'
BY StepType, KeysGoOn DEF Running

LEMMA KeysCreate ==
    ASSUME DraftTypes, KeysTaken, NEW r \in Requests, NEW u \in Creators,
           Reserve(r, u) \/ RateLimited(r, u) \/ DraftLimited(r, u)
    PROVE  KeysTaken'
<1>1. CASE Reserve(r, u)
    <2>1. /\ spots' = spots /\ nextKey' = nextKey + 1 /\ requests[r].stage = "new"
          /\ admissions' = Countable \cup
               {[key |-> nextKey, user |-> u, status |-> "pending", at |-> clock]}
        BY <1>1 DEF Reserve, NextKey
    <2>2. requests'[r].key = nextKey
        BY <1>1, ReserveRequests
    <2>3. \A q \in Requests : q # r => requests'[q] = requests[q] /\ (Running(q)' <=> Running(q))
        BY <1>1, ReserveRequests DEF Running
    <2>4. nextKey \in Nat
        BY DEF DraftTypes
    <2>5. \A q \in Requests : requests[q].key \in Nat
        BY DEF DraftTypes, RequestRows
    <2>6. \A s \in spots : s.key \in Nat /\ s.key < nextKey
        BY DEF DraftTypes, KeysTaken, Spot
    <2>7. \A a \in admissions' : a.key < nextKey'
        <3>1. \A a \in Countable : a.key < nextKey /\ a.key \in Nat
            BY CountableRows DEF KeysTaken, DraftTypes, Admission
        <3> QED BY <2>1, <2>4, <3>1
    <2>8. \A q \in Requests : Running(q)' => requests'[q].key < nextKey'
        BY <2>1, <2>2, <2>3, <2>4, <2>5 DEF KeysTaken
    <2>9. \A q \in Requests : q # r /\ Running(q)' => requests'[q].key < nextKey
        BY <2>3 DEF KeysTaken
    <2>10. \A p, q \in Requests : Running(p)' /\ Running(q)' /\ requests'[p].key = requests'[q].key => p = q
        BY <2>2, <2>3, <2>4, <2>9 DEF KeysTaken
    <2>11. \A s \in spots, q \in Requests : Running(q)' => s.key # requests'[q].key
        BY <2>2, <2>3, <2>4, <2>6 DEF KeysTaken
    <2> QED BY <2>1, <2>4, <2>6, <2>7, <2>8, <2>10, <2>11 DEF KeysTaken
<1>2. CASE RateLimited(r, u)
    <2>1. /\ admissions' = Countable /\ Step(r, "done") /\ UNCHANGED <<nextKey, spots>>
        BY <1>2 DEF RateLimited
    <2>2. \A a \in admissions' : a.key < nextKey
        BY <2>1, CountableRows DEF KeysTaken
    <2>3. requests' \in [Requests -> RequestRows]
          /\ \A q \in Requests : /\ Running(q)' => Running(q)
                                 /\ requests'[q].key = requests[q].key
        BY <2>1, StepType DEF Running, Stages
    <2> QED BY <2>1, <2>2, <2>3, KeysGoOn
<1>3. CASE DraftLimited(r, u)
    <2>1. Step(r, "done") /\ UNCHANGED <<nextKey, admissions, spots>>
        BY <1>3 DEF DraftLimited
    <2>2. requests' \in [Requests -> RequestRows]
          /\ \A q \in Requests : /\ Running(q)' => Running(q)
                                 /\ requests'[q].key = requests[q].key
        BY <2>1, StepType DEF Running, Stages
    <2> QED BY <2>1, <2>2, KeysGoOn DEF KeysTaken
<1> QED BY <1>1, <1>2, <1>3

LEMMA ConsumedRows ==
    ASSUME DraftTypes, NEW r \in Requests, Consume(r)
    PROVE  \A b \in admissions' : \E a \in admissions : b.key = a.key /\ b.user = a.user /\ b.at = a.at
<1>1. \A a \in PendingRow(r) : a \in admissions /\ a \in Admission
    BY DEF PendingRow, DraftTypes
<1>2. admissions' = (admissions \ PendingRow(r)) \cup
         {[a EXCEPT !.status = "consumed"] : a \in PendingRow(r)}
    BY DEF Consume
<1>3. ASSUME NEW b \in admissions'
      PROVE  \E a \in admissions : b.key = a.key /\ b.user = a.user /\ b.at = a.at
    <2>1. b \in admissions \/ \E a \in PendingRow(r) : b = [a EXCEPT !.status = "consumed"]
        BY <1>2, <1>3
    <2> QED BY <1>1, <2>1, ConsumedRow
<1> QED BY <1>3

LEMMA KeysServe ==
    ASSUME DraftTypes, KeysTaken, NEW r \in Requests, ServerStep(r)
    PROVE  KeysTaken'
<1>1. CASE Acquire(r) \/ Derived(r) \/ DerivationFails(r) \/ Abandoned(r)
    <2>1. PICK stage \in Stages :
              Running(r) /\ Step(r, stage) /\ UNCHANGED <<nextKey, admissions, spots>>
        BY <1>1 DEF Acquire, Derived, DerivationFails, Abandoned, Running, Stages
    <2> QED BY <2>1, KeysStepOn DEF KeysTaken
<1>2. CASE Consume(r)
    <2>1. PICK stage \in Stages : Running(r) /\ Step(r, stage) /\ UNCHANGED <<nextKey, spots>>
        BY <1>2 DEF Consume, Running, Stages
    <2>2. \A a \in admissions' : a.key < nextKey
        BY <1>2, ConsumedRows DEF KeysTaken
    <2> QED BY <2>1, <2>2, KeysStepOn
<1>3. CASE CreateDraft(r)
    <2>1. /\ Step(r, "done") /\ UNCHANGED <<nextKey, admissions>> /\ Running(r)
        BY <1>3 DEF CreateDraft, Running
    <2>2. \E t : t.key = requests[r].key /\ (spots' = spots \cup {t} \/ spots' = spots)
        <3>1. PICK t : t = [key |-> requests[r].key, by |-> r, user |-> requests[r].user,
                        at |-> requests[r].at, status |-> "draft", value |-> 1,
                        pending |-> 0, confirmed |-> 0, history |-> FALSE]
            OBVIOUS
        <3>2. spots' = spots \cup {t} \/ spots' = spots
            BY <1>3, <3>1, Zenon DEF CreateDraft
        <3> QED BY <3>1, <3>2
    <2>3. \A q \in Requests : /\ requests'[q].key = requests[q].key
                              /\ Running(q)' => Running(q) /\ q # r
        BY <2>1, StepType DEF Running, Stages
    <2> QED BY <2>1, <2>2, <2>3 DEF KeysTaken
<1> QED BY <1>1, <1>2, <1>3 DEF ServerStep

LEMMA KeysStep == DraftTypes /\ KeysTaken /\ [Next]_draftVars => KeysTaken'
<1> SUFFICES ASSUME DraftTypes, KeysTaken, [Next]_draftVars PROVE KeysTaken'
    OBVIOUS
<1>1. CASE \E r \in Requests, u \in Creators :
             Reserve(r, u) \/ RateLimited(r, u) \/ DraftLimited(r, u)
    BY <1>1, KeysCreate
<1>2. ASSUME NEW r \in Requests, ServerStep(r) PROVE KeysTaken'
    BY <1>2, KeysServe
<1>3. ASSUME NEW r \in Requests, Disconnect(r) PROVE KeysTaken'
    BY <1>3, DisconnectRequests, KeysGoOn DEF Running, KeysTaken
<1>4. ASSUME NEW s \in spots, CreatorStep(s) PROVE KeysTaken'
    <2>1. PICK t \in Spot : spots' = (spots \ {s}) \cup {t} /\ t.key = s.key
        BY <1>4, CreatorChanges
    <2>2. UNCHANGED <<nextKey, admissions, requests>>
        BY <1>4, CreatorChanges
    <2> QED BY <2>1, <2>2 DEF KeysTaken, Running
<1>5. CASE Crash
    <2>1. \A r \in Requests : ~Running(r)'
        BY <1>5, CrashRequests DEF Running
    <2> QED BY <1>5, <2>1, CrashRequests DEF KeysTaken
<1>6. CASE DraftTick
    BY <1>6 DEF DraftTick, KeysTaken, Running
<1>7. CASE UNCHANGED draftVars
    BY <1>7 DEF draftVars, KeysTaken, Running
<1> QED BY <1>1, <1>2, <1>3, <1>4, <1>5, <1>6, <1>7, Zenon DEF Next

LEMMA KeysInit == Init => KeysTaken
BY DEF Init, KeysTaken, Running, NewRequest

(* No two drafts, deleted ones and the drafts of requests under way         *)
(* included, share a deposit-key index, however requests interleave, fail   *)
(* or die with the process (db_access.py: the durable key sequence).        *)
THEOREM KeysStayUnique == Spec => []KeysNeverReused
<1>1. DraftTypes /\ KeysTaken => KeysNeverReused
    BY DEF DraftTypes, RequestRows, Stages, KeysTaken, KeysNeverReused, Running
<1> QED BY <1>1, TypesInit, TypesStep, KeysInit, KeysStep, PTL DEF Spec

-----------------------------------------------------------------------------
(* Budgets *)

(* One element of a finite set is exchanged for another.                    *)
LEMMA Exchanged ==
    ASSUME NEW S, IsFiniteSet(S), NEW x \in S, NEW y
    PROVE  /\ IsFiniteSet((S \ {x}) \cup {y})
           /\ Cardinality((S \ {x}) \cup {y}) <= Cardinality(S)
<1>1. IsFiniteSet(S \ {x}) /\ Cardinality(S \ {x}) = Cardinality(S) - 1
    BY FS_RemoveElement
<1>2. Cardinality(S) \in Nat
    BY FS_CardinalityType
<1> DEFINE rest == S \ {x}
<1>3. IsFiniteSet(rest) /\ Cardinality(rest) = Cardinality(S) - 1
    BY <1>1
<1> HIDE DEF rest
<1>4. /\ IsFiniteSet(rest \cup {y})
      /\ Cardinality(rest \cup {y}) = IF y \in rest THEN Cardinality(rest) ELSE Cardinality(rest) + 1
    BY <1>3, FS_AddElement
<1>5. Cardinality(rest \cup {y}) <= Cardinality(S)
    BY <1>2, <1>3, <1>4
<1> QED BY <1>4, <1>5 DEF rest

LEMMA OneMore ==
    ASSUME NEW S, IsFiniteSet(S), NEW x
    PROVE  /\ IsFiniteSet(S \cup {x})
           /\ Cardinality(S) \in Nat /\ Cardinality(S \cup {x}) \in Nat
           /\ Cardinality(S \cup {x}) <= Cardinality(S) + 1
<1>1. IsFiniteSet(S \cup {x})
    BY FS_AddElement
<1>2. Cardinality(S \cup {x}) = IF x \in S THEN Cardinality(S) ELSE Cardinality(S) + 1
    BY FS_AddElement
<1>3. Cardinality(S) \in Nat
    BY FS_CardinalityType
<1> QED BY <1>1, <1>2, <1>3

(* A set whose elements have keys of their own is no larger than a set      *)
(* where each of these keys is found.                                       *)
LEMMA KeyedCount ==
    ASSUME NEW S, NEW T, IsFiniteSet(S), IsFiniteSet(T),
           \A x, y \in S : x.key = y.key => x = y,
           \A x \in S : \E y \in T : y.key = x.key
    PROVE  Cardinality(S) <= Cardinality(T)
<1> DEFINE f == [x \in S |-> CHOOSE y \in T : y.key = x.key]
<1>1. \A x \in S : f[x] \in T /\ f[x].key = x.key
    OBVIOUS
<1>2. f \in [S -> T]
    BY <1>1
<1>3. \A x, y \in S : f[x] = f[y] => x = y
    BY <1>1
<1>4. Cardinality(S) \in Nat /\ Cardinality(T) \in Nat
    BY FS_CardinalityType
<1>5. ~(Cardinality(T) < Cardinality(S))
    <2> HIDE DEF f
    <2> QED BY <1>2, <1>3, FS_PigeonHole
<1> QED BY <1>4, <1>5

(* The standing budget, over finitely many Spots.                           *)
DraftsCapped == IsFiniteSet(spots) /\ DraftCapKept

(* The drafts of a user after a step that leaves the Spots alone.           *)
LEMMA CappedSame ==
    ASSUME DraftsCapped, spots' = spots
    PROVE  DraftsCapped'
BY DEF DraftsCapped, DraftCapKept, DraftsOf

LEMMA FiniteDrafts ==
    ASSUME DraftsCapped, NEW u
    PROVE  IsFiniteSet(DraftsOf(u)) /\ Cardinality(DraftsOf(u)) \in Nat
<1>1. DraftsOf(u) \in SUBSET spots
    BY DEF DraftsOf
<1>2. IsFiniteSet(DraftsOf(u))
    BY <1>1, FS_Subset DEF DraftsCapped
<1> QED BY <1>2, FS_CardinalityType

LEMMA CappedCreate ==
    ASSUME DraftTypes, DraftsCapped, NEW r \in Requests, CreateDraft(r)
    PROVE  DraftsCapped'
<1>1. PICK t : t = [key |-> requests[r].key, by |-> r, user |-> requests[r].user,
                    at |-> requests[r].at, status |-> "draft", value |-> 1,
                    pending |-> 0, confirmed |-> 0, history |-> FALSE]
    OBVIOUS
<1>2. spots' = IF RoomForDraft(requests[r].user) THEN spots \cup {t} ELSE spots
    BY <1>1, Zenon DEF CreateDraft
<1>3. CASE RoomForDraft(requests[r].user)
    <2>1. spots' = spots \cup {t} /\ t.user = requests[r].user
        BY <1>1, <1>2, <1>3
    <2>2. IsFiniteSet(spots')
        BY <2>1, FS_AddElement DEF DraftsCapped
    <2>3. ASSUME NEW u \in Creators PROVE Cardinality(DraftsOf(u)') <= MaxDrafts
        <3>1. IsFiniteSet(DraftsOf(u)) /\ Cardinality(DraftsOf(u)) \in Nat
            BY FiniteDrafts
        <3>2. MaxDrafts \in Nat
            BY DraftAssumption
        <3>3. CASE u = requests[r].user
            <4>1. DraftsOf(u)' \in SUBSET (DraftsOf(u) \cup {t})
                BY <2>1 DEF DraftsOf
            <4>2. /\ IsFiniteSet(DraftsOf(u) \cup {t})
                  /\ Cardinality(DraftsOf(u) \cup {t}) <= Cardinality(DraftsOf(u)) + 1
                BY <3>1, FS_AddElement
            <4>3. Cardinality(DraftsOf(u)) < MaxDrafts
                BY <1>3, <3>3 DEF RoomForDraft
            <4>4. /\ Cardinality(DraftsOf(u)') <= Cardinality(DraftsOf(u) \cup {t})
                  /\ IsFiniteSet(DraftsOf(u)')
                BY <4>1, <4>2, FS_Subset
            <4>5. Cardinality(DraftsOf(u)') \in Nat /\ Cardinality(DraftsOf(u) \cup {t}) \in Nat
                BY <4>2, <4>4, FS_CardinalityType
            <4> QED BY <3>1, <3>2, <4>2, <4>3, <4>4, <4>5
        <3>4. CASE u # requests[r].user
            <4>1. DraftsOf(u)' = DraftsOf(u)
                BY <2>1, <3>4 DEF DraftsOf
            <4> QED BY <4>1 DEF DraftsCapped, DraftCapKept
        <3> QED BY <3>3, <3>4
    <2> QED BY <2>2, <2>3 DEF DraftsCapped, DraftCapKept
<1>4. CASE ~RoomForDraft(requests[r].user)
    BY <1>2, <1>4, CappedSame
<1> QED BY <1>3, <1>4

LEMMA CappedChange ==
    ASSUME DraftTypes, DraftsCapped, NEW s \in spots, CreatorStep(s)
    PROVE  DraftsCapped'
<1>1. PICK t \in Spot : /\ spots' = (spots \ {s}) \cup {t} /\ t.user = s.user
                        /\ t.status = "draft" => s.status = "draft"
    BY CreatorChanges
<1>2. IsFiniteSet(spots')
    BY <1>1, Exchanged DEF DraftsCapped
<1>3. ASSUME NEW u \in Creators PROVE Cardinality(DraftsOf(u)') <= MaxDrafts
    <2>1. IsFiniteSet(DraftsOf(u)) /\ Cardinality(DraftsOf(u)) \in Nat /\ MaxDrafts \in Nat
        BY FiniteDrafts, DraftAssumption
    <2>2. PICK D : /\ DraftsOf(u)' \in SUBSET D /\ IsFiniteSet(D)
                   /\ Cardinality(D) <= Cardinality(DraftsOf(u))
        <3>1. CASE s \in DraftsOf(u)
            <4>1. DraftsOf(u)' \in SUBSET ((DraftsOf(u) \ {s}) \cup {t})
                BY <1>1 DEF DraftsOf
            <4> QED BY <2>1, <3>1, <4>1, Exchanged
        <3>2. CASE s \notin DraftsOf(u)
            <4>1. DraftsOf(u)' \in SUBSET DraftsOf(u)
                BY <1>1, <3>2 DEF DraftsOf
            <4> QED BY <2>1, <4>1
        <3> QED BY <3>1, <3>2
    <2>3. IsFiniteSet(DraftsOf(u)') /\ Cardinality(DraftsOf(u)') <= Cardinality(D)
        BY <2>2, FS_Subset
    <2>4. Cardinality(DraftsOf(u)') \in Nat /\ Cardinality(D) \in Nat
        BY <2>2, <2>3, FS_CardinalityType
    <2>5. Cardinality(DraftsOf(u)) <= MaxDrafts
        BY DEF DraftsCapped, DraftCapKept
    <2> QED BY <2>1, <2>2, <2>3, <2>4, <2>5
<1> QED BY <1>2, <1>3 DEF DraftsCapped, DraftCapKept

(* Every step but those of a creator and the insertion of a draft leaves    *)
(* the Spots alone.                                                         *)
LEMMA SpotsStay ==
    ASSUME [Next]_draftVars
    PROVE  \/ spots' = spots
           \/ \E r \in Requests : CreateDraft(r)
           \/ \E s \in spots : CreatorStep(s)
BY DEF Next, draftVars, Reserve, RateLimited, DraftLimited, ServerStep, Acquire, Derived,
       DerivationFails, Consume, Abandoned, Disconnect, Crash, DraftTick

LEMMA CappedStep == DraftTypes /\ DraftsCapped /\ [Next]_draftVars => DraftsCapped'
BY SpotsStay, CappedSame, CappedCreate, CappedChange

LEMMA CappedInit == Init => DraftsCapped
<1> SUFFICES ASSUME Init PROVE DraftsCapped
    OBVIOUS
<1>1. spots = {} /\ \A u \in Creators : DraftsOf(u) = {}
    BY DEF Init, DraftsOf
<1> QED BY <1>1, FS_EmptySet, DraftAssumption DEF DraftsCapped, DraftCapKept

(* The rows of a user among a set of admissions.                            *)
Of(rows, u) == {a \in rows : a.user = u}

(* A set of admissions within the allowances.                               *)
Allowed(rows) ==
    /\ IsFiniteSet(rows)
    /\ Cardinality(rows) <= GlobalLimit
    /\ \A u \in Creators : Cardinality(Of(rows, u)) <= UserLimit

(* The charged row of a draft: one key, one user, one time of admission.    *)
Covered(rows, x) ==
    \E a \in rows : a.status = "consumed" /\ a.key = x.key /\ a.user = x.user /\ a.at = x.at

RecentlyMade(x) == x.at > clock - Window

(* The rows kept are within the allowances, one per key; the row of a       *)
(* running request is its own; and every recent draft that is not paid for, *)
(* inserted or about to be, still has its charged row.                      *)
Admitted ==
    /\ Allowed(admissions)
    /\ \A a, b \in admissions : a.key = b.key => a = b
    /\ \A r \in Requests, a \in admissions :
         Running(r) /\ a.key = requests[r].key => a.user = requests[r].user /\ a.at = requests[r].at
    /\ \A s \in spots : RecentlyMade(s) /\ ~FullyFunded(s) => Covered(admissions, s)
    /\ \A r \in Requests : requests[r].stage = "charged" /\ RecentlyMade(requests[r])
                           => Covered(admissions, requests[r])

LEMMA FewerAllowed ==
    ASSUME NEW rows, Allowed(rows), NEW fewer \in SUBSET rows
    PROVE  Allowed(fewer)
<1>1. IsFiniteSet(fewer) /\ Cardinality(fewer) <= Cardinality(rows) /\ IsFiniteSet(rows)
    BY FS_Subset DEF Allowed
<1>2. Cardinality(fewer) \in Nat /\ Cardinality(rows) \in Nat /\ GlobalLimit \in Nat /\ UserLimit \in Nat
    BY <1>1, FS_CardinalityType, DraftAssumption
<1>3. ASSUME NEW u \in Creators PROVE Cardinality(Of(fewer, u)) <= UserLimit
    <2>1. Of(rows, u) \in SUBSET rows /\ Of(fewer, u) \in SUBSET Of(rows, u)
        BY DEF Of
    <2>2. IsFiniteSet(Of(rows, u))
        BY <1>1, <2>1, FS_Subset
    <2>3. IsFiniteSet(Of(fewer, u)) /\ Cardinality(Of(fewer, u)) <= Cardinality(Of(rows, u))
        BY <2>1, <2>2, FS_Subset
    <2>4. Cardinality(Of(fewer, u)) \in Nat /\ Cardinality(Of(rows, u)) \in Nat
        BY <2>2, <2>3, FS_CardinalityType
    <2>5. Cardinality(Of(rows, u)) <= UserLimit
        BY DEF Allowed
    <2> QED BY <1>2, <2>3, <2>4, <2>5
<1> QED BY <1>1, <1>2, <1>3 DEF Allowed

(* One more row of a user for whom there is room.                           *)
LEMMA OneMoreAllowed ==
    ASSUME NEW rows, Allowed(rows), NEW u \in Creators, NEW row, row.user = u,
           Cardinality(rows) < GlobalLimit, Cardinality(Of(rows, u)) < UserLimit
    PROVE  Allowed(rows \cup {row})
<1>0. GlobalLimit \in Nat /\ UserLimit \in Nat /\ IsFiniteSet(rows)
    BY DraftAssumption DEF Allowed
<1>1. /\ IsFiniteSet(rows \cup {row})
      /\ Cardinality(rows \cup {row}) <= Cardinality(rows) + 1
      /\ Cardinality(rows) \in Nat /\ Cardinality(rows \cup {row}) \in Nat
    BY <1>0, OneMore
<1>2. ASSUME NEW v \in Creators PROVE Cardinality(Of(rows \cup {row}, v)) <= UserLimit
    <2>1. CASE v = u
        <3>1. Of(rows, u) \in SUBSET rows
            BY DEF Of
        <3>2. IsFiniteSet(Of(rows, u))
            BY <1>0, <3>1, FS_Subset
        <3>3. Of(rows \cup {row}, v) = Of(rows, u) \cup {row}
            BY <2>1 DEF Of
        <3>4. /\ IsFiniteSet(Of(rows, u) \cup {row})
              /\ Cardinality(Of(rows, u) \cup {row}) <= Cardinality(Of(rows, u)) + 1
            BY <3>2, OneMore
        <3>5. Cardinality(Of(rows, u)) \in Nat /\ Cardinality(Of(rows, u) \cup {row}) \in Nat
            BY <3>2, OneMore
        <3>6. Cardinality(Of(rows, u) \cup {row}) <= UserLimit
            BY <1>0, <3>4, <3>5
        <3> QED BY <3>3, <3>6
    <2>2. CASE v # u
        <3>1. Of(rows \cup {row}, v) = Of(rows, v)
            BY <2>2 DEF Of
        <3> QED BY <3>1 DEF Allowed
    <2> QED BY <2>1, <2>2
<1>3. Cardinality(rows \cup {row}) <= GlobalLimit
    BY <1>0, <1>1
<1> QED BY <1>1, <1>2, <1>3 DEF Allowed

(* A row is replaced by one of the same user.                               *)
LEMMA ReplacedAllowed ==
    ASSUME NEW rows, Allowed(rows), NEW old \in rows, NEW row, row.user = old.user
    PROVE  Allowed((rows \ {old}) \cup {row})
<1> DEFINE T == (rows \ {old}) \cup {row}
<1>0. GlobalLimit \in Nat /\ UserLimit \in Nat /\ IsFiniteSet(rows)
    BY DraftAssumption DEF Allowed
<1>1. IsFiniteSet(T) /\ Cardinality(T) <= Cardinality(rows)
    BY <1>0, Exchanged
<1>2. Cardinality(T) \in Nat /\ Cardinality(rows) \in Nat
    BY <1>0, <1>1, FS_CardinalityType
<1>3. ASSUME NEW v \in Creators PROVE Cardinality(Of(T, v)) <= UserLimit
    <2>1. Of(rows, v) \in SUBSET rows
        BY DEF Of
    <2>2. IsFiniteSet(Of(rows, v))
        BY <1>0, <2>1, FS_Subset
    <2>3. CASE v = old.user
        <3>1. Of(T, v) = (Of(rows, v) \ {old}) \cup {row} /\ old \in Of(rows, v)
            BY <2>3 DEF Of
        <3>2. IsFiniteSet(Of(T, v)) /\ Cardinality(Of(T, v)) <= Cardinality(Of(rows, v))
            BY <2>2, <3>1, Exchanged
        <3>3. Cardinality(Of(T, v)) \in Nat /\ Cardinality(Of(rows, v)) \in Nat
            BY <2>2, <3>2, FS_CardinalityType
        <3>4. Cardinality(Of(rows, v)) <= UserLimit
            BY DEF Allowed
        <3> QED BY <1>0, <3>2, <3>3, <3>4
    <2>4. CASE v # old.user
        <3>1. Of(T, v) = Of(rows, v)
            BY <2>4 DEF Of
        <3> QED BY <3>1 DEF Allowed
    <2> QED BY <2>3, <2>4
<1>4. Cardinality(T) <= GlobalLimit
    <2>1. Cardinality(rows) <= GlobalLimit
        BY DEF Allowed
    <2> HIDE DEF T
    <2> QED BY <1>0, <1>1, <1>2, <2>1
<1> QED BY <1>1, <1>3, <1>4 DEF Allowed

(* Pruning keeps the charged row of whatever is recent and of no Spot that  *)
(* is paid for.                                                             *)
LEMMA PruningKeeps ==
    ASSUME DraftTypes, NEW x, RecentlyMade(x), Covered(admissions, x),
           \A s \in spots : s.key = x.key => ~FullyFunded(s)
    PROVE  Covered(Countable, x)
<1>1. PICK a \in admissions :
          a.status = "consumed" /\ a.key = x.key /\ a.user = x.user /\ a.at = x.at
    BY DEF Covered
<1>2. a \in Released(admissions)
    BY <1>1 DEF Released
<1>3. a \in Countable
    BY <1>1, <1>2 DEF Countable, Live, RecentlyMade
<1> QED BY <1>1, <1>3 DEF Covered

LEMMA PrunedCovers ==
    ASSUME DraftTypes, KeysTaken, Admitted
    PROVE  /\ \A s \in spots : RecentlyMade(s) /\ ~FullyFunded(s) => Covered(Countable, s)
           /\ \A r \in Requests : requests[r].stage = "charged" /\ RecentlyMade(requests[r])
                                  => Covered(Countable, requests[r])
           /\ Allowed(Countable)
<1>1. ASSUME NEW s \in spots, RecentlyMade(s), ~FullyFunded(s) PROVE Covered(Countable, s)
    <2>1. \A t \in spots : t.key = s.key => ~FullyFunded(t)
        BY <1>1 DEF KeysTaken
    <2>2. Covered(admissions, s)
        BY <1>1 DEF Admitted
    <2> QED BY <1>1, <2>1, <2>2, PruningKeeps
<1>2. ASSUME NEW r \in Requests, requests[r].stage = "charged", RecentlyMade(requests[r])
      PROVE  Covered(Countable, requests[r])
    <2>1. \A t \in spots : t.key = requests[r].key => ~FullyFunded(t)
        BY <1>2 DEF KeysTaken, Running
    <2>2. Covered(admissions, requests[r])
        BY <1>2 DEF Admitted
    <2> QED BY <1>2, <2>1, <2>2, PruningKeeps
<1>3. Allowed(Countable)
    <2>1. Countable \in SUBSET admissions
        BY CountableRows
    <2> QED BY <2>1, FewerAllowed DEF Admitted
<1> QED BY <1>1, <1>2, <1>3

(* A step that keeps what running requests hold and charges none.           *)
LEMMA AdmittedGoesOn ==
    ASSUME Admitted, clock' = clock, spots' = spots, admissions' = admissions,
           \A q \in Requests : /\ Running(q)' => Running(q)
                               /\ requests'[q].stage = "charged" => requests[q].stage = "charged"
                               /\ requests'[q].key = requests[q].key
                               /\ requests'[q].user = requests[q].user
                               /\ requests'[q].at = requests[q].at
    PROVE  Admitted'
<1>1. \A q \in Requests : requests'[q].stage = "charged" /\ RecentlyMade(requests[q])'
                          => Covered(admissions, requests'[q])
    BY DEF Admitted, RecentlyMade, Covered
<1> QED BY <1>1 DEF Admitted, Allowed, Of, Covered, RecentlyMade, FullyFunded

LEMMA AdmittedCreate ==
    ASSUME DraftTypes, KeysTaken, Admitted, NEW r \in Requests, NEW u \in Creators,
           Reserve(r, u) \/ RateLimited(r, u) \/ DraftLimited(r, u)
    PROVE  Admitted'
<1>1. CASE Reserve(r, u)
    <2>1. PICK row : row = [key |-> nextKey, user |-> u, status |-> "pending", at |-> clock]
        OBVIOUS
    <2>2. row.key = nextKey /\ row.user = u /\ row.at = clock
        BY <2>1
    <2>3. /\ UNCHANGED <<clock, spots>> /\ requests[r].stage = "new"
          /\ admissions' = Countable \cup {row} /\ Admissible(u)
        BY <1>1, <2>1 DEF Reserve, NextKey
    <2>4. Allowed(admissions')
        <3>1. Cardinality(Of(Countable, u)) < UserLimit /\ Cardinality(Countable) < GlobalLimit
            BY <2>3 DEF Admissible, Of
        <3> QED BY <2>2, <2>3, <3>1, PrunedCovers, OneMoreAllowed
    <2>5. \A a \in Countable : a \in admissions /\ a.key # nextKey
        BY CountableRows DEF KeysTaken, DraftTypes, Admission
    <2>6. \A a, b \in admissions' : a.key = b.key => a = b
        BY <2>2, <2>3, <2>5 DEF Admitted
    <2>7. /\ requests'[r].stage = "queued" /\ requests'[r].key = nextKey
          /\ requests'[r].user = u /\ requests'[r].at = clock
          /\ \A q \in Requests : q # r => requests'[q] = requests[q]
        BY <1>1, ReserveRequests
    <2>8. \A q \in Requests, a \in admissions' :
              Running(q)' /\ a.key = requests'[q].key
              => a.user = requests'[q].user /\ a.at = requests'[q].at
        <3>1. ASSUME NEW q \in Requests, NEW a \in admissions', Running(q)',
                     a.key = requests'[q].key, q # r
              PROVE  a.user = requests'[q].user /\ a.at = requests'[q].at
            <4>1. Running(q) /\ requests'[q] = requests[q]
                BY <2>7, <3>1 DEF Running
            <4>2. requests[q].key < nextKey /\ nextKey \in Nat
                BY <4>1 DEF KeysTaken, DraftTypes
            <4>3. a \in Countable
                BY <2>2, <2>3, <3>1, <4>1, <4>2
            <4> QED BY <2>5, <3>1, <4>1, <4>3 DEF Admitted
        <3>2. ASSUME NEW a \in admissions', a.key = requests'[r].key
              PROVE  a.user = requests'[r].user /\ a.at = requests'[r].at
            <4>1. a = row
                BY <2>3, <2>5, <2>7, <3>2
            <4> QED BY <2>2, <2>7, <4>1
        <3> QED BY <3>1, <3>2
    <2>9. \A s \in spots : RecentlyMade(s)' /\ ~FullyFunded(s) => Covered(admissions', s)
        BY <2>3, PrunedCovers DEF Covered, RecentlyMade
    <2>10. \A q \in Requests : requests'[q].stage = "charged" /\ RecentlyMade(requests[q])'
                               => Covered(admissions', requests'[q])
        <3>1. ASSUME NEW q \in Requests, requests'[q].stage = "charged", RecentlyMade(requests[q])'
              PROVE  Covered(admissions', requests'[q])
            <4>1. q # r
                BY <2>7, <3>1
            <4>2. requests'[q] = requests[q] /\ RecentlyMade(requests[q])
                BY <2>3, <2>7, <3>1, <4>1 DEF RecentlyMade
            <4>3. Covered(Countable, requests[q])
                BY <3>1, <4>2, PrunedCovers
            <4> QED BY <2>3, <4>2, <4>3 DEF Covered
        <3> QED BY <3>1
    <2> QED BY <2>3, <2>4, <2>6, <2>8, <2>9, <2>10 DEF Admitted, Allowed, Of, Covered, RecentlyMade, FullyFunded
<1>2. CASE RateLimited(r, u)
    <2>1. /\ admissions' = Countable /\ Step(r, "done") /\ UNCHANGED <<clock, spots>>
        BY <1>2 DEF RateLimited
    <2>2. /\ requests'[r].stage = "done"
          /\ \A q \in Requests : q # r => requests'[q] = requests[q]
        BY <2>1, StepType DEF Stages
    <2>3. \A q \in Requests, a \in Countable :
              Running(q)' /\ a.key = requests'[q].key
              => a.user = requests'[q].user /\ a.at = requests'[q].at
        BY <2>2, CountableRows DEF Admitted, Running
    <2>4. \A q \in Requests : requests'[q].stage = "charged" /\ RecentlyMade(requests[q])'
                               => Covered(Countable, requests'[q])
        <3>1. ASSUME NEW q \in Requests, requests'[q].stage = "charged", RecentlyMade(requests[q])'
              PROVE  Covered(Countable, requests'[q])
            <4>1. requests'[q] = requests[q] /\ RecentlyMade(requests[q])
                BY <2>1, <2>2, <3>1 DEF RecentlyMade
            <4> QED BY <3>1, <4>1, PrunedCovers
        <3> QED BY <3>1
    <2>5. \A s \in spots : RecentlyMade(s)' /\ ~FullyFunded(s) => Covered(Countable, s)
        BY <2>1, PrunedCovers DEF RecentlyMade
    <2>6. \A a, b \in Countable : a.key = b.key => a = b
        BY CountableRows DEF Admitted
    <2> QED BY <2>1, <2>3, <2>4, <2>5, <2>6, PrunedCovers DEF Admitted, Allowed, Of, Covered, RecentlyMade, FullyFunded
<1>3. CASE DraftLimited(r, u)
    <2>1. Step(r, "done") /\ UNCHANGED <<clock, admissions, spots>>
        BY <1>3 DEF DraftLimited
    <2> QED BY <2>1, StepType, AdmittedGoesOn DEF Running, Stages
<1> QED BY <1>1, <1>2, <1>3

LEMMA AdmittedConsume ==
    ASSUME DraftTypes, KeysTaken, Admitted, NEW r \in Requests, Consume(r)
    PROVE  Admitted'
<1>1. /\ UNCHANGED <<clock, spots>> /\ requests[r].stage = "derived" /\ Running(r)
      /\ Step(r, IF PendingRow(r) # {} THEN "charged" ELSE "done")
    BY DEF Consume, Running
<1>2. CASE PendingRow(r) = {}
    <2>1. admissions' = admissions /\ Step(r, "done")
        BY <1>1, <1>2 DEF Consume
    <2> QED BY <1>1, <2>1, StepType, AdmittedGoesOn DEF Running, Stages
<1>3. CASE PendingRow(r) # {}
    <2>1. PICK a \in PendingRow(r) : TRUE
        BY <1>3
    <2>2. /\ a \in admissions /\ a \in Admission /\ a.status = "pending"
          /\ a.key = requests[r].key /\ a.user = requests[r].user /\ a.at = requests[r].at
        BY <1>1, <2>1 DEF PendingRow, DraftTypes, Admitted
    <2>3. PendingRow(r) = {a}
        BY <2>1, <2>2 DEF PendingRow, Admitted
    <2>4. PICK c : c = [a EXCEPT !.status = "consumed"]
        OBVIOUS
    <2>5. c.key = a.key /\ c.user = a.user /\ c.at = a.at /\ c.status = "consumed"
        BY <2>2, <2>4, ConsumedRow
    <2>6. admissions' = (admissions \ {a}) \cup {c}
        BY <2>3, <2>4 DEF Consume
    <2>7. /\ requests'[r].stage = "charged" /\ requests'[r].key = requests[r].key
          /\ requests'[r].user = requests[r].user /\ requests'[r].at = requests[r].at
          /\ \A q \in Requests : q # r => requests'[q] = requests[q]
        <3>1. Step(r, "charged")
            BY <1>1, <1>3
        <3> QED BY <3>1, StepType DEF Stages
    <2>8. Allowed(admissions')
        BY <2>2, <2>5, <2>6, ReplacedAllowed DEF Admitted
    <2>9. \A b, d \in admissions' : b.key = d.key => b = d
        BY <2>2, <2>5, <2>6 DEF Admitted
    <2>10. \A q \in Requests, b \in admissions' :
              Running(q)' /\ b.key = requests'[q].key
              => b.user = requests'[q].user /\ b.at = requests'[q].at
        <3>1. \A q \in Requests : /\ Running(q)' => Running(q)
                                  /\ requests'[q].key = requests[q].key
                                  /\ requests'[q].user = requests[q].user
                                  /\ requests'[q].at = requests[q].at
            BY <1>1, <2>7 DEF Running
        <3>2. \A b \in admissions' : \E d \in admissions : b.key = d.key /\ b.user = d.user /\ b.at = d.at
            BY ConsumedRows
        <3> QED BY <3>1, <3>2 DEF Admitted
    <2>11. ASSUME NEW x, Covered(admissions, x) PROVE Covered(admissions', x)
        <3>1. PICK b \in admissions :
                  b.status = "consumed" /\ b.key = x.key /\ b.user = x.user /\ b.at = x.at
            BY <2>11 DEF Covered
        <3>2. b \in admissions'
            BY <2>2, <2>6, <3>1
        <3> QED BY <3>1, <3>2 DEF Covered
    <2>12. \A s \in spots : RecentlyMade(s)' /\ ~FullyFunded(s) => Covered(admissions', s)
        BY <1>1, <2>11 DEF Admitted, RecentlyMade
    <2>13. \A q \in Requests : requests'[q].stage = "charged" /\ RecentlyMade(requests[q])'
                               => Covered(admissions', requests'[q])
        <3>1. ASSUME NEW q \in Requests, requests'[q].stage = "charged", RecentlyMade(requests[q])', q # r
              PROVE  Covered(admissions', requests'[q])
            <4>1. requests'[q] = requests[q] /\ RecentlyMade(requests[q])
                BY <1>1, <2>7, <3>1 DEF RecentlyMade
            <4>2. Covered(admissions, requests[q])
                BY <3>1, <4>1 DEF Admitted
            <4> QED BY <2>11, <4>1, <4>2
        <3>2. Covered(admissions', requests'[r])
            BY <2>2, <2>5, <2>6, <2>7 DEF Covered
        <3> QED BY <3>1, <3>2
    <2> QED BY <1>1, <2>8, <2>9, <2>10, <2>12, <2>13
            DEF Admitted, Allowed, Of, Covered, RecentlyMade, FullyFunded
<1> QED BY <1>2, <1>3

LEMMA AdmittedInsert ==
    ASSUME DraftTypes, KeysTaken, Admitted, NEW r \in Requests, CreateDraft(r)
    PROVE  Admitted'
<1>1. UNCHANGED <<clock, admissions>> /\ requests[r].stage = "charged" /\ Step(r, "done")
    BY DEF CreateDraft
<1>2. PICK t : t = [key |-> requests[r].key, by |-> r, user |-> requests[r].user,
                    at |-> requests[r].at, status |-> "draft", value |-> 1,
                    pending |-> 0, confirmed |-> 0, history |-> FALSE]
    OBVIOUS
<1>3. t.key = requests[r].key /\ t.user = requests[r].user /\ t.at = requests[r].at
    BY <1>2
<1>4. spots' = spots \cup {t} \/ spots' = spots
    BY <1>2, Zenon DEF CreateDraft
<1>5. requests'[r].stage = "done" /\ \A q \in Requests : q # r => requests'[q] = requests[q]
    BY <1>1, StepType DEF Stages
<1>6. RecentlyMade(t) => Covered(admissions, t)
    <2>1. RecentlyMade(requests[r]) => Covered(admissions, requests[r])
        BY <1>1 DEF Admitted
    <2> QED BY <1>3, <2>1 DEF RecentlyMade, Covered
<1>7. \A s \in spots' : RecentlyMade(s)' /\ ~FullyFunded(s) => Covered(admissions', s)
    <2>1. \A s \in spots : RecentlyMade(s) /\ ~FullyFunded(s) => Covered(admissions, s)
        BY DEF Admitted
    <2>2. \A s : RecentlyMade(s)' <=> RecentlyMade(s)
        BY <1>1 DEF RecentlyMade
    <2> QED BY <1>1, <1>4, <1>6, <2>1, <2>2
<1>8. \A q \in Requests : requests'[q].stage = "charged" /\ RecentlyMade(requests[q])'
                          => Covered(admissions', requests'[q])
    <2>1. ASSUME NEW q \in Requests, requests'[q].stage = "charged", RecentlyMade(requests[q])'
          PROVE  Covered(admissions, requests'[q])
        <3>1. requests'[q] = requests[q] /\ RecentlyMade(requests[q])
            BY <1>1, <1>5, <2>1 DEF RecentlyMade
        <3> QED BY <2>1, <3>1 DEF Admitted
    <2> QED BY <1>1, <2>1
<1>9. \A q \in Requests, a \in admissions :
          Running(q)' /\ a.key = requests'[q].key
          => a.user = requests'[q].user /\ a.at = requests'[q].at
    BY <1>5 DEF Admitted, Running
<1> QED BY <1>1, <1>7, <1>8, <1>9 DEF Admitted, Allowed, Of, Covered, RecentlyMade, FullyFunded

LEMMA AdmittedChange ==
    ASSUME DraftTypes, KeysTaken, Admitted, NEW s \in spots, CreatorStep(s)
    PROVE  Admitted'
<1>1. UNCHANGED <<clock, nextKey, admissions, slots, requests>>
    BY CreatorChanges
<1>2. PICK t \in Spot : /\ spots' = (spots \ {s}) \cup {t}
                        /\ t.key = s.key /\ t.user = s.user /\ t.at = s.at
                        /\ FullyFunded(s) => FullyFunded(t)
    BY CreatorChanges
<1>3. RecentlyMade(t) /\ ~FullyFunded(t) => Covered(admissions, t)
    <2>1. RecentlyMade(s) /\ ~FullyFunded(s) => Covered(admissions, s)
        BY DEF Admitted
    <2> QED BY <1>2, <2>1 DEF RecentlyMade, Covered
<1>4. \A x \in spots' : RecentlyMade(x)' /\ ~FullyFunded(x) => Covered(admissions', x)
    <2>1. \A x \in spots : RecentlyMade(x) /\ ~FullyFunded(x) => Covered(admissions, x)
        BY DEF Admitted
    <2>2. \A x : RecentlyMade(x)' <=> RecentlyMade(x)
        BY <1>1 DEF RecentlyMade
    <2> QED BY <1>1, <1>2, <1>3, <2>1, <2>2
<1> QED BY <1>1, <1>4 DEF Admitted, Allowed, Of, Covered, RecentlyMade, FullyFunded, Running

LEMMA AdmittedStep == DraftTypes /\ KeysTaken /\ Admitted /\ [Next]_draftVars => Admitted'
<1> SUFFICES ASSUME DraftTypes, KeysTaken, Admitted, [Next]_draftVars PROVE Admitted'
    OBVIOUS
<1>1. CASE \E r \in Requests, u \in Creators :
             Reserve(r, u) \/ RateLimited(r, u) \/ DraftLimited(r, u)
    BY <1>1, AdmittedCreate
<1>2. ASSUME NEW r \in Requests, ServerStep(r) PROVE Admitted'
    <2>1. CASE Acquire(r) \/ Derived(r) \/ DerivationFails(r) \/ Abandoned(r)
        <3>1. PICK stage \in Stages \ {"charged"} :
                  Running(r) /\ Step(r, stage) /\ UNCHANGED <<clock, admissions, spots>>
            BY <2>1 DEF Acquire, Derived, DerivationFails, Abandoned, Running, Stages
        <3> QED BY <3>1, StepType, AdmittedGoesOn DEF Running
    <2> QED BY <1>2, <2>1, AdmittedConsume, AdmittedInsert DEF ServerStep
<1>3. ASSUME NEW r \in Requests, Disconnect(r) PROVE Admitted'
    BY <1>3, DisconnectRequests, AdmittedGoesOn DEF Running
<1>4. ASSUME NEW s \in spots, CreatorStep(s) PROVE Admitted'
    BY <1>4, AdmittedChange
<1>5. CASE Crash
    <2>1. \A r \in Requests : ~Running(r)' /\ requests'[r].stage # "charged"
        BY <1>5, CrashRequests DEF Running
    <2> QED BY <1>5, <2>1, CrashRequests DEF Admitted, Allowed, Of, Covered, RecentlyMade, FullyFunded
<1>6. CASE DraftTick
    <2>1. clock' = clock + 1 /\ UNCHANGED <<admissions, requests, spots>>
        BY <1>6 DEF DraftTick
    <2>2. clock \in Nat /\ Window \in Nat
        BY DraftAssumption DEF DraftTypes
    <2>3. \A s \in spots : RecentlyMade(s)' => RecentlyMade(s)
        BY <2>1, <2>2 DEF RecentlyMade, DraftTypes, Spot
    <2>4. \A r \in Requests : RecentlyMade(requests[r])' => RecentlyMade(requests[r])
        BY <2>1, <2>2 DEF RecentlyMade, DraftTypes, RequestRows
    <2> QED BY <2>1, <2>3, <2>4 DEF Admitted, Allowed, Of, Covered, FullyFunded, Running
<1>7. CASE UNCHANGED draftVars
    BY <1>7 DEF draftVars, Admitted, Allowed, Of, Covered, RecentlyMade, FullyFunded, Running
<1> QED BY <1>1, <1>2, <1>3, <1>4, <1>5, <1>6, <1>7, Zenon DEF Next

LEMMA AdmittedInit == Init => Admitted
<1> SUFFICES ASSUME Init PROVE Admitted
    OBVIOUS
<1>1. /\ admissions = {} /\ spots = {} /\ \A r \in Requests : requests[r].stage = "new"
      /\ \A u \in Creators : Of(admissions, u) = {}
    BY DEF Init, Of, NewRequest
<1>2. Allowed(admissions)
    BY <1>1, FS_EmptySet, DraftAssumption DEF Allowed
<1> QED BY <1>1, <1>2 DEF Admitted, Running

(* Every draft of the window that nobody paid for has its own charged row.  *)
LEMMA UnpaidCounted == DraftTypes /\ KeysTaken /\ DraftsCapped /\ Admitted => AdmissionsBounded
<1> SUFFICES ASSUME DraftTypes, KeysTaken, DraftsCapped, Admitted PROVE AdmissionsBounded
    OBVIOUS
<1>1. GlobalLimit \in Nat /\ UserLimit \in Nat /\ IsFiniteSet(admissions)
    BY DraftAssumption DEF Admitted, Allowed
<1>2. ASSUME NEW S \in SUBSET Unpaid, NEW T \in SUBSET admissions,
             \A s \in S, a \in admissions : a.user = s.user => a \in T
      PROVE  Cardinality(S) <= Cardinality(T) /\ Cardinality(S) \in Nat /\ Cardinality(T) \in Nat
    <2>1. S \in SUBSET spots
        BY DEF Unpaid
    <2>2. IsFiniteSet(S) /\ IsFiniteSet(T)
        BY <1>1, <2>1, FS_Subset DEF DraftsCapped
    <2>3. \A x, y \in S : x.key = y.key => x = y
        BY <2>1 DEF KeysTaken
    <2>4. \A x \in S : \E y \in T : y.key = x.key
        BY <1>2, <2>1 DEF Unpaid, Admitted, Covered, RecentlyMade
    <2> QED BY <2>2, <2>3, <2>4, KeyedCount, FS_CardinalityType
<1>3. Cardinality(Unpaid) <= GlobalLimit
    <2>1. Cardinality(Unpaid) <= Cardinality(admissions) /\ Cardinality(Unpaid) \in Nat
          /\ Cardinality(admissions) \in Nat
        BY <1>2
    <2>2. Cardinality(admissions) <= GlobalLimit
        BY DEF Admitted, Allowed
    <2> QED BY <1>1, <2>1, <2>2
<1>4. ASSUME NEW u \in Creators PROVE Cardinality({s \in Unpaid : s.user = u}) <= UserLimit
    <2>1. PICK S : S = {s \in Unpaid : s.user = u}
        OBVIOUS
    <2>2. PICK T : T = Of(admissions, u)
        OBVIOUS
    <2>3. S \in SUBSET Unpaid /\ T \in SUBSET admissions
          /\ \A s \in S, a \in admissions : a.user = s.user => a \in T
        BY <2>1, <2>2 DEF Of
    <2>4. Cardinality(S) <= Cardinality(T) /\ Cardinality(S) \in Nat /\ Cardinality(T) \in Nat
        BY <1>2, <2>3
    <2>5. Cardinality(T) <= UserLimit
        BY <2>2 DEF Admitted, Allowed
    <2>6. Cardinality(S) <= UserLimit
        BY <1>1, <2>4, <2>5
    <2> QED BY <2>1, <2>6
<1> QED BY <1>3, <1>4 DEF AdmissionsBounded

(* However creations interleave, fail, are deleted or lost, no user holds   *)
(* more drafts than allowed, and the drafts of one window that nobody paid  *)
(* for stay within the user's and the global allowance                      *)
(* (db_access.py: reserve, consume and create of a draft).                  *)
THEOREM DraftBudgets == Spec => []DraftBudgetsKept
<1>1. Init => DraftTypes /\ KeysTaken /\ DraftsCapped /\ Admitted
    BY TypesInit, KeysInit, CappedInit, AdmittedInit
<1>2. DraftTypes /\ KeysTaken /\ DraftsCapped /\ Admitted /\ [Next]_draftVars
      => (DraftTypes /\ KeysTaken /\ DraftsCapped /\ Admitted)'
    BY TypesStep, KeysStep, CappedStep, AdmittedStep
<1>3. DraftTypes /\ KeysTaken /\ DraftsCapped /\ Admitted => DraftBudgetsKept
    BY UnpaidCounted DEF DraftsCapped, DraftBudgetsKept
<1> QED BY <1>1, <1>2, <1>3, PTL DEF Spec

-----------------------------------------------------------------------------
(***************************************************************************)
(* Claims.  Every rule is stated of a list of claims, because a request    *)
(* promotes a claim in the list it has just appended it to.                *)
(***************************************************************************)
DecidedStates == {"success", "failed"}

(* The rows, and what limits and codes rest on: a claim with a password     *)
(* names a code of its Spot, and an immediate claim never waits.            *)
GoodRows(rows, at) ==
    /\ rows \in Seq(ClaimRows)
    /\ \A c \in DOMAIN rows :
          /\ rows[c].at <= rows[c].seen /\ rows[c].seen <= at /\ rows[c].score <= Score
          /\ UsePassword(rows[c].spot) => rows[c].code # NoCode

WaitsForTime(rows) ==
    \A c \in DOMAIN rows : rows[c].status = "pending" => Duration[rows[c].spot] > 0

CodesSpent(rows, used) ==
    /\ used \in [Codes -> {0} \cup DOMAIN rows]
    /\ \A k \in Codes : used[k] # 0 => rows[used[k]].status = "success" /\ rows[used[k]].code = k
    /\ \A c \in DOMAIN rows :
          rows[c].status = "success" /\ UsePassword(rows[c].spot) => used[rows[c].code] = c

SucceededAt(rows, s, w) == OfWallet(rows, w) \cap Successes(rows, s)

WalletsHeld(rows) ==
    \A s \in Spots, w \in {WalletOf[u] : u \in Users} :
        PerUser[s] > 0 => Cardinality(SucceededAt(rows, s, w)) <= PerUser[s]

Begun(rows, w, t) == {c \in OfWallet(rows, w) : rows[c].at \in (t + 1 - Hour)..t}

HoursHeld(rows, at) ==
    \A w \in {WalletOf[u] : u \in Users}, t \in 0..at : Cardinality(Begun(rows, w, t)) <= HourlyLimit

Full(rows, s) == Capacity[s] > 0 /\ Cardinality(Successes(rows, s)) >= Capacity[s]

NoneWaitsWhenFull(rows) ==
    \A s \in Spots : Full(rows, s) =>
        \A c \in DOMAIN rows : rows[c].spot = s => rows[c].status # "pending"

GapsShort(rows) == \A c \in DOMAIN rows : rows[c].status # "failed" => rows[c].gap <= StaleAfter

ClaimsInv ==
    /\ now \in 0..MaxTime /\ cancelling \subseteq Spots /\ cancelled \subseteq cancelling
    /\ GoodRows(claims, now) /\ WaitsForTime(claims) /\ CodesSpent(claims, usedBy)
    /\ WalletsHeld(claims) /\ HoursHeld(claims, now)
    /\ NoneWaitsWhenFull(claims) /\ GapsShort(claims)

(***************************************************************************)
(* What a promotion leaves behind: claim c is decided, and nothing else    *)
(* happens but that other claims waiting at the same Spot may fail.        *)
(***************************************************************************)
Fails(x, y) ==
    /\ x.status = "pending" /\ y.status = "failed"
    /\ y = [x EXCEPT !.status = "failed", !.seen = y.seen] /\ y.seen \in {x.seen, now}

Decides(rows, c, after) ==
    /\ after \in Seq(ClaimRows) /\ DOMAIN after = DOMAIN rows
    /\ \E st \in DecidedStates : after[c] = [rows[c] EXCEPT !.status = st]
    /\ \A d \in DOMAIN rows \ {c} :
          after[d] = rows[d] \/ (rows[d].spot = rows[c].spot /\ Fails(rows[d], after[d]))

(* It succeeds only where there is room, and nobody waits at a full Spot    *)
(* afterwards.                                                              *)
KeepsCapacity(rows, c, after) ==
    LET s == rows[c].spot
    IN /\ after[c].status = "success" /\ Capacity[s] > 0 => Cardinality(Successes(rows, s)) < Capacity[s]
       /\ after[c].status = "success" /\ Duration[s] > 0 /\ Full(after, s) =>
             \A d \in DOMAIN after : after[d].spot = s => after[d].status # "pending"

(* It succeeds only with a code that is free, which it spends.              *)
KeepsCode(rows, used, c, out) ==
    LET k == rows[c].code
    IN IF k # NoCode /\ out.rows[c].status = "success"
       THEN used[k] \in {0, c} /\ out.used = [used EXCEPT ![k] = c]
       ELSE out.used = used

LEMMA RowsAre ==
    ASSUME NEW rows \in Seq(ClaimRows)
    PROVE  /\ Len(rows) \in Nat /\ DOMAIN rows = 1..Len(rows) /\ IsFiniteSet(DOMAIN rows)
           /\ \A c \in DOMAIN rows : rows[c] \in ClaimRows
           /\ \A s : IsFiniteSet(Successes(rows, s)) /\ Cardinality(Successes(rows, s)) \in Nat
<1>1. Len(rows) \in Nat /\ DOMAIN rows = 1..Len(rows) /\ \A c \in DOMAIN rows : rows[c] \in ClaimRows
    BY LenProperties
<1>2. IsFiniteSet(DOMAIN rows)
    BY <1>1, FS_Interval
<1>3. ASSUME NEW s PROVE IsFiniteSet(Successes(rows, s)) /\ Cardinality(Successes(rows, s)) \in Nat
    BY <1>2, FS_Subset, FS_CardinalityType DEF Successes
<1> QED BY <1>1, <1>2, <1>3

LEMMA SetIs ==
    ASSUME NEW rows \in Seq(ClaimRows), NEW c \in DOMAIN rows, NEW st \in DecidedStates, rows[c].status = "pending"
    PROVE  /\ Decides(rows, c, Set(rows, c, st))
           /\ Set(rows, c, st)[c].status = st
           /\ \A d \in DOMAIN rows \ {c} : Set(rows, c, st)[d] = rows[d]
<1> DEFINE after == Set(rows, c, st)
<1>1. Len(rows) \in Nat /\ DOMAIN rows = 1..Len(rows) /\ rows[c] \in ClaimRows
    BY RowsAre
<1>2. after = [rows EXCEPT ![c] = [rows[c] EXCEPT !.status = st]]
    BY DEF Set
<1>3. [rows[c] EXCEPT !.status = st] \in ClaimRows
    BY <1>1 DEF ClaimRows, DecidedStates
<1>4. after \in Seq(ClaimRows) /\ Len(after) = Len(rows)
    BY <1>1, <1>2, <1>3, ExceptSeq
<1>5. after[c].status = st
    BY <1>1, <1>2 DEF ClaimRows
<1> QED BY <1>1, <1>2, <1>3, <1>4, <1>5 DEF Decides

LEMMA CleanupIs ==
    ASSUME NEW rows \in Seq(ClaimRows), NEW s \in Spots, now \in Nat
    PROVE  /\ Cleanup(rows, s) \in Seq(ClaimRows) /\ DOMAIN Cleanup(rows, s) = DOMAIN rows
           /\ \A d \in DOMAIN rows :
                 \/ Cleanup(rows, s)[d] = rows[d]
                 \/ rows[d].spot = s /\ Fails(rows[d], Cleanup(rows, s)[d])
           /\ Duration[s] > 0 /\ Full(rows, s) =>
                 \A d \in DOMAIN rows : rows[d].spot = s => Cleanup(rows, s)[d].status # "pending"
<1>1. CASE Duration[s] > 0 /\ Full(rows, s)
    <2> DEFINE e(d) == IF rows[d].spot = s /\ rows[d].status = "pending"
                       THEN [rows[d] EXCEPT !.status = "failed", !.seen = now] ELSE rows[d]
               f == [d \in DOMAIN rows |-> e(d)]
    <2>1. Cleanup(rows, s) = f
        BY <1>1 DEF Cleanup, Full
    <2>2. Len(rows) \in Nat /\ DOMAIN rows = 1..Len(rows)
        BY RowsAre
    <2>3. ASSUME NEW d \in DOMAIN rows
          PROVE  /\ e(d) \in ClaimRows /\ (e(d) = rows[d] \/ (rows[d].spot = s /\ Fails(rows[d], e(d))))
                 /\ rows[d].spot = s => e(d).status # "pending"
        <3>1. rows[d] \in ClaimRows
            BY RowsAre
        <3> QED BY <3>1 DEF ClaimRows, Fails
    <2>4. f \in Seq(ClaimRows)
        <3> HIDE DEF e
        <3> QED BY <2>2, <2>3
    <2> HIDE DEF e
    <2> QED BY <2>1, <2>3, <2>4
<1>2. CASE ~(Duration[s] > 0 /\ Full(rows, s))
    BY <1>2 DEF Cleanup, Full
<1> QED BY <1>1, <1>2

LEMMA PromoteCapacityIs ==
    ASSUME NEW rows \in Seq(ClaimRows), NEW c \in DOMAIN rows, rows[c].status = "pending", now \in Nat
    PROVE  Decides(rows, c, PromoteCapacity(rows, c)) /\ KeepsCapacity(rows, c, PromoteCapacity(rows, c))
<1> DEFINE s == rows[c].spot
           won == Set(rows, c, "success")
           after == PromoteCapacity(rows, c)
<1>0. rows[c] \in ClaimRows /\ s \in Spots /\ Capacity[s] \in Nat
    BY RowsAre, AdmissionAssumption DEF ClaimRows
<1>1. CASE Capacity[s] = 0 \/ Cardinality(Successes(rows, s)) < Capacity[s]
    <2>1. after = Cleanup(won, s)
        BY <1>1 DEF PromoteCapacity
    <2>2. /\ Decides(rows, c, won) /\ won[c].status = "success"
          /\ \A d \in DOMAIN rows \ {c} : won[d] = rows[d]
        BY SetIs DEF DecidedStates
    <2>3. won \in Seq(ClaimRows) /\ DOMAIN won = DOMAIN rows
        BY <2>2 DEF Decides
    <2>4. /\ after \in Seq(ClaimRows) /\ DOMAIN after = DOMAIN won
          /\ \A d \in DOMAIN won : after[d] = won[d] \/ (won[d].spot = s /\ Fails(won[d], after[d]))
          /\ Duration[s] > 0 /\ Full(won, s) => \A d \in DOMAIN won : won[d].spot = s => after[d].status # "pending"
        BY <1>0, <2>1, <2>3, CleanupIs
    <2>5. after[c] = won[c]
        BY <2>2, <2>3, <2>4 DEF Fails
    <2>6. Decides(rows, c, after)
        BY <2>2, <2>3, <2>4, <2>5 DEF Decides
    <2>7. \A d \in DOMAIN after : after[d].spot = won[d].spot /\ (after[d].status = "success" <=> won[d].status = "success")
        <3> SUFFICES ASSUME NEW d \in DOMAIN after
                     PROVE  after[d].spot = won[d].spot /\ (after[d].status = "success" <=> won[d].status = "success")
            OBVIOUS
        <3>1. won[d] \in ClaimRows
            BY <2>3, <2>4, RowsAre
        <3> QED BY <2>3, <2>4, <3>1 DEF Fails, ClaimRows
    <2>8. Successes(after, s) = Successes(won, s)
        BY <2>3, <2>4, <2>7 DEF Successes
    <2>9. KeepsCapacity(rows, c, after)
        BY <1>0, <1>1, <2>3, <2>4, <2>7, <2>8 DEF KeepsCapacity, Full
    <2> QED BY <2>6, <2>9
<1>2. CASE ~(Capacity[s] = 0 \/ Cardinality(Successes(rows, s)) < Capacity[s])
    <2>1. after = Set(rows, c, "failed")
        BY <1>2 DEF PromoteCapacity
    <2> QED BY <2>1, SetIs DEF KeepsCapacity, DecidedStates
<1> QED BY <1>1, <1>2

(* A promotion with a code, and one that is refused before it comes to that.*)
Promoted(rows, used, c, out) ==
    /\ Decides(rows, c, out.rows) /\ KeepsCapacity(rows, c, out.rows) /\ KeepsCode(rows, used, c, out)

LEMMA RefusedIs ==
    ASSUME NEW rows \in Seq(ClaimRows), NEW c \in DOMAIN rows, rows[c].status = "pending", NEW used
    PROVE  /\ Promoted(rows, used, c, Outcome(Set(rows, c, "failed"), used))
           /\ Outcome(Set(rows, c, "failed"), used).rows[c].status = "failed"
BY SetIs DEF Promoted, KeepsCapacity, KeepsCode, DecidedStates, Outcome

LEMMA PromoteCodeIs ==
    ASSUME NEW rows \in Seq(ClaimRows), NEW c \in DOMAIN rows, rows[c].status = "pending", now \in Nat, NEW used
    PROVE  Promoted(rows, used, c, PromoteCode(rows, used, c))
<1>1. Decides(rows, c, PromoteCapacity(rows, c)) /\ KeepsCapacity(rows, c, PromoteCapacity(rows, c))
    BY PromoteCapacityIs
<1>2. CASE rows[c].code # NoCode /\ used[rows[c].code] \notin {0, c}
    BY <1>2, RefusedIs DEF PromoteCode
<1>3. CASE rows[c].code = NoCode
    BY <1>1, <1>3 DEF Promoted, PromoteCode, Outcome, KeepsCode
<1>4. CASE rows[c].code # NoCode /\ used[rows[c].code] \in {0, c}
    BY <1>1, <1>4 DEF Promoted, PromoteCode, Outcome, KeepsCode
<1> QED BY <1>2, <1>3, <1>4

(* A waiting claim also has the limit of its wallet before it.              *)
HasRoom(rows, c) == ~WalletReachedSpotLimit(rows, rows[c].spot, WalletOf[rows[c].user])

LEMMA PromoteIs ==
    ASSUME NEW rows \in Seq(ClaimRows), NEW c \in DOMAIN rows, rows[c].status = "pending", now \in Nat, NEW used
    PROVE  /\ Promoted(rows, used, c, Promote(rows, used, c))
           /\ Promote(rows, used, c).rows[c].status = "success" => HasRoom(rows, c)
BY RefusedIs, PromoteCodeIs DEF Promote, HasRoom

(* Looking at a waiting claim decides it, or finds that it is alive.        *)
LEMMA RefreshedIs ==
    ASSUME NEW rows \in Seq(ClaimRows), NEW c \in DOMAIN rows, rows[c].status = "pending", now \in Nat, NEW used
    PROVE  LET out == Refreshed(rows, used, c)
           IN \/ out.rows = rows /\ out.used = used /\ ~(now - rows[c].seen > StaleAfter)
              \/ Promoted(rows, used, c, out) /\ (out.rows[c].status = "success" => HasRoom(rows, c))
BY RefusedIs, PromoteIs DEF Refreshed, Outcome

-----------------------------------------------------------------------------
(* What a decision leaves alone, and how the limits follow from it.         *)
LEMMA Unchanging ==
    ASSUME NEW rows \in Seq(ClaimRows), NEW c \in DOMAIN rows, rows[c].status = "pending", NEW after,
           Decides(rows, c, after)
    PROVE  /\ \A d \in DOMAIN rows :
                 /\ after[d].user = rows[d].user /\ after[d].spot = rows[d].spot
                 /\ after[d].code = rows[d].code /\ after[d].at = rows[d].at
                 /\ after[d].gap = rows[d].gap /\ after[d].score = rows[d].score
                 /\ after[d].seen = rows[d].seen \/ after[d].seen = now
                 /\ after[d].status = "pending" => rows[d].status = "pending"
                 /\ rows[d].status = "failed" => after[d].status = "failed"
                 /\ rows[d].status = "success" => after[d].status = "success"
                 /\ d # c /\ after[d].status = "success" => rows[d].status = "success"
           /\ after[c].status \in DecidedStates
<1>1. PICK st \in DecidedStates : after[c] = [rows[c] EXCEPT !.status = st]
    BY DEF Decides
<1>2. ASSUME NEW d \in DOMAIN rows
      PROVE  /\ after[d].user = rows[d].user /\ after[d].spot = rows[d].spot
             /\ after[d].code = rows[d].code /\ after[d].at = rows[d].at
             /\ after[d].gap = rows[d].gap /\ after[d].score = rows[d].score
             /\ after[d].seen = rows[d].seen \/ after[d].seen = now
             /\ after[d].status = "pending" => rows[d].status = "pending"
             /\ rows[d].status = "failed" => after[d].status = "failed"
             /\ rows[d].status = "success" => after[d].status = "success"
             /\ d # c /\ after[d].status = "success" => rows[d].status = "success"
    <2>1. rows[d] \in ClaimRows
        BY RowsAre
    <2>2. CASE d = c
        BY <1>1, <2>1, <2>2 DEF ClaimRows, DecidedStates
    <2>3. CASE d # c /\ after[d] = rows[d]
        BY <2>3
    <2>4. CASE d # c /\ Fails(rows[d], after[d])
        BY <2>1, <2>4 DEF Fails, ClaimRows
    <2> QED BY <2>2, <2>3, <2>4 DEF Decides
<1>3. after[c].status \in DecidedStates
    <2>1. rows[c] \in ClaimRows
        BY RowsAre
    <2> QED BY <1>1, <2>1 DEF ClaimRows
<1> QED BY <1>2, <1>3

(* At most c is a new success.                                              *)
LEMMA NewSuccess ==
    ASSUME NEW rows \in Seq(ClaimRows), NEW c \in DOMAIN rows, rows[c].status = "pending", NEW after,
           Decides(rows, c, after), NEW s
    PROVE  /\ after[c].status # "success" \/ rows[c].spot # s => Successes(after, s) = Successes(rows, s)
           /\ \A w : SucceededAt(after, s, w) \subseteq SucceededAt(rows, s, w) \cup {c}
<1>1. DOMAIN after = DOMAIN rows
    BY DEF Decides
<1>2. \A d \in DOMAIN rows :
          /\ after[d].user = rows[d].user /\ after[d].spot = rows[d].spot
          /\ rows[d].status = "success" => after[d].status = "success"
          /\ d # c /\ after[d].status = "success" => rows[d].status = "success"
    BY Unchanging
<1> QED BY <1>1, <1>2 DEF Successes, SucceededAt, OfWallet

LEMMA NoNewSuccess ==
    ASSUME NEW rows \in Seq(ClaimRows), NEW c \in DOMAIN rows, rows[c].status = "pending", NEW after,
           Decides(rows, c, after), NEW s, NEW w,
           ~(after[c].status = "success" /\ rows[c].spot = s /\ WalletOf[rows[c].user] = w)
    PROVE  SucceededAt(after, s, w) = SucceededAt(rows, s, w)
<1>1. DOMAIN after = DOMAIN rows
    BY DEF Decides
<1>2. \A d \in DOMAIN rows :
          /\ after[d].user = rows[d].user /\ after[d].spot = rows[d].spot
          /\ rows[d].status = "success" => after[d].status = "success"
          /\ d # c /\ after[d].status = "success" => rows[d].status = "success"
    BY Unchanging
<1> QED BY <1>1, <1>2 DEF Successes, SucceededAt, OfWallet

LEMMA OneMoreClaim ==
    ASSUME NEW S, IsFiniteSet(S), NEW T, NEW c, T \subseteq S \cup {c}, NEW n \in Nat, Cardinality(S) < n
    PROVE  Cardinality(T) <= n
<1>1. IsFiniteSet(S \cup {c}) /\ Cardinality(S) \in Nat /\ Cardinality(S \cup {c}) <= Cardinality(S) + 1
    BY FS_AddElement, FS_CardinalityType
<1>2. IsFiniteSet(T) /\ Cardinality(T) <= Cardinality(S \cup {c})
    BY <1>1, FS_Subset
<1>3. Cardinality(T) \in Nat /\ Cardinality(S \cup {c}) \in Nat
    BY <1>1, <1>2, FS_CardinalityType
<1> QED BY <1>1, <1>2, <1>3

LEMMA WalletsKept ==
    ASSUME NEW rows \in Seq(ClaimRows), NEW c \in DOMAIN rows, rows[c].status = "pending", NEW after,
           Decides(rows, c, after), WalletsHeld(rows), after[c].status = "success" => HasRoom(rows, c)
    PROVE  WalletsHeld(after)
<1> SUFFICES ASSUME NEW s \in Spots, NEW w \in {WalletOf[u] : u \in Users}, PerUser[s] > 0
             PROVE  Cardinality(SucceededAt(after, s, w)) <= PerUser[s]
    BY DEF WalletsHeld
<1>1. CASE after[c].status = "success" /\ rows[c].spot = s /\ WalletOf[rows[c].user] = w
    <2>1. IsFiniteSet(SucceededAt(rows, s, w)) /\ Cardinality(SucceededAt(rows, s, w)) \in Nat
        BY RowsAre, FS_Subset, FS_CardinalityType DEF SucceededAt
    <2>2. PerUser[s] \in Nat
        BY AdmissionAssumption
    <2>3. Cardinality(SucceededAt(rows, s, w)) < PerUser[s]
        BY <1>1, <2>1, <2>2 DEF HasRoom, WalletReachedSpotLimit, SucceededAt
    <2>4. SucceededAt(after, s, w) \subseteq SucceededAt(rows, s, w) \cup {c}
        BY NewSuccess
    <2> QED BY <2>1, <2>2, <2>3, <2>4, OneMoreClaim
<1>2. CASE ~(after[c].status = "success" /\ rows[c].spot = s /\ WalletOf[rows[c].user] = w)
    <2>1. SucceededAt(after, s, w) = SucceededAt(rows, s, w)
        BY <1>2, NoNewSuccess
    <2>2. Cardinality(SucceededAt(rows, s, w)) <= PerUser[s]
        BY DEF WalletsHeld
    <2> QED BY <2>1, <2>2
<1> QED BY <1>1, <1>2

LEMMA CodesKept ==
    ASSUME NEW rows \in Seq(ClaimRows), NEW c \in DOMAIN rows, rows[c].status = "pending", NEW used, NEW out,
           CodesSpent(rows, used), Decides(rows, c, out.rows), KeepsCode(rows, used, c, out),
           \A d \in DOMAIN rows : UsePassword(rows[d].spot) => rows[d].code # NoCode
    PROVE  CodesSpent(out.rows, out.used)
<1> DEFINE after == out.rows
           k == rows[c].code
<1>1. DOMAIN after = DOMAIN rows
    BY DEF Decides
<1>2. /\ \A d \in DOMAIN rows :
            /\ after[d].spot = rows[d].spot /\ after[d].code = rows[d].code
            /\ rows[d].status = "success" => after[d].status = "success"
            /\ d # c /\ after[d].status = "success" => rows[d].status = "success"
      /\ after[c].status \in DecidedStates
    BY Unchanging
<1>3. \A d \in DOMAIN rows : rows[d].code \in Codes \cup {NoCode}
    BY RowsAre DEF ClaimRows
<1>4. CASE k # NoCode /\ after[c].status = "success"
    <2>1. used[k] \in {0, c} /\ out.used = [used EXCEPT ![k] = c] /\ k \in Codes
        BY <1>3, <1>4 DEF KeepsCode
    <2>2. used[k] = 0
        BY <2>1 DEF CodesSpent
    <2>3. out.used \in [Codes -> {0} \cup DOMAIN after]
        BY <1>1, <2>1 DEF CodesSpent
    <2>4. ASSUME NEW j \in Codes, out.used[j] # 0
          PROVE  after[out.used[j]].status = "success" /\ after[out.used[j]].code = j
        <3>1. CASE j = k
            BY <1>2, <1>4, <2>1, <3>1 DEF CodesSpent
        <3>2. CASE j # k
            BY <1>2, <2>1, <2>4, <3>2 DEF CodesSpent
        <3> QED BY <3>1, <3>2
    <2>5. ASSUME NEW d \in DOMAIN after, after[d].status = "success", UsePassword(after[d].spot)
          PROVE  out.used[after[d].code] = d
        <3>1. CASE d = c
            BY <1>1, <1>2, <2>1, <3>1 DEF CodesSpent
        <3>2. CASE d # c
            <4>1. used[rows[d].code] = d /\ d # 0
                BY <1>1, <1>2, <2>5, <3>2, RowsAre DEF CodesSpent
            <4>2. rows[d].code # k
                BY <2>2, <4>1
            <4>3. rows[d].code \in Codes
                BY <1>1, <1>2, <1>3, <2>5
            <4> QED BY <1>1, <1>2, <2>1, <4>1, <4>2, <4>3 DEF CodesSpent
        <3> QED BY <3>1, <3>2
    <2> QED BY <2>3, <2>4, <2>5 DEF CodesSpent
<1>5. CASE ~(k # NoCode /\ after[c].status = "success")
    <2>1. out.used = used
        BY <1>5 DEF KeepsCode
    <2>2. \A d \in DOMAIN rows : after[d].status = "success" /\ UsePassword(after[d].spot) => rows[d].status = "success"
        BY <1>2, <1>5
    <2>3. ASSUME NEW j \in Codes, used[j] # 0
          PROVE  after[used[j]].status = "success" /\ after[used[j]].code = j
        BY <1>2, <2>3 DEF CodesSpent
    <2> QED BY <1>1, <1>2, <2>1, <2>2, <2>3 DEF CodesSpent
<1> QED BY <1>4, <1>5

LEMMA CapacityKept ==
    ASSUME NEW rows \in Seq(ClaimRows), NEW c \in DOMAIN rows, rows[c].status = "pending", NEW after,
           Decides(rows, c, after), KeepsCapacity(rows, c, after), NoneWaitsWhenFull(rows),
           \A d \in DOMAIN rows \ {c} : rows[d].status = "pending" => Duration[rows[d].spot] > 0
    PROVE  NoneWaitsWhenFull(after) /\ WaitsForTime(after)
<1>1. DOMAIN after = DOMAIN rows
    BY DEF Decides
<1>2. /\ \A d \in DOMAIN rows :
            /\ after[d].spot = rows[d].spot
            /\ after[d].status = "pending" => rows[d].status = "pending"
      /\ after[c].status \in DecidedStates
    BY Unchanging
<1>3. WaitsForTime(after)
    BY <1>1, <1>2 DEF WaitsForTime, DecidedStates
<1>4. ASSUME NEW s \in Spots, Full(after, s), NEW d \in DOMAIN after, after[d].spot = s, after[d].status = "pending"
      PROVE  FALSE
    <2>1. CASE after[c].status = "success" /\ rows[c].spot = s
        BY <1>3, <1>4, <2>1 DEF KeepsCapacity, WaitsForTime
    <2>2. CASE ~(after[c].status = "success" /\ rows[c].spot = s)
        <3>1. Full(rows, s)
            BY <1>4, <2>2, NewSuccess DEF Full
        <3> QED BY <1>1, <1>2, <1>4, <3>1 DEF NoneWaitsWhenFull
    <2> QED BY <2>1, <2>2
<1> QED BY <1>3, <1>4 DEF NoneWaitsWhenFull

LEMMA RowsKept ==
    ASSUME NEW rows \in Seq(ClaimRows), NEW c \in DOMAIN rows, rows[c].status = "pending", NEW after,
           Decides(rows, c, after), GoodRows(rows, now), HoursHeld(rows, now), GapsShort(rows), now \in Nat
    PROVE  GoodRows(after, now) /\ HoursHeld(after, now) /\ GapsShort(after)
<1>1. DOMAIN after = DOMAIN rows /\ after \in Seq(ClaimRows)
    BY DEF Decides
<1>2. \A d \in DOMAIN rows :
          /\ after[d].user = rows[d].user /\ after[d].spot = rows[d].spot
          /\ after[d].code = rows[d].code /\ after[d].at = rows[d].at
          /\ after[d].gap = rows[d].gap /\ after[d].score = rows[d].score
          /\ after[d].seen = rows[d].seen \/ after[d].seen = now
          /\ rows[d].status = "failed" => after[d].status = "failed"
    BY Unchanging
<1>3. \A d \in DOMAIN rows : rows[d].at \in Nat /\ rows[d].seen \in Nat
    BY RowsAre DEF ClaimRows
<1>4. GoodRows(after, now)
    BY <1>1, <1>2, <1>3 DEF GoodRows
<1>5. \A w, t : Begun(after, w, t) = Begun(rows, w, t)
    BY <1>1, <1>2 DEF Begun, OfWallet
<1>6. HoursHeld(after, now)
    BY <1>5 DEF HoursHeld
<1>7. GapsShort(after)
    BY <1>1, <1>2 DEF GapsShort
<1> QED BY <1>4, <1>6, <1>7

(* What holds of a list in which claim c may be decided.                    *)
Decidable(rows, used, c) ==
    /\ GoodRows(rows, now) /\ CodesSpent(rows, used) /\ WalletsHeld(rows) /\ HoursHeld(rows, now)
    /\ NoneWaitsWhenFull(rows) /\ GapsShort(rows)
    /\ \A d \in DOMAIN rows \ {c} : rows[d].status = "pending" => Duration[rows[d].spot] > 0

Ruled(rows, used) ==
    /\ GoodRows(rows, now) /\ WaitsForTime(rows) /\ CodesSpent(rows, used)
    /\ WalletsHeld(rows) /\ HoursHeld(rows, now)
    /\ NoneWaitsWhenFull(rows) /\ GapsShort(rows)

LEMMA DecisionKeepsRules ==
    ASSUME now \in Nat, NEW rows, NEW used, NEW c \in DOMAIN rows, rows[c].status = "pending", NEW out,
           Decidable(rows, used, c), Promoted(rows, used, c, out),
           out.rows[c].status = "success" => HasRoom(rows, c)
    PROVE  Ruled(out.rows, out.used)
<1>1. rows \in Seq(ClaimRows) /\ \A d \in DOMAIN rows : UsePassword(rows[d].spot) => rows[d].code # NoCode
    BY DEF Decidable, GoodRows
<1>2. GoodRows(out.rows, now) /\ HoursHeld(out.rows, now) /\ GapsShort(out.rows)
    BY <1>1, RowsKept DEF Decidable, Promoted
<1>3. NoneWaitsWhenFull(out.rows) /\ WaitsForTime(out.rows)
    BY <1>1, CapacityKept DEF Decidable, Promoted
<1>4. CodesSpent(out.rows, out.used)
    BY <1>1, CodesKept DEF Decidable, Promoted
<1>5. WalletsHeld(out.rows)
    BY <1>1, WalletsKept DEF Decidable, Promoted
<1> QED BY <1>2, <1>3, <1>4, <1>5 DEF Ruled

-----------------------------------------------------------------------------
(* A new claim has passed the rules, so the list that ends with it may go   *)
(* on to decide it.                                                         *)
LEMMA AppendIs ==
    ASSUME NEW rows \in Seq(ClaimRows), NEW x \in ClaimRows
    PROVE  /\ Append(rows, x) \in Seq(ClaimRows) /\ Len(Append(rows, x)) = Len(rows) + 1
           /\ DOMAIN Append(rows, x) = DOMAIN rows \cup {Len(rows) + 1}
           /\ Len(rows) + 1 \notin DOMAIN rows
           /\ Append(rows, x)[Len(rows) + 1] = x
           /\ \A d \in DOMAIN rows : Append(rows, x)[d] = rows[d] /\ d \in Nat \ {0}
OBVIOUS

LEMMA HoursAdmit ==
    ASSUME ClaimsInv, NEW u \in Users, NEW x \in ClaimRows, x.user = u, x.at = now, HourlyAllowed(u)
    PROVE  HoursHeld(Append(claims, x), now)
<1> DEFINE rows == Append(claims, x)
           n == Len(claims) + 1
<1>0. claims \in Seq(ClaimRows) /\ now \in Nat /\ Hour \in Nat /\ HourlyLimit \in Nat
    BY AdmissionAssumption DEF ClaimsInv, GoodRows
<1>1. /\ DOMAIN rows = DOMAIN claims \cup {n} /\ n \notin DOMAIN claims /\ rows[n] = x
      /\ \A d \in DOMAIN claims : rows[d] = claims[d]
    BY <1>0, AppendIs
<1>2. \A d \in DOMAIN claims : claims[d].at \in Nat /\ claims[d].at <= now
    <2>1. \A d \in DOMAIN claims : claims[d].at \in Nat /\ claims[d].seen \in Nat
        BY <1>0, RowsAre DEF ClaimRows
    <2> QED BY <1>0, <2>1 DEF ClaimsInv, GoodRows
<1> SUFFICES ASSUME NEW w \in {WalletOf[v] : v \in Users}, NEW t \in 0..now
             PROVE  Cardinality(Begun(rows, w, t)) <= HourlyLimit
    BY DEF HoursHeld
<1>3. CASE w = WalletOf[u] /\ t = now
    <2> DEFINE before == InLastHour(WalletOf[u])
    <2>1. IsFiniteSet(before)
        <3>1. before \subseteq DOMAIN claims
            BY DEF InLastHour, OfWallet
        <3> QED BY <1>0, <3>1, RowsAre, FS_Subset
    <2>2. Cardinality(before) < HourlyLimit
        BY DEF HourlyAllowed
    <2>3. Begun(rows, w, t) \subseteq before \cup {n}
        BY <1>0, <1>1, <1>2, <1>3 DEF Begun, OfWallet, InLastHour
    <2> QED BY <1>0, <2>1, <2>2, <2>3, OneMoreClaim
<1>4. CASE ~(w = WalletOf[u] /\ t = now)
    <2>1. Begun(rows, w, t) = Begun(claims, w, t)
        BY <1>0, <1>1, <1>4 DEF Begun, OfWallet
    <2>2. Cardinality(Begun(claims, w, t)) <= HourlyLimit
        BY DEF ClaimsInv, HoursHeld
    <2> QED BY <2>1, <2>2
<1> QED BY <1>3, <1>4

LEMMA NewClaimDecidable ==
    ASSUME ClaimsInv, NEW u \in Users, NEW s \in Spots, NEW k \in Codes \cup {NoCode},
           HourlyAllowed(u), RuleAllows(s, u),
           IF UsePassword(s) THEN k \in CodesOf[s] /\ usedBy[k] = 0 ELSE k = NoCode
    PROVE  LET rows == Append(claims, NewClaim(u, s, k))
               n == Len(claims) + 1
           IN /\ Decidable(rows, usedBy, n) /\ n \in DOMAIN rows /\ rows[n] = NewClaim(u, s, k)
              /\ n = Len(rows)
              /\ \A w : SucceededAt(rows, s, w) = SucceededAt(claims, s, w)
<1> DEFINE x == NewClaim(u, s, k)
           rows == Append(claims, x)
           n == Len(claims) + 1
<1>0. claims \in Seq(ClaimRows) /\ now \in Nat /\ Score \in Nat /\ StaleAfter \in Nat
    BY AdmissionAssumption DEF ClaimsInv, GoodRows
<1>1. x \in ClaimRows
    BY <1>0 DEF NewClaim, ClaimRows
<1>2. /\ rows \in Seq(ClaimRows) /\ Len(rows) = n
      /\ DOMAIN rows = DOMAIN claims \cup {n} /\ n \notin DOMAIN claims /\ rows[n] = x
      /\ \A d \in DOMAIN claims : rows[d] = claims[d] /\ d \in Nat \ {0}
    BY <1>0, <1>1, AppendIs
<1>x. /\ x.status = "pending" /\ x.user = u /\ x.spot = s /\ x.code = k
      /\ x.at = now /\ x.seen = now /\ x.score = Score /\ x.gap = 0
    BY DEF NewClaim
<1>3. GoodRows(rows, now)
    <2>1. UsePassword(s) => k # NoCode
        BY AdmissionAssumption
    <2> QED BY <1>0, <1>2, <1>x, <2>1 DEF ClaimsInv, GoodRows
<1>4. CodesSpent(rows, usedBy)
    <2>1. /\ usedBy \in [Codes -> {0} \cup DOMAIN claims]
          /\ \A j \in Codes : usedBy[j] # 0 => claims[usedBy[j]].status = "success" /\ claims[usedBy[j]].code = j
          /\ \A c \in DOMAIN claims :
                claims[c].status = "success" /\ UsePassword(claims[c].spot) => usedBy[claims[c].code] = c
        BY DEF ClaimsInv, CodesSpent
    <2>2. usedBy \in [Codes -> {0} \cup DOMAIN rows]
        BY <1>2, <2>1
    <2>3. ASSUME NEW j \in Codes, usedBy[j] # 0
          PROVE  rows[usedBy[j]].status = "success" /\ rows[usedBy[j]].code = j
        BY <1>2, <2>1, <2>3
    <2>4. \A c \in DOMAIN rows :
              rows[c].status = "success" /\ UsePassword(rows[c].spot) => usedBy[rows[c].code] = c
        BY <1>2, <1>x, <2>1
    <2> QED BY <2>2, <2>3, <2>4 DEF CodesSpent
<1>5. \A q : Successes(rows, q) = Successes(claims, q)
    BY <1>2, <1>x DEF Successes
<1>6. \A q, w : SucceededAt(rows, q, w) = SucceededAt(claims, q, w)
    BY <1>2, <1>x DEF Successes, SucceededAt, OfWallet
<1>7. WalletsHeld(rows)
    BY <1>6 DEF ClaimsInv, WalletsHeld
<1>8. HoursHeld(rows, now)
    BY <1>1, <1>x, HoursAdmit
<1>9. NoneWaitsWhenFull(rows)
    <2>1. ~Full(claims, s)
        <3>1. Cardinality(Successes(claims, s)) \in Nat /\ Capacity[s] \in Nat
            BY <1>0, RowsAre, AdmissionAssumption
        <3> QED BY <3>1 DEF RuleAllows, CapacityAvailable, Full
    <2>2. \A q : Full(rows, q) <=> Full(claims, q)
        BY <1>5 DEF Full
    <2> QED BY <1>2, <1>x, <2>1, <2>2 DEF ClaimsInv, NoneWaitsWhenFull
<1>10. GapsShort(rows)
    BY <1>0, <1>2, <1>x DEF ClaimsInv, GapsShort
<1>11. \A d \in DOMAIN rows \ {n} : rows[d].status = "pending" => Duration[rows[d].spot] > 0
    BY <1>2 DEF ClaimsInv, WaitsForTime
<1> QED BY <1>2, <1>3, <1>4, <1>6, <1>7, <1>8, <1>9, <1>10, <1>11 DEF Decidable

LEMMA ClaimSpotStep ==
    ASSUME ClaimsInv, NEW u \in Users, NEW s \in Spots, NEW k \in Codes \cup {NoCode}, ClaimSpot(u, s, k)
    PROVE  ClaimsInv'
<1> DEFINE rows == Append(claims, NewClaim(u, s, k))
           n == Len(claims) + 1
           out == IF Duration[s] = 0 THEN PromoteCode(rows, usedBy, n) ELSE Outcome(rows, usedBy)
<1>1. /\ Decidable(rows, usedBy, n) /\ n \in DOMAIN rows /\ rows[n] = NewClaim(u, s, k)
      /\ n = Len(rows)
      /\ \A w : SucceededAt(rows, s, w) = SucceededAt(claims, s, w)
    BY NewClaimDecidable DEF ClaimSpot
<1>2. now \in Nat /\ rows \in Seq(ClaimRows) /\ claims' = out.rows /\ usedBy' = out.used
      /\ now' = now /\ UNCHANGED <<cancelling, cancelled>>
    BY <1>1 DEF ClaimsInv, ClaimSpot, Decidable, GoodRows
<1>3. Ruled(out.rows, out.used)
    <2>1. CASE Duration[s] = 0
        <3>1. rows[n].status = "pending"
            BY <1>1 DEF NewClaim
        <3>2. Promoted(rows, usedBy, n, PromoteCode(rows, usedBy, n))
            BY <1>1, <1>2, <3>1, PromoteCodeIs
        <3>3. HasRoom(rows, n)
            <4>1. ~WalletReachedSpotLimit(claims, s, WalletOf[u])
                BY DEF ClaimSpot
            <4>2. rows[n].spot = s /\ rows[n].user = u
                BY <1>1 DEF NewClaim
            <4>3. SucceededAt(rows, s, WalletOf[u]) = SucceededAt(claims, s, WalletOf[u])
                BY <1>1
            <4> QED BY <4>1, <4>2, <4>3 DEF HasRoom, WalletReachedSpotLimit, SucceededAt
        <3> QED BY <1>1, <1>2, <2>1, <3>1, <3>2, <3>3, DecisionKeepsRules
    <2>2. CASE Duration[s] # 0
        <3>1. Duration[s] > 0
            BY <2>2, AdmissionAssumption
        <3>2. WaitsForTime(rows)
            BY <1>1, <3>1 DEF Decidable, WaitsForTime, NewClaim
        <3> QED BY <1>1, <2>2, <3>2 DEF Decidable, Ruled, Outcome
    <2> QED BY <2>1, <2>2
<1> HIDE DEF out
<1> QED BY <1>2, <1>3 DEF Ruled, ClaimsInv

(* Looking at a claim keeps the rules, whatever it finds.                   *)
LEMMA RefreshedKeeps ==
    ASSUME ClaimsInv, NEW c \in DOMAIN claims, claims[c].status = "pending"
    PROVE  LET out == Refreshed(claims, usedBy, c)
           IN /\ Ruled(out.rows, out.used)
              /\ out.rows[c].status = "pending" =>
                    out.rows = claims /\ out.used = usedBy /\ now - claims[c].seen <= StaleAfter
<1> DEFINE out == Refreshed(claims, usedBy, c)
<1>1. claims \in Seq(ClaimRows) /\ now \in Nat
    BY DEF ClaimsInv, GoodRows
<1>2. claims[c].seen \in Nat /\ StaleAfter \in Nat
    BY <1>1, RowsAre, AdmissionAssumption DEF ClaimRows
<1>3. CASE out.rows = claims /\ out.used = usedBy /\ ~(now - claims[c].seen > StaleAfter)
    <2> HIDE DEF out
    <2>1. now - claims[c].seen <= StaleAfter
        BY <1>1, <1>2, <1>3
    <2>2. Ruled(out.rows, out.used)
        BY <1>3 DEF ClaimsInv, Ruled
    <2> QED BY <1>3, <2>1, <2>2 DEF out
<1>4. CASE Promoted(claims, usedBy, c, out) /\ (out.rows[c].status = "success" => HasRoom(claims, c))
    <2> HIDE DEF out
    <2>1. Decidable(claims, usedBy, c)
        BY DEF ClaimsInv, Decidable, WaitsForTime
    <2>2. Ruled(out.rows, out.used)
        BY <1>1, <1>4, <2>1, DecisionKeepsRules
    <2>3. out.rows[c].status # "pending"
        BY <1>1, <1>4, Unchanging DEF Promoted, DecidedStates
    <2> QED BY <2>2, <2>3 DEF out
<1> QED BY <1>1, <1>3, <1>4, RefreshedIs

LEMMA LargerOf ==
    ASSUME NEW x \in Int, NEW y \in Int
    PROVE  Max({x, y}) \in {x, y} /\ Max({x, y}) >= x /\ Max({x, y}) >= y
<1> DEFINE m == IF x >= y THEN x ELSE y
<1>1. m \in {x, y} /\ \A z \in {x, y} : m >= z
    OBVIOUS
<1>2. Max({x, y}) \in {x, y} /\ \A z \in {x, y} : Max({x, y}) >= z
    BY <1>1 DEF Max
<1> QED BY <1>2

(* A position ends the silence of a claim that was not stale, or fails it.  *)
LEMMA LocatedKeeps ==
    ASSUME ClaimsInv, NEW c \in DOMAIN claims, claims[c].status = "pending",
           now - claims[c].seen <= StaleAfter, NEW p \in {0, 1, 2}
    PROVE  Ruled(Located(claims, c, p), usedBy)
<1> DEFINE rows == Located(claims, c, p)
           old == claims[c]
<1>1. /\ claims \in Seq(ClaimRows) /\ now \in Nat /\ StaleAfter \in Nat /\ Score \in Nat
      /\ Len(claims) \in Nat /\ DOMAIN claims = 1..Len(claims) /\ old \in ClaimRows
    BY RowsAre, AdmissionAssumption DEF ClaimsInv, GoodRows
<1>2. /\ old.score \in Nat /\ old.seen \in Nat /\ old.gap \in Nat /\ old.at \in Nat
      /\ old.at <= old.seen /\ old.seen <= now /\ old.score <= Score /\ old.gap <= StaleAfter
      /\ UsePassword(old.spot) => old.code # NoCode
    BY <1>1 DEF ClaimsInv, GoodRows, GapsShort, ClaimRows
<1>3. PICK score \in Nat, gap \in Nat, st \in {"pending", "failed"} :
          /\ rows = [claims EXCEPT ![c] = [old EXCEPT !.score = score, !.seen = now, !.gap = gap, !.status = st]]
          /\ score <= Score /\ gap <= StaleAfter
    <2> DEFINE score == Max({0, old.score - p})
               gap == Max({old.gap, now - old.seen})
               st == IF old.score <= p THEN "failed" ELSE old.status
    <2>1. score \in Nat /\ score <= Score
        <3>1. old.score - p \in Int /\ old.score - p <= Score
            BY <1>1, <1>2
        <3>2. score \in {0, old.score - p} /\ score >= 0
            <4>1. \A y \in Int : Max({0, y}) \in {0, y} /\ Max({0, y}) >= 0
                BY LargerOf
            <4> QED BY <3>1, <4>1
        <3> HIDE DEF score
        <3> QED BY <1>1, <3>1, <3>2
    <2>2. gap \in Nat /\ gap <= StaleAfter
        <3>1. now - old.seen \in Int /\ now - old.seen <= StaleAfter
            BY <1>1, <1>2
        <3>2. gap \in {old.gap, now - old.seen} /\ gap >= old.gap
            <4>1. \A x, y \in Int : Max({x, y}) \in {x, y} /\ Max({x, y}) >= x
                BY LargerOf
            <4>2. old.gap \in Int
                BY <1>2
            <4> QED BY <3>1, <4>1, <4>2
        <3> HIDE DEF gap
        <3> QED BY <1>1, <1>2, <3>1, <3>2
    <2>3. rows = [claims EXCEPT ![c] = [old EXCEPT !.score = score, !.seen = now, !.gap = gap, !.status = st]]
        BY <1>1 DEF Located, ClaimRows
    <2> HIDE DEF score, gap
    <2> QED BY <2>1, <2>2, <2>3
<1>4. [old EXCEPT !.score = score, !.seen = now, !.gap = gap, !.status = st] \in ClaimRows
    BY <1>1, <1>3 DEF ClaimRows
<1>5. /\ rows \in Seq(ClaimRows) /\ DOMAIN rows = DOMAIN claims
      /\ \A d \in DOMAIN claims : d # c => rows[d] = claims[d]
    BY <1>1, <1>3, <1>4, ExceptSeq, LenProperties
<1>6. /\ rows[c].user = claims[c].user /\ rows[c].spot = claims[c].spot
      /\ rows[c].code = claims[c].code /\ rows[c].at = claims[c].at
      /\ rows[c].score <= Score /\ rows[c].seen = now /\ rows[c].gap <= StaleAfter
      /\ rows[c].status # "success"
    <2>1. rows[c] = [old EXCEPT !.score = score, !.seen = now, !.gap = gap, !.status = st]
        BY <1>1, <1>3, <1>4, ExceptSeq
    <2> QED BY <1>1, <1>3, <2>1 DEF ClaimRows
<1> HIDE DEF rows
<1>7. GoodRows(rows, now)
    BY <1>1, <1>2, <1>5, <1>6, SMTT(20) DEF ClaimsInv, GoodRows
<1>8. WaitsForTime(rows) /\ GapsShort(rows)
    BY <1>1, <1>5, <1>6 DEF ClaimsInv, WaitsForTime, GapsShort
<1>9. \A s : Successes(rows, s) = Successes(claims, s)
    BY <1>5, <1>6 DEF Successes
<1>10. \A s, w : SucceededAt(rows, s, w) = SucceededAt(claims, s, w)
    BY <1>5, <1>6 DEF SucceededAt, Successes, OfWallet
<1>11. \A w, t : Begun(rows, w, t) = Begun(claims, w, t)
    BY <1>5, <1>6 DEF Begun, OfWallet
<1>12. WalletsHeld(rows) /\ HoursHeld(rows, now)
    BY <1>10, <1>11 DEF ClaimsInv, WalletsHeld, HoursHeld
<1>13. NoneWaitsWhenFull(rows)
    <2>1. \A s : Full(rows, s) <=> Full(claims, s)
        BY <1>9 DEF Full
    <2> QED BY <1>5, <1>6, <2>1 DEF ClaimsInv, NoneWaitsWhenFull
<1>14. CodesSpent(rows, usedBy)
    <2>1. /\ usedBy \in [Codes -> {0} \cup DOMAIN claims]
          /\ \A j \in Codes : usedBy[j] # 0 => claims[usedBy[j]].status = "success" /\ claims[usedBy[j]].code = j
          /\ \A d \in DOMAIN claims :
                claims[d].status = "success" /\ UsePassword(claims[d].spot) => usedBy[claims[d].code] = d
        BY DEF ClaimsInv, CodesSpent
    <2>2. \A j \in Codes : usedBy[j] # 0 => rows[usedBy[j]].status = "success" /\ rows[usedBy[j]].code = j
        BY <1>5, <2>1
    <2>3. \A d \in DOMAIN rows :
              rows[d].status = "success" /\ UsePassword(rows[d].spot) => usedBy[rows[d].code] = d
        BY <1>5, <1>6, <2>1
    <2> QED BY <1>5, <2>1, <2>2, <2>3 DEF CodesSpent
<1> QED BY <1>7, <1>8, <1>12, <1>13, <1>14 DEF Ruled, rows

LEMMA RuledIsKept ==
    ASSUME ClaimsInv, now' = now, UNCHANGED <<cancelling, cancelled>>, Ruled(claims', usedBy')
    PROVE  ClaimsInv'
BY DEF ClaimsInv, Ruled

LEMMA RefreshClaimStep ==
    ASSUME ClaimsInv, NEW c \in DOMAIN claims, RefreshClaim(c)
    PROVE  ClaimsInv'
<1> DEFINE out == Refreshed(claims, usedBy, c)
<1>1. Ruled(out.rows, out.used)
    BY RefreshedKeeps DEF RefreshClaim
<1>2. claims' = out.rows /\ usedBy' = out.used /\ now' = now /\ UNCHANGED <<cancelling, cancelled>>
    BY DEF RefreshClaim
<1> HIDE DEF out
<1>3. Ruled(claims', usedBy')
    BY <1>1, <1>2
<1> QED BY <1>2, <1>3, RuledIsKept

LEMMA HeartbeatStep ==
    ASSUME ClaimsInv, NEW c \in DOMAIN claims, NEW p \in {0, 1, 2}, Heartbeat(c, p)
    PROVE  ClaimsInv'
<1> DEFINE out == Refreshed(claims, usedBy, c)
<1>1. /\ Ruled(out.rows, out.used)
      /\ out.rows[c].status = "pending" =>
            out.rows = claims /\ out.used = usedBy /\ now - claims[c].seen <= StaleAfter
    BY RefreshedKeeps DEF Heartbeat
<1>2. /\ claims' = IF out.rows[c].status = "pending" THEN Located(out.rows, c, p) ELSE out.rows
      /\ usedBy' = out.used /\ now' = now /\ UNCHANGED <<cancelling, cancelled>>
    BY DEF Heartbeat
<1> HIDE DEF out
<1>3. CASE out.rows[c].status = "pending"
    <2>1. Ruled(Located(claims, c, p), usedBy)
        BY <1>1, <1>3, LocatedKeeps
    <2>2. claims' = Located(claims, c, p) /\ usedBy' = usedBy
        BY <1>1, <1>2, <1>3
    <2>3. Ruled(claims', usedBy')
        BY <2>1, <2>2
    <2> QED BY <1>2, <2>3, RuledIsKept
<1>4. CASE out.rows[c].status # "pending"
    <2>1. Ruled(claims', usedBy')
        BY <1>1, <1>2, <1>4
    <2> QED BY <1>2, <2>1, RuledIsKept
<1> QED BY <1>3, <1>4

LEMMA TickStep ==
    ASSUME ClaimsInv, Tick
    PROVE  ClaimsInv'
<1>1. /\ claims \in Seq(ClaimRows) /\ now \in Nat /\ MaxTime \in Nat /\ now' = now + 1
      /\ claims' = claims /\ usedBy' = usedBy /\ UNCHANGED <<cancelling, cancelled>> /\ Hour \in Nat
    BY AdmissionAssumption DEF ClaimsInv, GoodRows, Tick
<1>2. \A d \in DOMAIN claims : claims[d].at \in Nat /\ claims[d].seen \in Nat /\ claims[d].at <= now
    <2>1. \A d \in DOMAIN claims : claims[d].at \in Nat /\ claims[d].seen \in Nat
        BY <1>1, RowsAre DEF ClaimRows
    <2> QED BY <1>1, <2>1 DEF ClaimsInv, GoodRows
<1>3. GoodRows(claims, now + 1)
    BY <1>1, <1>2 DEF ClaimsInv, GoodRows
<1>4. ASSUME NEW w \in {WalletOf[u] : u \in Users}, NEW t \in 0..(now + 1)
      PROVE  Cardinality(Begun(claims, w, t)) <= HourlyLimit
    <2>1. CASE t = now + 1
        <3>1. Begun(claims, w, t) \subseteq Begun(claims, w, now)
            BY <1>1, <1>2, <2>1 DEF Begun, OfWallet
        <3>2. IsFiniteSet(Begun(claims, w, now))
            <4>1. Begun(claims, w, now) \subseteq DOMAIN claims
                BY DEF Begun, OfWallet
            <4> QED BY <1>1, <4>1, RowsAre, FS_Subset
        <3>3. Cardinality(Begun(claims, w, now)) <= HourlyLimit
            <4>1. now \in 0..now
                BY <1>1
            <4> QED BY <4>1 DEF ClaimsInv, HoursHeld
        <3>4. Cardinality(Begun(claims, w, t)) <= Cardinality(Begun(claims, w, now)) /\ IsFiniteSet(Begun(claims, w, t))
            BY <3>1, <3>2, FS_Subset
        <3>5. /\ Cardinality(Begun(claims, w, t)) \in Nat /\ Cardinality(Begun(claims, w, now)) \in Nat
              /\ HourlyLimit \in Nat
            BY <3>2, <3>4, FS_CardinalityType, AdmissionAssumption
        <3> QED BY <3>3, <3>4, <3>5
    <2>2. CASE t \in 0..now
        BY <2>2 DEF ClaimsInv, HoursHeld
    <2> QED BY <1>1, <2>1, <2>2
<1>5. HoursHeld(claims, now + 1)
    BY <1>4 DEF HoursHeld
<1>6. now + 1 \in 0..MaxTime
    BY <1>1 DEF Tick
<1> QED BY <1>1, <1>3, <1>5, <1>6 DEF ClaimsInv

LEMMA ClaimsStep == ClaimsInv /\ [AdmissionNext]_admissionVars => ClaimsInv'
<1> SUFFICES ASSUME ClaimsInv, [AdmissionNext]_admissionVars PROVE ClaimsInv'
    OBVIOUS
<1>1. ASSUME NEW u \in Users, NEW s \in Spots, NEW k \in Codes \cup {NoCode}, ClaimSpot(u, s, k)
      PROVE  ClaimsInv'
    BY <1>1, ClaimSpotStep
<1>2. CASE Refresh
    BY <1>2, RefreshClaimStep DEF Refresh
<1>3. ASSUME NEW c \in DOMAIN claims, NEW p \in {0, 1, 2}, Heartbeat(c, p)
      PROVE  ClaimsInv'
    BY <1>3, HeartbeatStep
<1>4. ASSUME NEW s \in Spots, StartCancellation(s)
      PROVE  ClaimsInv'
    BY <1>4 DEF StartCancellation, ClaimsInv
<1>7. ASSUME NEW s \in Spots, FinishCancellation(s)
      PROVE  ClaimsInv'
    BY <1>7 DEF FinishCancellation, ClaimsInv
<1>5. CASE Tick
    BY <1>5, TickStep
<1>6. CASE UNCHANGED admissionVars
    BY <1>6 DEF admissionVars, ClaimsInv
<1> QED BY <1>1, <1>2, <1>3, <1>4, <1>5, <1>6, <1>7 DEF AdmissionNext

LEMMA ClaimsInit == AdmissionInit => ClaimsInv
<1> SUFFICES ASSUME AdmissionInit PROVE ClaimsInv
    OBVIOUS
<1>1. now = 0 /\ claims = <<>> /\ usedBy = [k \in Codes |-> 0] /\ cancelling = {} /\ cancelled = {}
    BY DEF AdmissionInit
<1>2. claims \in Seq(ClaimRows) /\ DOMAIN claims = {}
    BY <1>1
<1>3. /\ \A s, w : SucceededAt(claims, s, w) = {}
      /\ \A w, t : Begun(claims, w, t) = {}
      /\ \A s : Successes(claims, s) = {}
    BY <1>2 DEF SucceededAt, Begun, Successes, OfWallet
<1>4. Cardinality({}) = 0 /\ MaxTime \in Nat /\ HourlyLimit \in Nat /\ \A s \in Spots : PerUser[s] \in Nat
    BY FS_EmptySet, AdmissionAssumption
<1>5. WalletsHeld(claims) /\ HoursHeld(claims, now)
    BY <1>3, <1>4 DEF WalletsHeld, HoursHeld
<1>6. GoodRows(claims, now) /\ WaitsForTime(claims) /\ CodesSpent(claims, usedBy) /\ GapsShort(claims)
      /\ NoneWaitsWhenFull(claims)
    BY <1>1, <1>2 DEF GoodRows, WaitsForTime, CodesSpent, GapsShort, NoneWaitsWhenFull
<1> QED BY <1>1, <1>4, <1>5, <1>6 DEF ClaimsInv

LEMMA ClaimsHold == AdmissionSpec => []ClaimsInv
BY ClaimsInit, ClaimsStep, PTL DEF AdmissionSpec

(* Types of the claims; a code is attributed to an existing claim.          *)
THEOREM ClaimTypes == AdmissionSpec => []AdmissionTypeOK
<1>1. ClaimsInv => AdmissionTypeOK
    BY DEF ClaimsInv, GoodRows, CodesSpent, AdmissionTypeOK
<1> QED BY <1>1, ClaimsHold, PTL

(* promote_pending_claim_to_success_if_code_available: whatever claims      *)
(* contend for a code, and however heartbeats and refreshes decide them, a  *)
(* code is spent exactly by the one successful claim that attempted it.     *)
THEOREM CodesSpentOnce == AdmissionSpec => []CodeSpentBySuccess
<1>1. ClaimsInv => CodeSpentBySuccess
    BY DEF ClaimsInv, CodesSpent, CodeSpentBySuccess
<1> QED BY <1>1, ClaimsHold, PTL

(* The claim rules for any users, wallets, Spots, limits and times: the     *)
(* wallet's limits, the end of waiting at a full Spot and the silence that  *)
(* a successful claim may have kept.                                        *)
THEOREM ClaimRulesHold == AdmissionSpec => []ClaimRulesKept
<1>1. ClaimsInv => ClaimRulesKept
    <2> SUFFICES ASSUME ClaimsInv PROVE ClaimRulesKept
        OBVIOUS
    <2>1. WalletLimitKept
        BY DEF ClaimsInv, WalletsHeld, SucceededAt, WalletLimitKept
    <2>2. HourlyLimitKept
        BY DEF ClaimsInv, HoursHeld, Begun, HourlyLimitKept
    <2>3. FullSpotHasNoWaiting
        BY DEF ClaimsInv, NoneWaitsWhenFull, Full, FullSpotHasNoWaiting
    <2>4. KeptAlive
        BY DEF ClaimsInv, GapsShort, KeptAlive
    <2> QED BY <2>1, <2>2, <2>3, <2>4 DEF ClaimRulesKept
<1> QED BY <1>1, ClaimsHold, PTL

-----------------------------------------------------------------------------
(* The travel guard *)

(* A claim's anchor is not before the claim and not after now, the type     *)
(* invariant, and the journey itself.                                       *)
VisitTimes ==
    \A i \in DOMAIN visits : visits[i].at =< visits[i].seen /\ visits[i].seen =< time

TravelInv == TravelTypeOK /\ VisitTimes /\ AdmittedIsPlausible

(* The facts about a list of claims that the steps use.                     *)
LEMMA VisitRow ==
    ASSUME TravelAssumption, TravelTypeOK, VisitTimes, NEW i \in DOMAIN visits
    PROVE  /\ Len(visits) \in Nat /\ i \in Nat /\ 1 =< i /\ i =< Len(visits)
           /\ visits[i] \in VisitRows /\ Anchor(i) \in TravelSpots
           /\ visits[i].at \in Nat /\ visits[i].seen \in Nat /\ time \in Nat
           /\ ObservedAt(visits[i]) \in Nat
           /\ visits[i].at =< ObservedAt(visits[i]) /\ ObservedAt(visits[i]) =< visits[i].seen
           /\ visits[i].seen =< time /\ ObservedAt(visits[i]) =< time
<1>1. visits \in Seq(VisitRows) /\ DOMAIN visits = 1 .. Len(visits) /\ Len(visits) \in Nat
    BY DEF TravelTypeOK
<1>2. visits[i] \in VisitRows /\ i \in 1 .. Len(visits)
    BY <1>1
<1>3. time \in Nat /\ TravelTime \in Int
    BY DEF TravelTypeOK, TravelAssumption
<1>4. visits[i].at \in Nat /\ visits[i].seen \in Nat /\ visits[i].spot \in TravelSpots
    BY <1>2, <1>3 DEF VisitRows
<1>5. visits[i].at =< visits[i].seen /\ visits[i].seen =< time
    BY DEF VisitTimes
<1>6. ObservedAt(visits[i]) = visits[i].seen \/ ObservedAt(visits[i]) = visits[i].at
    BY DEF ObservedAt
<1>7. /\ ObservedAt(visits[i]) \in Nat /\ visits[i].at =< ObservedAt(visits[i])
      /\ ObservedAt(visits[i]) =< visits[i].seen /\ ObservedAt(visits[i]) =< time
    BY <1>3, <1>4, <1>5, <1>6
<1>8. 1 =< i /\ i =< Len(visits) /\ i \in Nat
    BY <1>1, <1>2
<1> QED BY <1>1, <1>2, <1>3, <1>4, <1>5, <1>7, <1>8 DEF Anchor

(* Whoever had time enough since a later moment had it since an earlier.    *)
LEMMA StillLonger ==
    ASSUME NEW a \in Nat, NEW b \in Nat, NEW c \in Nat, NEW k \in Nat, a =< b, b =< c,
           ~(Longer(1, c - b) < k)
    PROVE  Longer(1, c - a) >= k
BY DEF Longer

(* The positions of a list that has grown by one.                           *)
LEMMA LastOrEarlier ==
    ASSUME NEW n \in Nat, NEW j \in 1 .. n + 1
    PROVE  j \in 1 .. n \/ j = n + 1
OBVIOUS

(* The time since an anchor covers the way from it: it grows with every     *)
(* leg, and an earlier anchor leaves more.                                  *)
LEMMA WayCovered ==
    ASSUME NEW way \in Nat, NEW leg \in Nat, NEW way2 \in Nat, NEW moment \in Nat,
           NEW s \in Nat, NEW u \in Nat,
           way =< moment - s
    PROVE  /\ way2 =< way + leg => way2 =< (moment + leg) - s
           /\ u =< s => way =< moment - u
OBVIOUS

LEMMA TimesAreNat ==
    ASSUME TravelAssumption, NEW s \in TravelSpots, NEW t \in TravelSpots
    PROVE  Journey[s][t] \in Nat /\ SoftTime[s][t] \in Nat /\ HardTime[s][t] \in Nat
BY DEF TravelAssumption

(* Some claim keeps the user waiting longest.                               *)
LEMMA SomeIsLast ==
    ASSUME NEW S, IsFiniteSet(S), S # {}, S \subseteq Nat, NEW f, \A i \in S : f[i] \in Int
    PROVE  \E i \in S : \A j \in S : f[j] < f[i] \/ (f[j] = f[i] /\ j =< i)
<1> DEFINE Top(T) == \E i \in T : \A j \in T : f[j] < f[i] \/ (f[j] = f[i] /\ j =< i)
           Q == {T \in SUBSET S : T = {} \/ Top(T)}
<1>1. ASSUME NEW T \in SUBSET S, \A x \in T : T \ {x} \in Q PROVE T \in Q
    <2>1. CASE T = {}
        BY <2>1
    <2>2. CASE T # {}
        <3>1. PICK x \in T : TRUE
            BY <2>2
        <3>2. T \ {x} \in Q
            BY <1>1
        <3>3. CASE T \ {x} = {}
            BY <3>1, <3>3
        <3>4. CASE T \ {x} # {}
            <4>1. PICK i \in T \ {x} : \A j \in T \ {x} : f[j] < f[i] \/ (f[j] = f[i] /\ j =< i)
                BY <3>2, <3>4
            <4>2. \A j \in T : f[j] \in Int /\ j \in Nat
                OBVIOUS
            <4>3. CASE f[x] < f[i] \/ (f[x] = f[i] /\ x =< i)
                BY <4>1, <4>2, <4>3
            <4>4. CASE ~(f[x] < f[i] \/ (f[x] = f[i] /\ x =< i))
                <5>1. f[i] < f[x] \/ (f[i] = f[x] /\ i =< x)
                    BY <4>2, <4>4
                <5>2. \A j \in T : f[j] < f[x] \/ (f[j] = f[x] /\ j =< x)
                    BY <4>1, <4>2, <5>1
                <5> QED BY <5>2
            <4> QED BY <4>3, <4>4
        <3> QED BY <3>3, <3>4
    <2> QED BY <2>1, <2>2
<1>2. S \in Q
    <2> HIDE DEF Q
    <2> QED BY <1>1, FiniteSetInduction
<1> QED BY <1>2

LEMMA TrustedIs ==
    ASSUME TravelAssumption, TravelTypeOK, VisitTimes, NEW t \in TravelSpots, SoftJumps(t) # {}
    PROVE  /\ Trusted(t) \in SoftJumps(t) /\ Trusted(t) \in 1 .. Len(visits)
           /\ RetryOf(Trusted(t), t) \in Nat /\ RetryOf(Trusted(t), t) > time
           /\ RetryOf(Trusted(t), t) =< time + SoftTime[Anchor(Trusted(t))][t] + 1
<1> DEFINE S == SoftJumps(t)
           f == [i \in S |-> RetryOf(i, t)]
<1>1. S \subseteq 1 .. Len(visits) /\ S \subseteq DOMAIN visits /\ Len(visits) \in Nat
    <2>1. visits \in Seq(VisitRows)
        BY DEF TravelTypeOK
    <2>2. DOMAIN visits = 1 .. Len(visits) /\ Len(visits) \in Nat
        BY <2>1
    <2> QED BY <2>2 DEF SoftJumps, RecentAnchors
<1>2. IsFiniteSet(S) /\ S \subseteq Nat
    <2>1. IsFiniteSet(1 .. Len(visits))
        BY <1>1, FS_Interval
    <2> HIDE DEF S, f
    <2>2. IsFiniteSet(S)
        BY <1>1, <2>1, FS_Subset
    <2> QED BY <1>1, <2>2
<1>3. \A i \in S : /\ RetryOf(i, t) \in Nat /\ RetryOf(i, t) > time
                   /\ RetryOf(i, t) =< time + SoftTime[Anchor(i)][t] + 1
    <2> SUFFICES ASSUME NEW i \in S
                 PROVE  /\ RetryOf(i, t) \in Nat /\ RetryOf(i, t) > time
                        /\ RetryOf(i, t) =< time + SoftTime[Anchor(i)][t] + 1
        OBVIOUS
    <2>1. /\ Anchor(i) \in TravelSpots /\ ObservedAt(visits[i]) \in Nat /\ time \in Nat
          /\ ObservedAt(visits[i]) =< time
        BY <1>1, VisitRow
    <2>2. SoftTime[Anchor(i)][t] \in Nat
        BY <2>1, TimesAreNat
    <2>3. Elapsed(ObservedAt(visits[i])) < SoftTime[Anchor(i)][t]
        BY DEF SoftJumps, SoftViolation
    <2>4. time - ObservedAt(visits[i]) < SoftTime[Anchor(i)][t]
        BY <2>1, <2>2, <2>3 DEF Elapsed, Longer
    <2> QED BY <2>1, <2>2, <2>4 DEF RetryOf, RetryAt
<1>4. \E i \in S : \A j \in S : f[j] < f[i] \/ (f[j] = f[i] /\ j =< i)
    <2>1. \A i \in S : f[i] \in Int
        BY <1>3
    <2> HIDE DEF S, f
    <2> QED BY <1>2, <2>1, SomeIsLast DEF S
<1>5. \E i \in S : \A j \in S : \/ RetryOf(j, t) < RetryOf(i, t)
                                \/ RetryOf(j, t) = RetryOf(i, t) /\ j =< i
    BY <1>4
<1>6. Trusted(t) \in S
    BY <1>5 DEF Trusted
<1> QED BY <1>1, <1>3, <1>6

-----------------------------------------------------------------------------
LEMMA TravelInvInit ==
    ASSUME TravelAssumption, TravelInit
    PROVE  TravelInv
<1>1. visits = <<>> /\ DOMAIN visits = {} /\ Len(visits) = 0 /\ visits \in Seq(VisitRows)
    BY DEF TravelInit
<1>2. TravelTypeOK
    <2>1. time \in 0 .. TravelTime /\ pos \in TravelSpots /\ glitches \in 0 .. Glitches
          /\ banned \in BOOLEAN /\ honest \in BOOLEAN /\ marker = NoMarker /\ 0 =< MaxVisits
        <3>1. /\ StartSpots \subseteq TravelSpots /\ Glitches \in Nat /\ MaxVisits \in Nat
              /\ TravelTime \in Nat
            BY DEF TravelAssumption
        <3>2. time = 0 /\ pos \in StartSpots /\ glitches = Glitches /\ honest = TRUE
              /\ marker = NoMarker /\ banned = FALSE
            BY DEF TravelInit
        <3>3. pos \in TravelSpots /\ banned \in BOOLEAN /\ honest \in BOOLEAN
            BY <3>1, <3>2
        <3>4. time \in 0 .. TravelTime /\ glitches \in 0 .. Glitches /\ 0 =< MaxVisits
            BY <3>1, <3>2
        <3> QED BY <3>2, <3>3, <3>4
    <2> QED BY <1>1, <2>1 DEF TravelTypeOK
<1> QED BY <1>1, <1>2 DEF TravelInv, VisitTimes, AdmittedIsPlausible

(* Claims, marker and verdict stay, time may pass.                          *)
LEMMA WaitingKeeps ==
    ASSUME TravelAssumption, TravelInv, UNCHANGED <<visits, marker, banned>>,
           time' \in 0 .. TravelTime, time' >= time,
           pos' \in TravelSpots, glitches' \in 0 .. Glitches, honest' \in BOOLEAN
    PROVE  TravelInv'
<1>1. TravelTypeOK'
    BY DEF TravelInv, TravelTypeOK, Anchor, Markers
<1>2. VisitTimes'
    <2>1. \A i \in DOMAIN visits : visits[i].seen =< time /\ visits[i].seen \in Nat /\ time \in Nat
        BY VisitRow DEF TravelInv
    <2>2. time' \in Int
        OBVIOUS
    <2> QED BY <2>1, <2>2 DEF TravelInv, VisitTimes
<1>3. AdmittedIsPlausible'
    BY DEF TravelInv, AdmittedIsPlausible, Anchor
<1> QED BY <1>1, <1>2, <1>3 DEF TravelInv

(* Only the times of the anchors of claims move, and not beyond now.        *)
LEMMA AnchorMovesKeep ==
    ASSUME TravelAssumption, TravelInv, UNCHANGED <<time, pos, glitches, marker, banned>>, honest' \in BOOLEAN,
           NEW i \in DOMAIN visits, NEW v \in VisitRows,
           v.spot = visits[i].spot, v.at = visits[i].at, v.at =< v.seen, v.seen =< time,
           visits' = [visits EXCEPT ![i] = v]
    PROVE  TravelInv'
<1>1. visits \in Seq(VisitRows) /\ DOMAIN visits = 1 .. Len(visits) /\ Len(visits) \in Nat
    BY DEF TravelInv, TravelTypeOK
<1>2. visits' \in [1 .. Len(visits) -> VisitRows] /\ DOMAIN visits' = 1 .. Len(visits)
    BY <1>1
<1>3. visits' \in Seq(VisitRows) /\ Len(visits') = Len(visits)
    BY <1>1, <1>2
<1>4. /\ visits' \in Seq(VisitRows) /\ Len(visits') = Len(visits) /\ DOMAIN visits' = DOMAIN visits
      /\ visits'[i] = v /\ \A j \in DOMAIN visits \ {i} : visits'[j] = visits[j]
    BY <1>1, <1>2, <1>3
<1>5. \A j \in DOMAIN visits : visits'[j].spot = visits[j].spot /\ visits'[j].at = visits[j].at
    BY <1>4
<1>6. \A j \in DOMAIN visits : Anchor(j)' = Anchor(j)
    BY <1>5 DEF Anchor
<1>7. TravelTypeOK'
    <2>1. marker # NoMarker => marker.trusted \in DOMAIN visits
        BY DEF TravelInv, TravelTypeOK, Markers
    <2>2. marker # NoMarker => Anchor(marker.trusted)' = Anchor(marker.trusted)
        BY <1>5, <2>1 DEF Anchor
    <2> QED BY <1>4, <2>2 DEF TravelInv, TravelTypeOK, Markers
<1>8. VisitTimes'
    <2>1. visits'[i].at =< visits'[i].seen /\ visits'[i].seen =< time
        BY <1>4
    <2> QED BY <1>4, <2>1 DEF TravelInv, VisitTimes
<1>9. AdmittedIsPlausible'
    BY <1>4, <1>5, <1>6 DEF TravelInv, AdmittedIsPlausible
<1> QED BY <1>7, <1>8, <1>9 DEF TravelInv

(* A new claim is out of reach of none of the last ones.                    *)
LEMMA AdmitKeeps ==
    ASSUME TravelAssumption, TravelInv, NEW t \in TravelSpots, Admit(t),
           UNCHANGED <<time, pos>>, glitches' \in 0 .. Glitches, honest' \in BOOLEAN
    PROVE  TravelInv'
<1> DEFINE v == [spot |-> t, at |-> time, seen |-> time, pending |-> t \in Timed]
           n == Len(visits)
<1>1. /\ visits' = Append(visits, v) /\ marker' = NoMarker /\ banned' = banned
      /\ SoftJumps(t) = {} /\ n < MaxVisits
    BY DEF Admit
<1>2. time \in 0 .. TravelTime /\ time \in Nat /\ visits \in Seq(VisitRows) /\ n \in Nat
    BY DEF TravelInv, TravelTypeOK
<1>3. v \in VisitRows
    BY <1>2 DEF VisitRows
<1>4. /\ visits' \in Seq(VisitRows) /\ Len(visits') = n + 1 /\ visits'[n + 1] = v
      /\ \A i \in 1 .. n : visits'[i] = visits[i]
      /\ DOMAIN visits' = 1 .. n + 1 /\ DOMAIN visits = 1 .. n
    BY <1>1, <1>2, <1>3
<1>5. TravelTypeOK'
    BY <1>1, <1>4 DEF TravelInv, TravelTypeOK, TravelAssumption
<1>6. VisitTimes'
    <2>1. \A i \in 1 .. n : visits'[i].at =< visits'[i].seen /\ visits'[i].seen =< time'
        BY <1>4 DEF TravelInv, VisitTimes
    <2>2. visits'[n + 1].at =< visits'[n + 1].seen /\ visits'[n + 1].seen =< time'
        BY <1>2, <1>4
    <2>3. \A i \in DOMAIN visits' : i \in 1 .. n \/ i = n + 1
        BY <1>2, <1>4
    <2> HIDE DEF n, v
    <2> QED BY <2>1, <2>2, <2>3 DEF VisitTimes
<1>7. \A i \in 1 .. n : Anchor(i)' = Anchor(i)
    BY <1>4 DEF Anchor
<1>8. ASSUME NEW i \in 1 .. n, (n + 1) - i =< Recent
      PROVE  Longer(1, time - visits[i].at) >= SoftTime[Anchor(i)][t]
    <2>1. /\ i \in DOMAIN visits /\ Anchor(i) \in TravelSpots
          /\ visits[i].at \in Nat /\ ObservedAt(visits[i]) \in Nat
          /\ visits[i].at =< ObservedAt(visits[i]) /\ ObservedAt(visits[i]) =< time
        BY <1>4, VisitRow DEF TravelInv
    <2>2. i \in RecentAnchors
        BY <1>2, <1>8, <2>1 DEF RecentAnchors, TravelAssumption
    <2>3. ~SoftViolation(Anchor(i), t, ObservedAt(visits[i]))
        BY <1>1, <2>2 DEF SoftJumps
    <2>4. SoftTime[Anchor(i)][t] \in Nat
        BY <2>1, TimesAreNat
    <2>5. ~(Longer(1, time - ObservedAt(visits[i])) < SoftTime[Anchor(i)][t])
        BY <2>1, <2>3 DEF SoftViolation, Elapsed
    <2> QED BY <1>2, <2>1, <2>4, <2>5, StillLonger
<1>9. AdmittedIsPlausible'
    <2> SUFFICES ASSUME NEW i \in 1 .. n + 1, NEW j \in 1 .. n + 1, i < j, j - i =< Recent
                 PROVE  Longer(1, visits'[j].at - visits'[i].at) >= SoftTime[Anchor(i)'][Anchor(j)']
        BY <1>4 DEF AdmittedIsPlausible
    <2>1. i \in 1 .. n
        BY <1>2
    <2>2. CASE j \in 1 .. n
        BY <1>4, <1>7, <2>1, <2>2 DEF TravelInv, AdmittedIsPlausible
    <2>3. CASE j = n + 1
        <3>1. Anchor(j)' = t /\ visits'[j].at = time /\ visits'[i].at = visits[i].at
            <4>1. visits'[j] = v /\ v.spot = t /\ v.at = time
                BY <1>4, <2>3
            <4>2. visits'[i] = visits[i]
                BY <1>4, <2>1
            <4> QED BY <4>1, <4>2 DEF Anchor
        <3>2. Longer(1, time - visits[i].at) >= SoftTime[Anchor(i)][t]
            BY <1>8, <2>1, <2>3
        <3> QED BY <1>7, <2>1, <3>1, <3>2
    <2>4. j \in 1 .. n \/ j = n + 1
        BY <1>2, LastOrEarlier
    <2> QED BY <2>2, <2>3, <2>4
<1> QED BY <1>5, <1>6, <1>9 DEF TravelInv

(* What an attempt that creates no claim may store.                         *)
LEMMA MarkerStepKeeps ==
    ASSUME TravelAssumption, TravelInv, UNCHANGED <<time, pos, visits>>,
           glitches' \in 0 .. Glitches, honest' \in BOOLEAN, banned' \in BOOLEAN,
           marker' # NoMarker =>
              /\ marker' \in Markers(Len(visits))
              /\ marker'.retry > marker'.at
              /\ marker'.retry =< marker'.at + SoftTime[Anchor(marker'.trusted)][marker'.spot] + 1
    PROVE  TravelInv'
<1>1. TravelTypeOK'
    BY DEF TravelInv, TravelTypeOK, Anchor
<1> QED BY <1>1 DEF TravelInv, VisitTimes, AdmittedIsPlausible, Anchor

LEMMA AttemptKeeps ==
    ASSUME TravelAssumption, TravelInv, NEW t \in TravelSpots, Attempt(t)
    PROVE  TravelInv'
<1>1. /\ glitches' \in 0 .. Glitches /\ honest' \in BOOLEAN /\ UNCHANGED <<time, pos>>
      /\ banned \in BOOLEAN
    <2>1. /\ glitches \in 0 .. Glitches /\ Glitches \in Nat
          /\ banned \in BOOLEAN /\ honest \in BOOLEAN
        BY DEF TravelInv, TravelTypeOK, TravelAssumption
    <2>2. UNCHANGED <<time, pos>> /\ (glitches' = glitches \/ (glitches > 0 /\ glitches' = glitches - 1))
        BY DEF Attempt, BadReading
    <2>3. honest' = honest \/ honest' = FALSE
        BY DEF Attempt
    <2>4. honest' \in BOOLEAN
        BY <2>1, <2>3, Zenon
    <2>5. glitches' \in 0 .. Glitches
        BY <2>1, <2>2
    <2> QED BY <2>1, <2>2, <2>4, <2>5, Zenon
<1>2. time \in 0 .. TravelTime
    BY DEF TravelInv, TravelTypeOK
<1>3. CASE BanUser
    BY <1>1, <1>3, MarkerStepKeeps DEF BanUser
<1>4. CASE ActiveCooldown(t) /\ UNCHANGED <<marker, banned, visits>>
    BY <1>1, <1>4, MarkerStepKeeps DEF TravelInv, TravelTypeOK
<1>5. CASE ActiveCooldown(t) /\ ~BanUser /\ ~UNCHANGED <<marker, banned, visits>>
    <2>1. marker' = [marker EXCEPT !.lastSpot = t, !.lastAt = time] /\ UNCHANGED <<banned, visits>> /\ Active
        BY <1>5 DEF ActiveCooldown
    <2>2. marker # NoMarker
        BY <2>1 DEF Active, NoMarker
    <2>3. /\ marker \in Markers(Len(visits)) /\ marker.retry > marker.at
          /\ marker.retry =< marker.at + SoftTime[Anchor(marker.trusted)][marker.spot] + 1
        BY <2>2 DEF TravelInv, TravelTypeOK
    <2>4. /\ marker' \in Markers(Len(visits)) /\ marker'.retry = marker.retry /\ marker'.at = marker.at
          /\ marker'.trusted = marker.trusted /\ marker'.spot = marker.spot
        BY <1>2, <2>1, <2>3 DEF Markers
    <2> QED BY <1>1, <2>1, <2>3, <2>4, MarkerStepKeeps
<1>6. CASE NewCooldown(t)
    <2> DEFINE i == Trusted(t)
    <2>1. /\ i \in 1 .. Len(visits) /\ RetryOf(i, t) \in Nat /\ RetryOf(i, t) > time
          /\ RetryOf(i, t) =< time + SoftTime[Anchor(i)][t] + 1
        BY <1>6, TrustedIs DEF NewCooldown, TravelInv
    <2>2. /\ marker' = [on |-> TRUE, trusted |-> i, spot |-> t, at |-> time,
                        retry |-> RetryOf(i, t), lastSpot |-> t, lastAt |-> time]
          /\ UNCHANGED <<visits, banned>>
        BY <1>6 DEF NewCooldown
    <2> HIDE DEF i
    <2>3. marker' \in Markers(Len(visits))
        BY <1>2, <2>1, <2>2 DEF Markers
    <2> QED BY <1>1, <2>1, <2>2, <2>3, MarkerStepKeeps
<1>7. CASE Admit(t)
    BY <1>1, <1>7, AdmitKeeps
<1> QED BY <1>3, <1>4, <1>5, <1>6, <1>7 DEF Attempt, HardBan, ActiveCooldown

LEMMA TravelInvStep ==
    ASSUME TravelAssumption, TravelInv, [TravelNext]_travelVars
    PROVE  TravelInv'
<1>1. /\ time \in 0 .. TravelTime /\ pos \in TravelSpots /\ glitches \in 0 .. Glitches
      /\ honest \in BOOLEAN /\ TravelTime \in Nat
    BY DEF TravelInv, TravelTypeOK, TravelAssumption
<1>2. CASE UNCHANGED travelVars
    BY <1>1, <1>2, WaitingKeeps DEF travelVars
<1>3. ASSUME NEW t \in TravelSpots, Attempt(t) PROVE TravelInv'
    BY <1>3, AttemptKeeps
<1>4. ASSUME NEW t \in TravelSpots, Travel(t) PROVE TravelInv'
    <2>1. /\ time' = time + Journey[pos][t] /\ time + Journey[pos][t] =< TravelTime /\ pos' = t
          /\ UNCHANGED <<glitches, honest, visits, marker, banned>>
        BY <1>4 DEF Travel
    <2>2. Journey[pos][t] \in Nat
        BY <1>1, TimesAreNat
    <2>3. time' \in 0 .. TravelTime /\ time' >= time
        BY <1>1, <2>1, <2>2
    <2> QED BY <1>1, <2>1, <2>3, WaitingKeeps
<1>5. ASSUME NEW i \in 1 .. MaxVisits, PresenceHeartbeat(i) PROVE TravelInv'
    <2>1. i \in DOMAIN visits /\ visits[i].pending /\ visits' = [visits EXCEPT ![i].seen = time]
          /\ UNCHANGED <<time, pos, glitches, marker, banned>> /\ honest' \in BOOLEAN
        BY <1>5 DEF PresenceHeartbeat
    <2>2. visits[i] \in VisitRows /\ visits[i].at \in Nat /\ visits[i].at =< time
        BY <2>1, VisitRow DEF TravelInv
    <2> DEFINE v == [visits[i] EXCEPT !.seen = time]
    <2>3. /\ v \in VisitRows /\ v.spot = visits[i].spot /\ v.at = visits[i].at
          /\ v.at =< v.seen /\ v.seen =< time
        <3>1. time =< time /\ visits[i].at =< time
            BY <1>1, <2>2
        <3>2. v \in VisitRows
            BY <1>1, <2>2 DEF VisitRows
        <3>3. v.spot = visits[i].spot /\ v.at = visits[i].at /\ v.seen = time
            BY <2>2 DEF VisitRows
        <3> QED BY <3>1, <3>2, <3>3
    <2>4. visits' = [visits EXCEPT ![i] = v]
        BY <2>1
    <2> HIDE DEF v
    <2> QED BY <1>1, <2>1, <2>3, <2>4, AnchorMovesKeep
<1>6. ASSUME NEW i \in 1 .. MaxVisits, Decided(i) PROVE TravelInv'
    <2>1. i \in DOMAIN visits
          /\ visits' = [visits EXCEPT ![i] = [@ EXCEPT !.pending = FALSE, !.seen = visits[i].at]]
          /\ UNCHANGED <<time, pos, glitches, honest, marker, banned>>
        BY <1>6 DEF Decided
    <2>2. visits[i] \in VisitRows /\ visits[i].at \in Nat /\ visits[i].at =< time
        BY <2>1, VisitRow DEF TravelInv
    <2> DEFINE v == [visits[i] EXCEPT !.pending = FALSE, !.seen = visits[i].at]
    <2>3. /\ v \in VisitRows /\ v.spot = visits[i].spot /\ v.at = visits[i].at
          /\ v.at =< v.seen /\ v.seen =< time
        <3>1. visits[i].at =< visits[i].at /\ visits[i].at =< time
            BY <1>1, <2>2
        <3>2. v \in VisitRows
            <4>1. visits[i].at \in 0 .. TravelTime
                BY <2>2 DEF VisitRows
            <4> QED BY <2>2, <4>1 DEF VisitRows
        <3>3. v.spot = visits[i].spot /\ v.at = visits[i].at /\ v.seen = visits[i].at
            BY <2>2 DEF VisitRows
        <3> QED BY <3>1, <3>2, <3>3
    <2>4. visits' = [visits EXCEPT ![i] = v]
        BY <2>1
    <2> HIDE DEF v
    <2> QED BY <1>1, <2>1, <2>3, <2>4, AnchorMovesKeep
<1>7. CASE Wait
    <2>1. time' = time + 1 /\ time < TravelTime /\ UNCHANGED <<pos, glitches, honest, visits, marker, banned>>
        BY <1>7 DEF Wait
    <2>2. time' \in 0 .. TravelTime /\ time' >= time
        BY <1>1, <2>1
    <2> QED BY <1>1, <2>1, <2>2, WaitingKeeps
<1> QED BY <1>2, <1>3, <1>4, <1>5, <1>6, <1>7 DEF TravelNext

(* Types of the user, the claims and the marker, whose wait has an end.     *)
THEOREM TravelTypes ==
    ASSUME TravelAssumption PROVE TravelSpec => []TravelTypeOK
<1>1. TravelInit => TravelInv
    BY TravelInvInit
<1>2. TravelInv /\ [TravelNext]_travelVars => TravelInv'
    BY TravelInvStep
<1>3. TravelInv => TravelTypeOK
    BY DEF TravelInv
<1> QED BY <1>1, <1>2, <1>3, PTL DEF TravelSpec

(* A step during a cooldown creates no claim and does not move its end.     *)
LEMMA CooldownStep ==
    ASSUME TravelAssumption, TravelInv, [TravelNext]_travelVars, Active
    PROVE  /\ Len(visits') = Len(visits)
           /\ banned' \/ (marker'.on /\ marker'.retry = marker.retry)
<1>1. marker.on /\ marker \in Markers(Len(visits)) /\ visits \in Seq(VisitRows)
    BY DEF Active, NoMarker, TravelInv, TravelTypeOK
<1>2. CASE UNCHANGED <<visits, marker>>
    BY <1>1, <1>2
<1>3. ASSUME NEW t \in TravelSpots, Attempt(t)
      PROVE  /\ Len(visits') = Len(visits)
             /\ banned' \/ (marker'.on /\ marker'.retry = marker.retry)
    <2>1. HardBan(t) \/ ActiveCooldown(t)
        BY <1>3 DEF Attempt, NewCooldown, Admit
    <2>2. CASE HardBan(t)
        BY <2>2 DEF HardBan, BanUser
    <2>3. CASE ActiveCooldown(t)
        <3>1. CASE BanUser
            BY <3>1 DEF BanUser
        <3>2. CASE UNCHANGED <<marker, visits>>
            BY <1>1, <3>2
        <3>3. CASE marker' = [marker EXCEPT !.lastSpot = t, !.lastAt = time] /\ UNCHANGED visits
            BY <1>1, <3>3 DEF Markers
        <3> QED BY <2>3, <3>1, <3>2, <3>3 DEF ActiveCooldown
    <2> QED BY <2>1, <2>2, <2>3
<1>4. ASSUME NEW i, PresenceHeartbeat(i) \/ Decided(i)
      PROVE  Len(visits') = Len(visits) /\ marker' = marker
    BY <1>1, <1>4 DEF PresenceHeartbeat, Decided
<1> QED BY <1>1, <1>2, <1>3, <1>4 DEF TravelNext, travelVars, Travel, Wait

(* Whatever positions are reported, and whenever: claims that exist are a   *)
(* journey somebody could have made, and a cooldown holds until its end.    *)
THEOREM JourneysHold ==
    ASSUME TravelAssumption PROVE TravelSpec => JourneysArePlausible
<1>1. TravelInit => TravelInv
    BY TravelInvInit
<1>2. TravelInv /\ [TravelNext]_travelVars => TravelInv'
    BY TravelInvStep
<1>3. TravelInv => AdmittedIsPlausible
    BY DEF TravelInv
<1>4. TravelInv /\ [TravelNext]_travelVars
        => [Active => /\ Len(visits') = Len(visits)
                      /\ banned' \/ (marker'.on /\ marker'.retry = marker.retry)]_travelVars
    BY CooldownStep
<1> QED BY <1>1, <1>2, <1>3, <1>4, PTL DEF TravelSpec, JourneysArePlausible, CooldownHolds

-----------------------------------------------------------------------------
(* The honest traveller *)

(* Somebody who is where the phone says had the time to come from every     *)
(* anchor, and what is suspicious is the one bad reading, so the next       *)
(* attempt is always explained by the trusted claim.                        *)
Truthful ==
    /\ \A i \in DOMAIN visits : Journey[Anchor(i)][pos] =< time - visits[i].seen
    /\ marker # NoMarker => glitches = 0
    /\ ~banned

HonestInv == TravelInv /\ (honest => Truthful)

(* Heartbeats come from the Spot, and one reading at most is wrong.         *)
OneGlitch == ~AwayHeartbeats /\ Glitches =< 1

LEMMA HonestIsNoJump ==
    ASSUME TravelAssumption, TravelInv, Truthful
    PROVE  SoftJumps(pos) = {} /\ ~HardJump(pos)
           /\ \A i \in DOMAIN visits : ~SoftViolation(Anchor(i), pos, ObservedAt(visits[i]))
<1>1. pos \in TravelSpots
    BY DEF TravelInv, TravelTypeOK
<1>2. ASSUME NEW i \in DOMAIN visits
      PROVE  /\ ~SoftViolation(Anchor(i), pos, ObservedAt(visits[i]))
             /\ ~HardViolation(Anchor(i), pos, ObservedAt(visits[i]))
    <2>1. /\ Anchor(i) \in TravelSpots /\ visits[i].seen \in Nat /\ time \in Nat
          /\ ObservedAt(visits[i]) \in Nat /\ ObservedAt(visits[i]) =< visits[i].seen
        BY <1>2, VisitRow DEF TravelInv
    <2>2. /\ Journey[Anchor(i)][pos] \in Nat /\ SoftTime[Anchor(i)][pos] \in Nat
          /\ HardTime[Anchor(i)][pos] \in Nat
          /\ HardTime[Anchor(i)][pos] =< SoftTime[Anchor(i)][pos]
          /\ SoftTime[Anchor(i)][pos] =< Journey[Anchor(i)][pos]
        BY <1>1, <2>1, TimesAreNat DEF TravelAssumption
    <2>3. Journey[Anchor(i)][pos] =< time - visits[i].seen
        BY <1>2 DEF Truthful
    <2>4. time - ObservedAt(visits[i]) >= SoftTime[Anchor(i)][pos]
        BY <2>1, <2>2, <2>3
    <2> QED BY <2>1, <2>2, <2>4 DEF SoftViolation, HardViolation, Elapsed, Longer
<1>3. RecentAnchors \subseteq DOMAIN visits
    BY DEF RecentAnchors
<1> QED BY <1>2, <1>3 DEF SoftJumps, HardJump

LEMMA HonestStep ==
    ASSUME TravelAssumption, OneGlitch,
           TravelInv, honest, Truthful, [TravelNext]_travelVars, honest'
    PROVE  Truthful'
<1>1. /\ time \in Nat /\ pos \in TravelSpots /\ glitches \in 0 .. Glitches /\ Glitches \in Nat
      /\ visits \in Seq(VisitRows) /\ DOMAIN visits = 1 .. Len(visits) /\ Len(visits) \in Nat
    BY DEF TravelInv, TravelTypeOK, TravelAssumption
<1>0. time \in Nat /\ Len(visits) \in Nat
    BY <1>1
<1>3. /\ \A s, t, u \in TravelSpots : Journey[s][u] =< Journey[s][t] + Journey[t][u]
      /\ \A s \in TravelSpots : Journey[s][s] = 0
    BY DEF TravelAssumption
<1>4. \A i \in DOMAIN visits : Anchor(i) \in TravelSpots /\ visits[i].seen \in Nat /\ visits[i].at \in Nat
                               /\ visits[i].at =< visits[i].seen /\ visits[i].seen =< time
                               /\ Journey[Anchor(i)][pos] =< time - visits[i].seen
                               /\ Journey[Anchor(i)][pos] \in Nat
    <2> SUFFICES ASSUME NEW i \in DOMAIN visits
                 PROVE  /\ Anchor(i) \in TravelSpots /\ visits[i].seen \in Nat /\ visits[i].at \in Nat
                        /\ visits[i].at =< visits[i].seen /\ visits[i].seen =< time
                        /\ Journey[Anchor(i)][pos] =< time - visits[i].seen
                        /\ Journey[Anchor(i)][pos] \in Nat
        OBVIOUS
    <2>1. /\ Anchor(i) \in TravelSpots /\ visits[i].seen \in Nat /\ visits[i].at \in Nat
          /\ visits[i].seen =< time
        BY VisitRow DEF TravelInv
    <2>2. visits[i].at =< visits[i].seen
        BY DEF TravelInv, VisitTimes
    <2>3. Journey[Anchor(i)][pos] \in Nat
        BY <1>1, <2>1, TimesAreNat
    <2> QED BY <2>1, <2>2, <2>3 DEF Truthful
<1>5. CASE UNCHANGED travelVars
    BY <1>5 DEF Truthful, travelVars, Anchor
<1>6. ASSUME NEW t \in TravelSpots, Attempt(t) PROVE Truthful'
    <2>1. UNCHANGED <<time, pos>> /\ ~HardJump(t)
        BY <1>6, HonestIsNoJump DEF Attempt, BadReading, OneGlitch
    <2>2. (t = pos /\ glitches' = glitches) \/ (glitches = 1 /\ glitches' = 0 /\ SoftJumps(t) # {})
        <3>1. (t = pos /\ glitches' = glitches)
                \/ (glitches > 0 /\ glitches' = glitches - 1 /\ SoftJumps(t) # {})
            BY <1>6 DEF Attempt, BadReading, OneGlitch
        <3>2. Glitches =< 1
            BY DEF OneGlitch
        <3>3. glitches > 0 => glitches = 1 /\ glitches - 1 = 0
            BY <1>1, <3>2
        <3> QED BY <3>1, <3>3
    <2>3. CASE ActiveCooldown(t)
        <3>1. marker \in Markers(Len(visits)) /\ marker # NoMarker
            <4>1. marker # NoMarker
                BY <2>3 DEF ActiveCooldown, Active, NoMarker
            <4> QED BY <4>1 DEF TravelInv, TravelTypeOK
        <3>2. t = pos /\ glitches' = glitches
            BY <2>2, <3>1 DEF Truthful
        <3>3. marker.trusted \in DOMAIN visits
            BY <1>1, <3>1 DEF Markers
        <3>4. ~SecondJump(t)
            BY <3>2, <3>3, HonestIsNoJump DEF SecondJump
        <3>5. UNCHANGED <<visits, banned>>
            BY <2>3, <3>4 DEF ActiveCooldown
        <3> QED BY <2>1, <3>1, <3>2, <3>5 DEF Truthful, Anchor
    <2>4. CASE NewCooldown(t)
        <3>1. SoftJumps(t) # {} /\ UNCHANGED <<visits, banned>>
            BY <2>4 DEF NewCooldown
        <3>2. glitches' = 0
            BY <2>2, <3>1, HonestIsNoJump
        <3> QED BY <2>1, <3>1, <3>2 DEF Truthful, Anchor
    <2>5. CASE Admit(t)
        <3> DEFINE v == [spot |-> t, at |-> time, seen |-> time, pending |-> t \in Timed]
        <3>1. SoftJumps(t) = {} /\ visits' = Append(visits, v) /\ marker' = NoMarker /\ banned' = banned
            BY <2>5 DEF Admit
        <3>2. t = pos
            BY <2>2, <3>1
        <3>3. /\ DOMAIN visits' = 1 .. Len(visits) + 1 /\ visits'[Len(visits) + 1] = v
              /\ \A i \in 1 .. Len(visits) : visits'[i] = visits[i]
            BY <1>1, <3>1
        <3>4. ASSUME NEW i \in DOMAIN visits'
              PROVE  Journey[visits'[i].spot][pos'] =< time' - visits'[i].seen
            <4>1. CASE i \in DOMAIN visits
                BY <1>1, <1>4, <2>1, <3>3, <4>1 DEF Anchor
            <4>2. CASE i = Len(visits) + 1
                <5>1. visits'[i].spot = pos /\ visits'[i].seen = time
                    <6>1. visits'[i] = v /\ v.spot = t /\ v.seen = time
                        BY <3>3, <4>2
                    <6> QED BY <3>2, <6>1
                <5>2. Journey[pos][pos] = 0
                    BY <1>1, <1>3
                <5> QED BY <1>1, <2>1, <5>1, <5>2
            <4>3. i \in DOMAIN visits \/ i = Len(visits) + 1
                BY <1>0, <1>1, <3>3, LastOrEarlier
            <4> QED BY <4>1, <4>2, <4>3
        <3> QED BY <3>1, <3>4 DEF Truthful, Anchor
    <2> QED BY <1>6, <2>1, <2>3, <2>4, <2>5 DEF Attempt, HardBan
<1>7. ASSUME NEW t \in TravelSpots, Travel(t) PROVE Truthful'
    <2>1. time' = time + Journey[pos][t] /\ pos' = t /\ UNCHANGED <<glitches, visits, marker, banned>>
        BY <1>7 DEF Travel
    <2>2. ASSUME NEW i \in DOMAIN visits PROVE Journey[Anchor(i)][t] =< time' - visits[i].seen
        <3>1. Journey[Anchor(i)][t] =< Journey[Anchor(i)][pos] + Journey[pos][t]
            BY <1>1, <1>3, <1>4
        <3>2. Journey[Anchor(i)][t] \in Nat /\ Journey[pos][t] \in Nat
            BY <1>1, <1>4, TimesAreNat
        <3>3. /\ Journey[Anchor(i)][pos] =< time - visits[i].seen /\ visits[i].seen \in Nat
              /\ Journey[Anchor(i)][pos] \in Nat
            BY <1>4
        <3>4. Journey[Anchor(i)][t] =< (time + Journey[pos][t]) - visits[i].seen
            <4> DEFINE way == Journey[Anchor(i)][pos]
                       way2 == Journey[Anchor(i)][t]
                       leg == Journey[pos][t]
                       s == visits[i].seen
            <4>1. way \in Nat /\ way2 \in Nat /\ leg \in Nat /\ s \in Nat
                BY <3>2, <3>3
            <4>2. way =< time - s /\ way2 =< way + leg
                BY <3>1, <3>3
            <4> HIDE DEF way, way2, leg, s
            <4>3. way2 =< (time + leg) - s
                BY <1>0, <4>1, <4>2, WayCovered
            <4> QED BY <4>3 DEF way2, leg, s
        <3> QED BY <2>1, <3>4
    <2> QED BY <2>1, <2>2 DEF Truthful, Anchor
<1>8. ASSUME NEW i, PresenceHeartbeat(i) PROVE Truthful'
    <2>1. /\ i \in DOMAIN visits /\ pos = Anchor(i) /\ visits' = [visits EXCEPT ![i].seen = time]
          /\ UNCHANGED <<time, pos, glitches, marker, banned>>
        BY <1>8 DEF PresenceHeartbeat, Anchor, OneGlitch
    <2>2. visits[i] \in VisitRows
        BY <1>1, <2>1
    <2>3. DOMAIN visits' = DOMAIN visits /\ visits'[i].spot = visits[i].spot /\ visits'[i].seen = time
          /\ \A j \in DOMAIN visits \ {i} : visits'[j] = visits[j]
        BY <1>1, <2>1, <2>2 DEF VisitRows
    <2>4. ASSUME NEW j \in DOMAIN visits PROVE Journey[visits'[j].spot][pos] =< time - visits'[j].seen
        <3>1. CASE j = i
            BY <1>1, <1>3, <2>1, <2>3, <3>1 DEF Anchor
        <3>2. CASE j # i
            BY <1>4, <2>3, <3>2 DEF Anchor
        <3> QED BY <3>1, <3>2
    <2> QED BY <2>1, <2>3, <2>4 DEF Truthful, Anchor
<1>9. ASSUME NEW i, Decided(i) PROVE Truthful'
    <2>1. /\ i \in DOMAIN visits
          /\ visits' = [visits EXCEPT ![i].pending = FALSE, ![i].seen = visits[i].at]
          /\ UNCHANGED <<time, pos, glitches, marker, banned>>
        BY <1>9 DEF Decided
    <2>2. visits[i] \in VisitRows
        BY <1>1, <2>1
    <2>3. DOMAIN visits' = DOMAIN visits /\ visits'[i].spot = visits[i].spot
          /\ visits'[i].seen = visits[i].at
          /\ \A j \in DOMAIN visits \ {i} : visits'[j] = visits[j]
        BY <1>1, <2>1, <2>2 DEF VisitRows
    <2>4. ASSUME NEW j \in DOMAIN visits PROVE Journey[visits'[j].spot][pos] =< time - visits'[j].seen
        <3>1. CASE j = i
            <4>1. /\ Journey[Anchor(i)][pos] =< time - visits[i].seen /\ Journey[Anchor(i)][pos] \in Nat
                  /\ visits[i].at =< visits[i].seen /\ visits[i].at \in Nat /\ visits[i].seen \in Nat
                BY <1>4, <2>1
            <4>2. Journey[Anchor(i)][pos] =< time - visits[i].at
                <5> DEFINE way == Journey[Anchor(i)][pos]
                           s == visits[i].seen
                           u == visits[i].at
                <5>1. way \in Nat /\ s \in Nat /\ u \in Nat /\ way =< time - s /\ u =< s
                    BY <4>1
                <5> HIDE DEF way, s, u
                <5>2. way =< time - u
                    BY <1>0, <5>1, WayCovered
                <5> QED BY <5>2 DEF way, u
            <4> QED BY <2>3, <3>1, <4>2 DEF Anchor
        <3>2. CASE j # i
            BY <1>4, <2>3, <3>2 DEF Anchor
        <3> QED BY <3>1, <3>2
    <2> QED BY <2>1, <2>3, <2>4 DEF Truthful, Anchor
<1>10. CASE Wait
    <2>1. time' = time + 1 /\ UNCHANGED <<pos, glitches, visits, marker, banned>>
        BY <1>10 DEF Wait
    <2>2. \A i \in DOMAIN visits : Journey[Anchor(i)][pos] =< time' - visits[i].seen
        <3> SUFFICES ASSUME NEW i \in DOMAIN visits
                     PROVE  Journey[Anchor(i)][pos] =< time' - visits[i].seen
            OBVIOUS
        <3>1. /\ Journey[Anchor(i)][pos] =< time - visits[i].seen /\ Journey[Anchor(i)][pos] \in Nat
              /\ visits[i].seen \in Nat
            BY <1>4
        <3> DEFINE way == Journey[Anchor(i)][pos]
                   s == visits[i].seen
        <3>2. way \in Nat /\ s \in Nat /\ way =< time - s
            BY <3>1
        <3> HIDE DEF way, s
        <3>3. way =< (time + 1) - s
            BY <1>0, <3>2
        <3> QED BY <2>1, <3>3 DEF way, s
    <2> QED BY <2>1, <2>2 DEF Truthful, Anchor
<1> QED BY <1>5, <1>6, <1>7, <1>8, <1>9, <1>10 DEF TravelNext

(* A user of whom no reading was forged is never banned, but for one bad    *)
(* reading, whatever the Spots and speed limits and whatever others report; *)
(* heartbeats must come from the Spot, as the README says of the one the    *)
(* code records anyway.                                                     *)
THEOREM HonestStaysUnbanned ==
    ASSUME TravelAssumption, OneGlitch
    PROVE  TravelSpec => []HonestNeverBanned
<1>1. TravelInit => HonestInv
    <2> SUFFICES ASSUME TravelInit PROVE HonestInv
        OBVIOUS
    <2>1. TravelInv
        BY TravelInvInit
    <2>2. DOMAIN visits = {} /\ marker = NoMarker /\ banned = FALSE
        BY DEF TravelInit
    <2> QED BY <2>1, <2>2 DEF HonestInv, Truthful
<1>2. HonestInv /\ [TravelNext]_travelVars => HonestInv'
    <2> SUFFICES ASSUME HonestInv, [TravelNext]_travelVars PROVE HonestInv'
        OBVIOUS
    <2>1. TravelInv /\ TravelInv' /\ (honest => Truthful)
        BY TravelInvStep DEF HonestInv
    <2>2. honest' => honest
        BY DEF TravelNext, travelVars, Attempt, Travel, PresenceHeartbeat, Decided, Wait
    <2> QED BY <2>1, <2>2, HonestStep DEF HonestInv
<1>3. HonestInv => HonestNeverBanned
    BY DEF HonestInv, Truthful, HonestNeverBanned
<1> QED BY <1>1, <1>2, <1>3, PTL DEF TravelSpec
=============================================================================
