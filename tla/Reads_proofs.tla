---------------------------- MODULE Reads_proofs ----------------------------
(***************************************************************************)
(* Proofs about what is shown of the Spots: the announcements on X, for    *)
(* any number of Spots, any limits and any loss of answers, and the index  *)
(* of the Spot cache, for any tasks, Spots and times.                      *)
(***************************************************************************)
EXTENDS XAutoPoster, CacheRefresh, SequenceTheorems, FiniteSetTheorems, TLAPS

-----------------------------------------------------------------------------
(* Announcements *)

(* The worker is a record whatever its parts are.                           *)
WorkerRecord ==
    worker \in [pc : {worker.pc}, now : {worker.now}, todo : {worker.todo},
                next : {worker.next}, answer : {worker.answer}]

(* A Spot that X shows is no longer taken up.                               *)
ShownIsSettled ==
    \A s \in PosterSpots :
        \/ shown[s] = 0
        \/ shown[s] = 1 /\ state[s].st \in {"sending", "posted", "uncertain"}

(* The Spot being sent is not shown yet, and marked; when the answer is     *)
(* there and the Post is shown, the answer does not deny it.                *)
SentOnce ==
    This \in PosterSpots =>
        /\ worker.pc \in {"sending", "answered"} => state[This].st = "sending"
        /\ worker.pc = "sending" => shown[This] = 0
        /\ worker.pc = "answered" /\ shown[This] = 1 =>
              worker.answer \in {"created", "no_id", "server_error", "lost"}

PosterInv ==
    /\ shown \in [PosterSpots -> Nat] /\ state = [s \in PosterSpots |-> state[s]]
    /\ WorkerRecord /\ ShownIsSettled /\ SentOnce

LEMMA PosterInvInit == PosterInit => PosterInv
BY DEF PosterInit, PosterInv, NoState, Off, WorkerRecord, ShownIsSettled, SentOnce

(* The next Spot of the pass, and a fresh start of the worker.              *)
LEMMA NextSpotIs ==
    ASSUME PosterInv, worker' = NextSpot
    PROVE  worker'.pc = "posting" /\ WorkerRecord'
<1>1. PICK v : v = [worker EXCEPT !.todo = Tail(@)]
    OBVIOUS
<1>2. PICK u : u = [v EXCEPT !.pc = "posting"]
    OBVIOUS
<1>3. v \in [pc : {v.pc}, now : {v.now}, todo : {v.todo}, next : {v.next}, answer : {v.answer}]
    BY <1>1 DEF PosterInv, WorkerRecord
<1>4. /\ u \in [pc : {u.pc}, now : {u.now}, todo : {u.todo}, next : {u.next}, answer : {u.answer}]
      /\ u.pc = "posting"
    BY <1>2, <1>3
<1>5. worker' = [u EXCEPT !.answer = "-"]
    BY <1>1, <1>2 DEF NextSpot
<1> QED BY <1>4, <1>5 DEF WorkerRecord

(* The worker goes to a place where no request is under way.                *)
LEMMA NothingSent ==
    ASSUME PosterInv, shown' = shown, worker'.pc \notin {"sending", "answered"},
           WorkerRecord', state' = state
    PROVE  PosterInv'
<1>1. ShownIsSettled'
    BY DEF PosterInv, ShownIsSettled
<1>2. SentOnce'
    BY DEF SentOnce
<1> QED BY <1>1, <1>2 DEF PosterInv

(* A Spot that may be taken up gets a new state.                            *)
LEMMA TakenUp ==
    ASSUME PosterInv, ~Settled(This), shown' = shown, NEW st, NEW at, Store(This, st, at)
    PROVE  /\ ShownIsSettled' /\ (state = [s \in PosterSpots |-> state[s]])'
           /\ This \in PosterSpots => state'[This].st = st /\ shown[This] = 0
<1>1. state' = [s \in PosterSpots |-> IF s = This THEN [st |-> st, at |-> at] ELSE state[s]]
    BY DEF Store, PosterInv
<1>2. This \in PosterSpots => shown[This] = 0
    BY DEF PosterInv, ShownIsSettled, Settled
<1> QED BY <1>1, <1>2 DEF PosterInv, ShownIsSettled

LEMMA PosterInvStep == PosterInv /\ [PosterNext]_posterVars => PosterInv'
<1> SUFFICES ASSUME PosterInv, [PosterNext]_posterVars PROVE PosterInv'
    OBVIOUS
<1>1. CASE SpotStep \/ ClockTick \/ StartDisabled \/ SwitchOn \/ UNCHANGED posterVars
    <2>1. UNCHANGED <<state, worker, shown>>
        BY <1>1 DEF SpotStep, Close, Publish, ClockTick, StartDisabled, SwitchOn, posterVars, rowVars
    <2> QED BY <2>1 DEF PosterInv, WorkerRecord, ShownIsSettled, SentOnce, This
<1>2. CASE StartEnabled \/ ReadWork \/ Skip \/ EndPass \/ PosterCrash
    <2>1. state' = state /\ shown' = shown
        BY <1>2 DEF StartEnabled, ReadWork, Skip, EndPass, PosterCrash, rowVars
    <2>2. worker'.pc \notin {"sending", "answered"} /\ WorkerRecord'
        <3>1. CASE StartEnabled
            BY <3>1 DEF StartEnabled, PosterInv, WorkerRecord
        <3>2. CASE ReadWork
            BY <3>2 DEF ReadWork, WorkerRecord
        <3>3. CASE Skip
            BY <3>3, NextSpotIs DEF Skip, WorkerRecord
        <3>4. CASE EndPass \/ PosterCrash
            BY <3>4 DEF EndPass, PosterCrash, Off, WorkerRecord
        <3> QED BY <1>2, <3>1, <3>2, <3>3, <3>4
    <2> QED BY <2>1, <2>2, NothingSent
<1>3. CASE PrewarmFails
    <2>1. ~Settled(This) /\ shown' = shown /\ Store(This, "retry", worker.now + RetryAfter)
          /\ worker' = NextSpot
        BY <1>3 DEF PrewarmFails
    <2>2. ShownIsSettled' /\ (state = [s \in PosterSpots |-> state[s]])'
        BY <2>1, TakenUp
    <2>3. WorkerRecord' /\ SentOnce'
        BY <2>1, NextSpotIs DEF WorkerRecord, SentOnce
    <2> QED BY <2>1, <2>2, <2>3 DEF PosterInv
<1>4. CASE StartSending
    <2>1. ~Settled(This) /\ shown' = shown /\ Store(This, "sending", 0)
          /\ worker' = [worker EXCEPT !.pc = "sending"]
        BY <1>4 DEF StartSending
    <2>2. /\ ShownIsSettled' /\ (state = [s \in PosterSpots |-> state[s]])'
          /\ This \in PosterSpots => state'[This].st = "sending" /\ shown[This] = 0
        BY <2>1, TakenUp
    <2>3. worker'.pc = "sending" /\ WorkerRecord' /\ This' = This
        BY <2>1 DEF PosterInv, WorkerRecord, This
    <2>4. SentOnce'
        BY <2>1, <2>2, <2>3 DEF SentOnce
    <2> QED BY <2>1, <2>2, <2>3, <2>4 DEF PosterInv
<1>5. CASE XCreates \/ XRefuses
    <2>1. PICK answer :
              /\ worker.pc = "sending" /\ state' = state
              /\ worker' = [[worker EXCEPT !.pc = "answered"] EXCEPT !.answer = answer]
              /\ \/ answer \in {"created", "no_id", "server_error", "lost"}
                 \/ shown' = shown
              /\ shown' \in {shown, [shown EXCEPT ![This] = @ + 1]}
        BY <1>5, Zenon DEF XCreates, XRefuses, rowVars
    <2>2. worker'.pc = "answered" /\ worker'.answer = answer /\ WorkerRecord' /\ This' = This
        BY <2>1 DEF PosterInv, WorkerRecord, This
    <2>3. This \in PosterSpots => shown[This] = 0 /\ state[This].st = "sending"
        BY <2>1 DEF PosterInv, SentOnce
    <2>4. /\ shown' \in [PosterSpots -> Nat]
          /\ \A s \in PosterSpots : shown'[s] = shown[s] \/ (s = This /\ shown'[s] = 1)
        BY <2>1, <2>3 DEF PosterInv
    <2>5. ShownIsSettled'
        BY <2>1, <2>3, <2>4 DEF PosterInv, ShownIsSettled
    <2>6. SentOnce'
        BY <2>1, <2>2, <2>3, <2>4 DEF SentOnce
    <2> QED BY <2>1, <2>2, <2>4, <2>5, <2>6 DEF PosterInv
<1>6. CASE RecordAnswer
    <2>1. PICK at : /\ Store(This, Classified(worker.answer), at) /\ shown' = shown
                    /\ worker.pc = "answered" /\ worker' = NextSpot
        BY <1>6 DEF RecordAnswer
    <2>2. state' = [s \in PosterSpots |->
                       IF s = This THEN [st |-> Classified(worker.answer), at |-> at] ELSE state[s]]
        BY <2>1 DEF Store, PosterInv
    <2>3. This \in PosterSpots /\ shown[This] = 1 => Classified(worker.answer) \in {"posted", "uncertain"}
        BY <2>1 DEF PosterInv, SentOnce, Classified
    <2>4. ShownIsSettled'
        BY <2>1, <2>2, <2>3 DEF PosterInv, ShownIsSettled
    <2>5. WorkerRecord' /\ SentOnce'
        BY <2>1, NextSpotIs DEF WorkerRecord, SentOnce
    <2> QED BY <2>1, <2>2, <2>4, <2>5 DEF PosterInv
<1> QED BY <1>1, <1>2, <1>3, <1>4, <1>5, <1>6, Zenon DEF PosterNext, WorkerStep, BeginPass

(* post_spot_once: no loss of an answer, error of X, stop of the process,   *)
(* switch of the mode or retry announces a Spot twice.                      *)
THEOREM PosterAnnouncesOnce == PosterSpec => []AnnouncedOnce
<1>1. PosterInv => AnnouncedOnce
    BY DEF PosterInv, ShownIsSettled, AnnouncedOnce
<1> QED BY <1>1, PosterInvInit, PosterInvStep, PTL DEF PosterSpec

-----------------------------------------------------------------------------
(* What a pass reads: the Spots of a page, in their order *)

(* A total order of the Spots.                                              *)
Orders(order) ==
    \A s, t, u \in PosterSpots :
        /\ <<s, s>> \in order /\ (<<s, t>> \in order \/ <<t, s>> \in order)
        /\ <<s, t>> \in order /\ <<t, s>> \in order => s = t
        /\ <<s, t>> \in order /\ <<t, u>> \in order => <<s, u>> \in order

LEMMA TheOrders ==
    ASSUME PosterAssumption, act \in [PosterSpots -> Nat]
    PROVE  Orders(ByActivation) /\ Orders(ById)
<1>1. \A s \in PosterSpots : s \in Nat /\ act[s] \in Nat
    BY DEF PosterSpots
<1>2. SUFFICES ASSUME NEW s \in PosterSpots, NEW t \in PosterSpots, NEW u \in PosterSpots
               PROVE  /\ Earlier(s, s) /\ (Earlier(s, t) \/ Earlier(t, s))
                      /\ Earlier(s, t) /\ Earlier(t, s) => s = t
                      /\ Earlier(s, t) /\ Earlier(t, u) => Earlier(s, u)
    <2>1. ASSUME NEW s \in PosterSpots, NEW t \in PosterSpots
          PROVE  /\ <<s, t>> \in ByActivation <=> Earlier(s, t)
                 /\ <<s, t>> \in ById <=> s =< t
        BY DEF ByActivation, ById
    <2>2. Orders(ById)
        <3>1. SUFFICES ASSUME NEW s \in PosterSpots, NEW t \in PosterSpots, NEW u \in PosterSpots
                       PROVE  /\ s =< s /\ (s =< t \/ t =< s) /\ (s =< t /\ t =< s => s = t)
                              /\ s =< t /\ t =< u => s =< u
            BY <2>1, Zenon DEF Orders
        <3> QED BY <1>1
    <2> QED BY <2>1, <2>2, Zenon DEF Orders
<1>3. s \in Nat /\ t \in Nat /\ u \in Nat /\ act[s] \in Nat /\ act[t] \in Nat /\ act[u] \in Nat
    BY <1>1
<1> QED BY <1>3 DEF Earlier

(* Places are numbers up to the size, and tell the rows apart.              *)
LEMMA PlaceIs ==
    ASSUME PosterAssumption, NEW order, Orders(order), NEW S \in SUBSET PosterSpots
    PROVE  /\ IsFiniteSet(S) /\ Cardinality(S) \in Nat
           /\ \A s \in S : Place(S, order, s) \in 1 .. Cardinality(S)
           /\ \A s, t \in S : <<s, t>> \in order <=> Place(S, order, s) =< Place(S, order, t)
           /\ \A s, t \in S : Place(S, order, s) = Place(S, order, t) => s = t
<1> DEFINE below(s) == {t \in S : <<t, s>> \in order}
<1>1. IsFiniteSet(S) /\ Cardinality(S) \in Nat
    <2>1. NumSpots \in Int /\ IsFiniteSet(1 .. NumSpots)
        BY FS_Interval DEF PosterAssumption
    <2> QED BY <2>1, FS_Subset, FS_CardinalityType DEF PosterSpots
<1>2. \A s \in S : /\ below(s) \subseteq S /\ s \in below(s) /\ IsFiniteSet(below(s))
                   /\ Cardinality(below(s)) \in Nat /\ Place(S, order, s) = Cardinality(below(s))
    BY <1>1, FS_Subset, FS_CardinalityType DEF Orders, Place
<1>3. \A s \in S : Cardinality(below(s)) =< Cardinality(S)
    BY <1>1, <1>2, FS_Subset
<1>4. \A s \in S : Cardinality(below(s)) # 0
    BY <1>2, FS_EmptySet
<1>5. ASSUME NEW s \in S, NEW t \in S, <<s, t>> \in order
      PROVE  Cardinality(below(s)) =< Cardinality(below(t))
    <2>1. below(s) \subseteq below(t)
        BY <1>5 DEF Orders
    <2> QED BY <1>2, <2>1, FS_Subset
<1>6. ASSUME NEW s \in S, NEW t \in S, <<s, t>> \notin order
      PROVE  Cardinality(below(t)) < Cardinality(below(s))
    <2>1. below(t) \subseteq below(s) /\ below(t) # below(s)
        BY <1>2, <1>6 DEF Orders
    <2>2. Cardinality(below(t)) =< Cardinality(below(s)) /\ Cardinality(below(t)) # Cardinality(below(s))
        BY <1>2, <2>1, FS_Subset
    <2> HIDE DEF below
    <2> QED BY <1>2, <2>2
<1> HIDE DEF below
<1>7. \A s \in S : Place(S, order, s) \in 1 .. Cardinality(S)
    BY <1>1, <1>2, <1>3, <1>4
<1>8. ASSUME NEW s \in S, NEW t \in S
      PROVE  <<s, t>> \in order <=> Place(S, order, s) =< Place(S, order, t)
    <2>1. /\ Place(S, order, s) = Cardinality(below(s)) /\ Cardinality(below(s)) \in Nat
          /\ Place(S, order, t) = Cardinality(below(t)) /\ Cardinality(below(t)) \in Nat
        BY <1>2
    <2> QED BY <1>5, <1>6, <2>1
<1>9. \A s, t \in S : Place(S, order, s) = Place(S, order, t) => s = t
    BY <1>7, <1>8 DEF Orders
<1> QED BY <1>1, <1>7, <1>8, <1>9

(* All rows are listed, each at its place.                                  *)
LEMMA SortedIs ==
    ASSUME PosterAssumption, NEW order, Orders(order), NEW S \in SUBSET PosterSpots
    PROVE  /\ Sorted(S, order) \in Seq(S) /\ Len(Sorted(S, order)) = Cardinality(S)
           /\ \A s \in S : \E i \in 1 .. Cardinality(S) : Sorted(S, order)[i] = s
           /\ \A i \in 1 .. Cardinality(S) :
                 Sorted(S, order)[i] \in S /\ Place(S, order, Sorted(S, order)[i]) = i
<1> DEFINE n == Cardinality(S)  f == [s \in S |-> Place(S, order, s)]
<1>1. /\ IsFiniteSet(S) /\ n \in Nat /\ \A s \in S : Place(S, order, s) \in 1 .. n
      /\ \A s, t \in S : Place(S, order, s) = Place(S, order, t) => s = t
    BY PlaceIs
<1>2. IsFiniteSet(1 .. n) /\ Cardinality(1 .. n) = n
    BY <1>1, FS_Interval
<1>3. f \in Injection(S, 1 .. n)
    BY <1>1 DEF Injection, IsInjective
<1>4. f \in Surjection(S, 1 .. n)
    BY <1>2, <1>3, FS_Injection
<1>5. \A i \in 1 .. n : \E s \in S : Place(S, order, s) = i
    BY <1>4 DEF Surjection
<1>6. \A i \in 1 .. n : Sorted(S, order)[i] \in S /\ Place(S, order, Sorted(S, order)[i]) = i
    BY <1>5 DEF Sorted
<1>7. \A s \in S : Sorted(S, order)[Place(S, order, s)] = s
    BY <1>1, <1>6
<1>8. Sorted(S, order) \in Seq(S) /\ Len(Sorted(S, order)) = n
    <2>1. Sorted(S, order) = [i \in 1 .. n |-> Sorted(S, order)[i]]
        BY DEF Sorted
    <2> HIDE DEF n
    <2> QED BY <1>1, <1>6, <2>1
<1> QED BY <1>1, <1>6, <1>7, <1>8

(* A page that is not full is all there is.                                 *)
LEMMA PageIs ==
    ASSUME PosterAssumption, NEW order, Orders(order), NEW S \in SUBSET PosterSpots, NEW n \in Nat
    PROVE  /\ Page(S, order, n) \subseteq S /\ Cardinality(Page(S, order, n)) =< n
           /\ Cardinality(Page(S, order, n)) < n => Page(S, order, n) = S
<1> DEFINE P == Page(S, order, n)
<1>1. /\ IsFiniteSet(S) /\ Cardinality(S) \in Nat /\ \A s \in S : Place(S, order, s) \in 1 .. Cardinality(S)
      /\ \A s, t \in S : Place(S, order, s) = Place(S, order, t) => s = t
    BY PlaceIs
<1>2. IsFiniteSet(1 .. n) /\ Cardinality(1 .. n) = n
    BY FS_Interval
<1>3. P \subseteq S /\ IsFiniteSet(P) /\ Cardinality(P) \in Nat
    BY <1>1, FS_Subset, FS_CardinalityType DEF Page
<1>4. Cardinality(P) =< n
    <2> DEFINE f == [s \in P |-> Place(S, order, s)]
    <2>1. f \in Injection(P, 1 .. n)
        BY <1>1 DEF Injection, IsInjective, Page
    <2> QED BY <1>2, <2>1, FS_Injection
<1>5. CASE Cardinality(S) =< n
    BY <1>1, <1>4, <1>5 DEF Page
<1>6. CASE n < Cardinality(S)
    <2> DEFINE g == [i \in 1 .. n |-> Sorted(S, order)[i]]
    <2>1. \A i \in 1 .. n : Sorted(S, order)[i] \in S /\ Place(S, order, Sorted(S, order)[i]) = i
        BY <1>1, <1>6, SortedIs
    <2>2. g \in Injection(1 .. n, P)
        BY <2>1 DEF Injection, IsInjective, Page
    <2>3. n =< Cardinality(P)
        BY <1>2, <1>3, <2>2, FS_Injection
    <2> HIDE DEF P
    <2> QED BY <1>3, <1>4, <2>3 DEF P
<1> QED BY <1>1, <1>3, <1>4, <1>5, <1>6

(***************************************************************************)
(* The cursor.  A pass owes the Spots that its next cursor has passed: they *)
(* are on its list, or have a state.  A cursor is no later than the clock,  *)
(* no earlier than the start of the enabled period, and one with a Spot is  *)
(* at that Spot, which is published: so a Spot published from now on comes  *)
(* after it, by its time or, in the same second, by its id.                 *)
(***************************************************************************)
Past(c, s) == act[s] < c.ts \/ (act[s] = c.ts /\ s =< c.id)

WellPlaced(c) ==
    /\ c.ts \in Nat /\ c.id \in Int /\ since =< c.ts /\ c.ts =< clock
    /\ c.id > 0 => c.id \in PosterSpots /\ spot[c.id] # "draft" /\ act[c.id] = c.ts

CursorTypes ==
    /\ clock \in Nat /\ since \in Nat /\ act \in [PosterSpots -> Nat]
    /\ spot = [s \in PosterSpots |-> spot[s]]
    /\ worker.pc \in {"off", "idle", "posting", "sending", "answered"}

(* A Spot on the list, if it has no state, is of this enabled period.       *)
TakenUpSince(s) == spot[s] # "draft" /\ (state[s].st = "none" => act[s] >= since)

PassKept ==
    worker.pc \in {"posting", "sending", "answered"} =>
        /\ mode = "enabled" /\ WellPlaced(worker.next) /\ worker.todo \in Seq(PosterSpots)
        /\ \A i \in DOMAIN worker.todo : TakenUpSince(worker.todo[i])
        /\ \A s \in PosterSpots :
              Running(s) /\ act[s] >= since /\ Past(worker.next, s) =>
                  state[s].st # "none" \/ \E i \in DOMAIN worker.todo : worker.todo[i] = s
        /\ worker.pc # "posting" => worker.todo # <<>> /\ state[This].st # "none"
        /\ worker.pc = "answered" =>
              worker.answer \in {"created", "no_id", "server_error", "lost", "refused", "invalid"}

CursorInv == PosterInv /\ CursorTypes /\ WellPlaced(cursor) /\ CursorSkipsNone /\ PassKept

(* The query asks for what the cursor has not passed.                       *)
LEMMA PastIs ==
    ASSUME CursorTypes, WellPlaced(cursor), PosterAssumption
    PROVE  \A s \in PosterSpots : After(s) <=> ~Past(cursor, s)
BY DEF CursorTypes, WellPlaced, After, Past, PosterSpots

LEMMA CursorInvInit == ASSUME PosterAssumption PROVE PosterInit => CursorInv
<1> SUFFICES ASSUME PosterInit PROVE CursorInv
    OBVIOUS
<1>1. CursorTypes /\ WellPlaced(cursor) /\ CursorSkipsNone /\ PassKept
    BY DEF PosterInit, CursorTypes, WellPlaced, CursorSkipsNone, PassKept, Off
<1> QED BY <1>1, PosterInvInit DEF CursorInv

(* What Spots and clock may do: time goes on, Spots end, and a Spot is      *)
(* published now or later, the last of its second.                          *)
RowsAge ==
    /\ clock' \in Nat /\ clock =< clock' /\ since' = since /\ act' \in [PosterSpots -> Nat]
    /\ \A s \in PosterSpots :
          \/ spot'[s] = spot[s] /\ act'[s] = act[s]
          \/ spot[s] # "draft" /\ spot'[s] = "over" /\ act'[s] = act[s]
          \/ /\ spot[s] = "draft" /\ spot'[s] # "draft" /\ clock =< act'[s]
             /\ \A t \in PosterSpots : spot[t] # "draft" /\ act[t] = act'[s] => t < s

(* A cursor stays well placed, and nothing new falls behind it.             *)
LEMMA Aging ==
    ASSUME PosterAssumption, CursorTypes, RowsAge, NEW c, WellPlaced(c)
    PROVE  /\ WellPlaced(c)'
           /\ \A s \in PosterSpots :
                 Running(s)' /\ Past(c, s)' => Running(s) /\ Past(c, s) /\ act'[s] = act[s]
<1>1. WellPlaced(c)'
    BY DEF CursorTypes, RowsAge, WellPlaced
<1>2. ASSUME NEW s \in PosterSpots, Running(s)', Past(c, s)'
      PROVE  Running(s) /\ Past(c, s) /\ act'[s] = act[s]
    <2>1. (act'[s] = c.ts /\ s =< c.id) \/ act'[s] < c.ts
        BY <1>2 DEF Past
    <2>2. s \in Nat /\ s > 0 /\ act[s] \in Nat /\ act'[s] \in Nat
        BY DEF PosterSpots, CursorTypes, RowsAge
    <2>3. spot'[s] = "open" /\ act'[s] =< clock'
        BY <1>2 DEF Running
    <2>4. ~(/\ spot[s] = "draft" /\ spot'[s] # "draft" /\ clock =< act'[s]
            /\ \A t \in PosterSpots : spot[t] # "draft" /\ act[t] = act'[s] => t < s)
        BY <2>1, <2>2 DEF WellPlaced, CursorTypes
    <2>5. spot[s] = "open" /\ act'[s] = act[s]
        BY <2>3, <2>4 DEF RowsAge
    <2> QED BY <2>1, <2>2, <2>5 DEF Running, Past, WellPlaced, CursorTypes
<1> QED BY <1>1, <1>2

(* The environment's steps are of this kind.                                *)
LEMMA SpotsAge ==
    ASSUME PosterAssumption, CursorTypes, SpotStep \/ ClockTick \/ UNCHANGED posterVars
    PROVE  RowsAge /\ CursorTypes' /\ UNCHANGED <<mode, cursor, state, worker>>
<1>1. CASE UNCHANGED posterVars
    BY <1>1 DEF posterVars, rowVars, RowsAge, CursorTypes
<1>2. CASE ClockTick
    BY <1>2 DEF ClockTick, rowVars, RowsAge, CursorTypes
<1>3. ASSUME NEW s \in PosterSpots, Close(s)
      PROVE  RowsAge /\ CursorTypes' /\ UNCHANGED <<mode, cursor, state, worker>>
    BY <1>3 DEF Close, RowsAge, CursorTypes
<1>4. ASSUME NEW s \in PosterSpots, NEW start \in StartTimes, Publish(s, start)
      PROVE  RowsAge /\ CursorTypes' /\ UNCHANGED <<mode, cursor, state, worker>>
    <2>1. start \in Nat /\ clock =< start
        BY DEF StartTimes, Times, CursorTypes
    <2>2. \A t \in PosterSpots : spot[t] # "draft" /\ act[t] = start => t < s
        BY <1>4 DEF Publish, InOrder
    <2>3. CursorTypes' /\ UNCHANGED <<clock, since, mode, cursor, state, worker>>
        BY <1>4, <2>1 DEF Publish, CursorTypes
    <2>4. \A t \in PosterSpots : t # s => spot'[t] = spot[t] /\ act'[t] = act[t]
        BY <1>4 DEF Publish, CursorTypes
    <2>5. spot[s] = "draft" /\ spot'[s] # "draft" /\ act'[s] = start
        BY <1>4 DEF Publish, CursorTypes
    <2> QED BY <2>1, <2>2, <2>3, <2>4, <2>5 DEF RowsAge, CursorTypes
<1> QED BY <1>1, <1>2, <1>3, <1>4 DEF SpotStep

(* The list of a pass: the retries, then the candidates.                    *)
Listing(R, C) == Sorted(R, ById) \o Sorted(C \ R, ByActivation)

LEMMA ListingIs ==
    ASSUME PosterAssumption, act \in [PosterSpots -> Nat],
           NEW R \in SUBSET PosterSpots, NEW C \in SUBSET PosterSpots
    PROVE  /\ Listing(R, C) \in Seq(PosterSpots)
           /\ \A i \in DOMAIN Listing(R, C) : Listing(R, C)[i] \in R \cup C
           /\ \A s \in R \cup C : \E i \in DOMAIN Listing(R, C) : Listing(R, C)[i] = s
<1> DEFINE o == ById  p == ByActivation  D == C \ R  todo == Listing(R, C)
<1>0. Orders(o) /\ Orders(p) /\ todo = Sorted(R, o) \o Sorted(D, p)
    BY TheOrders DEF Listing
<1> HIDE DEF o, p, todo
<1>1. D \in SUBSET PosterSpots
    OBVIOUS
<1> HIDE DEF D
<1>2. /\ Cardinality(R) \in Nat /\ Cardinality(D) \in Nat
      /\ Sorted(R, o) \in Seq(R) /\ Len(Sorted(R, o)) = Cardinality(R)
      /\ Sorted(D, p) \in Seq(D) /\ Len(Sorted(D, p)) = Cardinality(D)
      /\ \A s \in R : \E i \in 1 .. Cardinality(R) : Sorted(R, o)[i] = s
      /\ \A s \in D : \E i \in 1 .. Cardinality(D) : Sorted(D, p)[i] = s
    BY <1>0, <1>1, PlaceIs, SortedIs
<1> DEFINE a == Sorted(R, o)  b == Sorted(D, p)
<1>3. /\ a \in Seq(PosterSpots) /\ b \in Seq(PosterSpots) /\ Len(a) \in Nat /\ Len(b) \in Nat
      /\ todo = a \o b
    BY <1>0, <1>1, <1>2
<1> HIDE DEF a, b
<1>4. /\ todo \in Seq(PosterSpots) /\ DOMAIN todo = 1 .. Len(a) + Len(b)
      /\ \A i \in 1 .. Len(a) : todo[i] = a[i]
      /\ \A i \in 1 .. Len(b) : todo[Len(a) + i] = b[i]
      /\ \A i \in DOMAIN todo : i \in 1 .. Len(a) \/ i - Len(a) \in 1 .. Len(b)
    BY <1>3
<1>5. \A i \in DOMAIN todo : todo[i] \in R \cup C
    <2>1. /\ \A i \in 1 .. Len(a) : a[i] \in R
          /\ \A i \in 1 .. Len(b) : b[i] \in D
        BY <1>2 DEF a, b
    <2> SUFFICES ASSUME NEW i \in DOMAIN todo PROVE todo[i] \in R \cup C
        OBVIOUS
    <2>2. CASE i \in 1 .. Len(a)
        BY <1>4, <2>1, <2>2
    <2>3. CASE i - Len(a) \in 1 .. Len(b)
        <3>1. todo[Len(a) + (i - Len(a))] = b[i - Len(a)] /\ Len(a) + (i - Len(a)) = i
            BY <1>3, <1>4, <2>3
        <3> QED BY <2>1, <2>3, <3>1 DEF D
    <2> QED BY <1>4, <2>2, <2>3
<1>6. \A s \in R \cup C : \E i \in DOMAIN todo : todo[i] = s
    <2> SUFFICES ASSUME NEW s \in R \cup C PROVE \E i \in DOMAIN todo : todo[i] = s
        OBVIOUS
    <2>1. CASE s \in R
        <3>1. PICK i \in 1 .. Len(a) : a[i] = s
            BY <1>2, <2>1 DEF a
        <3>2. i \in DOMAIN todo /\ todo[i] = s
            BY <1>3, <1>4, <3>1
        <3> QED BY <3>2
    <2>2. CASE s \in D
        <3>1. PICK i \in 1 .. Len(b) : b[i] = s
            BY <1>2, <2>2 DEF b
        <3>2. Len(a) + i \in DOMAIN todo /\ todo[Len(a) + i] = s
            BY <1>3, <1>4, <3>1
        <3> QED BY <3>2
    <2>3. s \in R \/ s \in D
        BY DEF D
    <2> QED BY <2>1, <2>2, <2>3
<1> QED BY <1>4, <1>5, <1>6 DEF todo

(* The last of a page of candidates is one of them, and all of them that    *)
(* come before it are on the page.                                          *)
LEMMA LastIs ==
    ASSUME PosterAssumption, act \in [PosterSpots -> Nat], NEW S \in SUBSET PosterSpots, NEW n \in Nat,
           Page(S, ByActivation, n) # {}
    PROVE  LET last == Last(Sorted(Page(S, ByActivation, n), ByActivation))
           IN  /\ last \in Page(S, ByActivation, n)
               /\ \A s \in S : Earlier(s, last) => s \in Page(S, ByActivation, n)
<1> DEFINE P == Page(S, ByActivation, n)  last == Last(Sorted(P, ByActivation))
<1>1. Orders(ByActivation) /\ P \subseteq S
    BY TheOrders, PageIs
<1>2. last \in P
    <2>1. IsFiniteSet(P) /\ Cardinality(P) \in Nat /\ Cardinality(P) # 0
        BY <1>1, PlaceIs, FS_EmptySet
    <2>2. Sorted(P, ByActivation) \in Seq(P) /\ Len(Sorted(P, ByActivation)) = Cardinality(P)
        BY <1>1, SortedIs
    <2> HIDE DEF P
    <2> QED BY <2>1, <2>2 DEF Last
<1>3. ASSUME NEW s \in S, Earlier(s, last) PROVE s \in P
    <2>1. <<s, last>> \in ByActivation /\ last \in S
        BY <1>1, <1>2, <1>3 DEF ByActivation
    <2>2. Place(S, ByActivation, s) =< Place(S, ByActivation, last)
        BY <1>1, <2>1, PlaceIs
    <2>3. Place(S, ByActivation, last) =< n
        BY <1>2 DEF Page
    <2>4. Cardinality(S) \in Nat /\ Place(S, ByActivation, s) \in 1 .. Cardinality(S)
          /\ Place(S, ByActivation, last) \in 1 .. Cardinality(S)
        BY <1>1, <2>1, PlaceIs
    <2>5. Place(S, ByActivation, s) =< n
        BY <2>2, <2>3, <2>4
    <2> QED BY <2>5 DEF Page
<1> QED BY <1>2, <1>3

(* What a pass takes up, and where it leaves the cursor.                    *)
LEMMA PassStarts ==
    ASSUME PosterAssumption, CursorInv, ReadWork
    PROVE  PassKept'
<1> DEFINE R == DueRetries
           n == MaxPerRun - Cardinality(R)
           S == {s \in PosterSpots : Running(s) /\ After(s)}
           C == Candidates(n)
<1>0. CursorTypes /\ WellPlaced(cursor) /\ CursorSkipsNone /\ Orders(ByActivation) /\ Orders(ById)
    BY TheOrders DEF CursorInv, CursorTypes
<1>1. /\ R \in SUBSET PosterSpots /\ \A s \in R : Running(s) /\ state[s].st = "retry"
      /\ n \in Nat /\ n =< MaxPerRun
    <2> DEFINE due == {s \in PosterSpots : state[s].st = "retry" /\ state[s].at =< clock}
               page == Page(due, ById, MaxPerRun)
    <2>1. page \subseteq due /\ Cardinality(page) =< MaxPerRun /\ due \subseteq PosterSpots
        BY <1>0, PageIs DEF PosterAssumption
    <2>2. R = {s \in page : Running(s)}
        BY DEF DueRetries
    <2>3. R \subseteq page /\ page \in SUBSET PosterSpots
        BY <2>1, <2>2
    <2> HIDE DEF page
    <2>4. IsFiniteSet(page) /\ Cardinality(page) \in Nat
        BY <1>0, <2>3, PlaceIs
    <2>5. Cardinality(R) \in Nat /\ Cardinality(R) =< Cardinality(page)
        BY <2>3, <2>4, FS_Subset, FS_CardinalityType
    <2> HIDE DEF R
    <2>6. n \in Nat /\ n =< MaxPerRun
        BY <2>1, <2>4, <2>5 DEF page, PosterAssumption
    <2> QED BY <2>1, <2>2, <2>3, <2>6
<1>2. C = Page(S, ByActivation, n) /\ S \in SUBSET PosterSpots
    BY DEF Candidates
<1>3. C \subseteq S /\ Cardinality(C) =< n /\ (Cardinality(C) < n => C = S) /\ C \in SUBSET PosterSpots
      /\ Cardinality(C) \in Nat /\ IsFiniteSet(C)
    <2>1. C \subseteq S /\ Cardinality(C) =< n /\ (Cardinality(C) < n => C = S)
        BY <1>0, <1>1, <1>2, PageIs
    <2>2. C \in SUBSET PosterSpots
        BY <1>2, <2>1
    <2> QED BY <1>0, <2>1, <2>2, PlaceIs
<1> HIDE DEF R, C
<1>4. /\ mode = "enabled" /\ mode' = "enabled" /\ UNCHANGED <<clock, spot, act, since, state>>
      /\ worker'.pc = "posting" /\ worker'.next = NextCursor(R, C)
      /\ worker'.todo = Sorted(R, ById) \o Sorted(C \ R, ByActivation)
    BY DEF ReadWork, rowVars, R, C
<1>5. /\ worker'.todo \in Seq(PosterSpots)
      /\ \A i \in DOMAIN worker'.todo : worker'.todo[i] \in R \cup C
      /\ \A s \in R \cup C : \E i \in DOMAIN worker'.todo : worker'.todo[i] = s
    <2>1. R \in SUBSET PosterSpots /\ C \in SUBSET PosterSpots
        BY <1>1, <1>3
    <2>2. /\ Listing(R, C) \in Seq(PosterSpots)
          /\ \A i \in DOMAIN Listing(R, C) : Listing(R, C)[i] \in R \cup C
          /\ \A s \in R \cup C : \E i \in DOMAIN Listing(R, C) : Listing(R, C)[i] = s
        BY <1>0, <2>1, ListingIs DEF CursorTypes
    <2>3. worker'.todo = Listing(R, C)
        BY <1>4 DEF Listing
    <2> QED BY <2>2, <2>3
<1>6. \A s \in R \cup C : TakenUpSince(s)
    <2>1. \A s \in C : Running(s) /\ act[s] >= cursor.ts
        BY <1>3, <1>0 DEF After, CursorTypes, WellPlaced
    <2> QED BY <1>0, <1>1, <1>3, <2>1 DEF TakenUpSince, Running, CursorTypes, WellPlaced
<1>7. /\ WellPlaced(NextCursor(R, C))
      /\ \A s \in S : Past(NextCursor(R, C), s) => s \in C
      /\ NextCursor(R, C).ts >= cursor.ts
    <2>1. CASE n = 0
        <3>1. NextCursor(R, C) = cursor
            BY <2>1 DEF NextCursor
        <3> QED BY <1>0, <3>1, PastIs DEF WellPlaced
    <2>2. CASE n # 0 /\ C # {} /\ Cardinality(C) >= n
        <3> DEFINE last == Last(Sorted(C, ByActivation))
        <3>1. last \in C /\ \A s \in S : Earlier(s, last) => s \in C
            BY <1>0, <1>1, <1>2, <2>2, LastIs DEF CursorTypes
        <3>2. NextCursor(R, C) = [ts |-> act[last], id |-> last]
            BY <2>2 DEF NextCursor, Behind
        <3> HIDE DEF last
        <3>3. last \in PosterSpots /\ last \in Nat /\ Running(last) /\ After(last)
            BY <1>3, <3>1 DEF PosterSpots
        <3>4. act[last] \in Nat /\ act[last] =< clock /\ act[last] >= cursor.ts /\ spot[last] # "draft"
            BY <1>0, <3>3 DEF Running, After, CursorTypes, WellPlaced
        <3>5. \A s \in S : Past([ts |-> act[last], id |-> last], s) => Earlier(s, last)
            BY DEF Past, Earlier
        <3>6. WellPlaced([ts |-> act[last], id |-> last])
            BY <1>0, <3>3, <3>4 DEF WellPlaced, CursorTypes
        <3> QED BY <3>1, <3>2, <3>4, <3>5, <3>6
    <2>3. CASE n # 0 /\ ~(C # {} /\ Cardinality(C) >= n)
        <3>1. NextCursor(R, C) = [ts |-> clock, id |-> 0]
            BY <2>3 DEF NextCursor
        <3>2. C = S
            <4>1. C = {} => Cardinality(C) < n
                BY <1>1, <2>3, FS_EmptySet
            <4> QED BY <1>1, <1>3, <2>3, <4>1
        <3>3. WellPlaced([ts |-> clock, id |-> 0])
            BY <1>0 DEF WellPlaced, CursorTypes
        <3> QED BY <1>0, <3>1, <3>2, <3>3 DEF WellPlaced
    <2> QED BY <2>1, <2>2, <2>3
<1>8. ASSUME NEW s \in PosterSpots, Running(s), act[s] >= since, Past(NextCursor(R, C), s)
      PROVE  state[s].st # "none" \/ s \in C
    <2>1. CASE After(s)
        BY <1>7, <1>8, <2>1
    <2>2. CASE ~After(s)
        BY <1>0, <1>4, <1>8, <2>2 DEF CursorSkipsNone
    <2> QED BY <2>1, <2>2
<1>9. WellPlaced(worker.next)' /\ (\A i \in DOMAIN worker.todo : TakenUpSince(worker.todo[i]))'
    BY <1>4, <1>5, <1>6, <1>7 DEF WellPlaced, TakenUpSince
<1>10. ASSUME NEW s \in PosterSpots, Running(s)', act'[s] >= since', Past(worker.next, s)'
       PROVE  state'[s].st # "none" \/ \E i \in DOMAIN worker'.todo : worker'.todo[i] = s
    <2>1. Running(s) /\ act[s] >= since /\ Past(NextCursor(R, C), s)
        BY <1>4, <1>10 DEF Running, Past
    <2> QED BY <1>4, <1>5, <1>8, <2>1
<1> QED BY <1>4, <1>5, <1>9, <1>10 DEF PassKept

(* Spots and clock take nothing out of a pass, nor past the cursor.         *)
LEMMA RowsKeepCursor ==
    ASSUME PosterAssumption, CursorInv, RowsAge, CursorTypes', UNCHANGED <<mode, cursor, state, worker>>
    PROVE  WellPlaced(cursor)' /\ CursorSkipsNone' /\ PassKept'
<1> USE DEF CursorInv
<1>1. WellPlaced(cursor)' /\ CursorSkipsNone'
    <2>1. PICK c : c = cursor
        OBVIOUS
    <2>2. WellPlaced(c)
        BY <2>1
    <2>3. /\ WellPlaced(c)'
          /\ \A s \in PosterSpots :
                Running(s)' /\ Past(c, s)' => Running(s) /\ Past(c, s) /\ act'[s] = act[s]
        BY <2>2, Aging
    <2>4. WellPlaced(cursor)'
        BY <2>1, <2>3 DEF WellPlaced
    <2>5. ASSUME NEW s \in PosterSpots, mode' = "enabled", Running(s)', act'[s] >= since', ~After(s)'
          PROVE  state'[s].st # "none"
        <3>1. Past(cursor, s)'
            BY <2>4, <2>5, PastIs DEF After, Past, WellPlaced, CursorTypes, PosterSpots
        <3>2. Past(c, s)'
            BY <2>1, <3>1 DEF Past
        <3>3. Running(s) /\ Past(c, s) /\ act'[s] = act[s]
            BY <2>3, <2>5, <3>2
        <3>4. ~After(s)
            BY <2>1, <3>3, PastIs
        <3> QED BY <2>5, <3>3, <3>4 DEF CursorSkipsNone, RowsAge
    <2> QED BY <2>4, <2>5 DEF CursorSkipsNone
<1>2. CASE worker.pc \in {"posting", "sending", "answered"}
    <2>1. PICK c : c = worker.next
        OBVIOUS
    <2>2. WellPlaced(c)
        BY <1>2, <2>1 DEF PassKept
    <2>3. /\ WellPlaced(c)'
          /\ \A s \in PosterSpots :
                Running(s)' /\ Past(c, s)' => Running(s) /\ Past(c, s) /\ act'[s] = act[s]
        BY <2>2, Aging
    <2>4. WellPlaced(worker.next)'
        BY <2>1, <2>3 DEF WellPlaced
    <2>5. ASSUME NEW s \in PosterSpots, TakenUpSince(s)
          PROVE  TakenUpSince(s)'
        BY <2>5 DEF TakenUpSince, RowsAge
    <2>6. worker.todo \in Seq(PosterSpots) /\ \A i \in DOMAIN worker.todo : TakenUpSince(worker.todo[i])
        BY <1>2 DEF PassKept
    <2>7. (\A i \in DOMAIN worker.todo : TakenUpSince(worker.todo[i]))'
        <3>1. \A i \in DOMAIN worker.todo : worker.todo[i] \in PosterSpots
            BY <2>6
        <3> QED BY <2>5, <2>6, <3>1 DEF TakenUpSince
    <2>8. ASSUME NEW s \in PosterSpots, Running(s)', act'[s] >= since', Past(worker.next, s)'
          PROVE  state'[s].st # "none" \/ \E i \in DOMAIN worker'.todo : worker'.todo[i] = s
        <3>1. Past(c, s)'
            BY <2>1, <2>8 DEF Past
        <3>2. Running(s) /\ Past(worker.next, s) /\ act[s] >= since
            BY <2>1, <2>3, <2>8, <3>1 DEF RowsAge
        <3>3. state[s].st # "none" \/ \E i \in DOMAIN worker.todo : worker.todo[i] = s
            BY <1>2, <3>2 DEF PassKept
        <3> QED BY <3>3
    <2>9. /\ mode = "enabled" /\ worker' = worker /\ mode' = mode /\ state' = state
          /\ worker.pc # "posting" => worker.todo # <<>> /\ state[This].st # "none"
          /\ worker.pc = "answered" =>
                worker.answer \in {"created", "no_id", "server_error", "lost", "refused", "invalid"}
        BY <1>2 DEF PassKept
    <2>10. This' = This
        BY <2>9 DEF This
    <2> QED BY <1>1, <2>4, <2>6, <2>7, <2>8, <2>9, <2>10 DEF PassKept
<1>3. CASE worker.pc \notin {"posting", "sending", "answered"}
    BY <1>1, <1>3 DEF PassKept
<1> QED BY <1>1, <1>2, <1>3

(* A state that is stored stays one.                                        *)
StatesStay == \A s \in PosterSpots : state[s].st # "none" => state'[s].st # "none"

LEMMA StatesKeepCursor ==
    ASSUME CursorInv, StatesStay, UNCHANGED <<clock, spot, act, mode, cursor, since>>
    PROVE  WellPlaced(cursor)' /\ CursorSkipsNone'
BY DEF CursorInv, StatesStay, WellPlaced, CursorSkipsNone, Running, After

(* A Spot that is dealt with leaves the list.                               *)
LEMMA PassGoesOn ==
    ASSUME CursorInv, worker.pc \in {"posting", "answered"}, worker.todo # <<>>, worker' = NextSpot,
           StatesStay, UNCHANGED <<clock, spot, act, mode, cursor, since>>,
           This \in PosterSpots => state'[This].st # "none"
    PROVE  PassKept'
<1>1. worker'.pc = "posting" /\ worker'.next = worker.next /\ worker'.todo = Tail(worker.todo)
    <2>1. PICK v : v = [worker EXCEPT !.todo = Tail(@)]
        OBVIOUS
    <2>2. PICK u : u = [v EXCEPT !.pc = "posting"]
        OBVIOUS
    <2>3. /\ v \in [pc : {v.pc}, now : {v.now}, todo : {v.todo}, next : {v.next}, answer : {v.answer}]
          /\ v.next = worker.next /\ v.todo = Tail(worker.todo)
        BY <2>1 DEF CursorInv, PosterInv, WorkerRecord
    <2>4. worker' = [u EXCEPT !.answer = "-"]
        BY <2>1, <2>2 DEF NextSpot
    <2> QED BY <2>2, <2>3, <2>4
<1>2. /\ mode = "enabled" /\ WellPlaced(worker.next) /\ worker.todo \in Seq(PosterSpots)
      /\ \A i \in DOMAIN worker.todo : TakenUpSince(worker.todo[i])
      /\ \A s \in PosterSpots :
            Running(s) /\ act[s] >= since /\ Past(worker.next, s) =>
                state[s].st # "none" \/ \E i \in DOMAIN worker.todo : worker.todo[i] = s
    BY DEF CursorInv, PassKept
<1> DEFINE rest == Tail(worker.todo)
<1>3. /\ rest \in Seq(PosterSpots) /\ This = worker.todo[1] /\ This \in PosterSpots
      /\ \A i \in DOMAIN rest : i + 1 \in DOMAIN worker.todo /\ rest[i] = worker.todo[i + 1]
      /\ \A i \in DOMAIN worker.todo : i = 1 \/ (i - 1 \in DOMAIN rest /\ rest[i - 1] = worker.todo[i])
    BY <1>2 DEF This
<1> HIDE DEF rest
<1>4. worker'.todo = rest
    BY <1>1 DEF rest
<1>5. WellPlaced(worker.next)'
    BY <1>1, <1>2 DEF WellPlaced
<1>6. ASSUME NEW i \in DOMAIN rest
      PROVE  spot'[rest[i]] # "draft" /\ (state'[rest[i]].st = "none" => act'[rest[i]] >= since')
    <2>1. TakenUpSince(rest[i]) /\ rest[i] \in PosterSpots
        BY <1>2, <1>3
    <2> QED BY <2>1 DEF TakenUpSince, StatesStay
<1>7. ASSUME NEW s \in PosterSpots, Running(s)', act'[s] >= since', Past(worker.next, s)'
      PROVE  state'[s].st # "none" \/ \E i \in DOMAIN rest : rest[i] = s
    <2>1. Running(s) /\ act[s] >= since /\ Past(worker.next, s)
        BY <1>1, <1>7 DEF Running, Past
    <2>2. CASE state[s].st # "none"
        BY <2>2 DEF StatesStay
    <2>3. ASSUME NEW i \in DOMAIN worker.todo, worker.todo[i] = s
          PROVE  state'[s].st # "none" \/ \E j \in DOMAIN rest : rest[j] = s
        BY <1>3, <2>3
    <2> QED BY <1>2, <2>1, <2>2, <2>3
<1>8. (\A i \in DOMAIN worker.todo : TakenUpSince(worker.todo[i]))'
    BY <1>4, <1>6 DEF TakenUpSince
<1> QED BY <1>1, <1>2, <1>3, <1>4, <1>5, <1>7, <1>8 DEF PassKept

LEMMA CursorInvStep ==
    ASSUME PosterAssumption, CursorInv, [PosterNext]_posterVars
    PROVE  CursorInv'
<1>1. PosterInv'
    BY PosterInvStep DEF CursorInv
<1>2. CASE SpotStep \/ ClockTick \/ UNCHANGED posterVars
    <2>1. RowsAge /\ CursorTypes' /\ UNCHANGED <<mode, cursor, state, worker>>
        BY <1>2, SpotsAge DEF CursorInv
    <2> QED BY <1>1, <2>1, RowsKeepCursor DEF CursorInv
<1>3. CASE StartDisabled \/ StartEnabled \/ PosterCrash \/ (worker.pc = "idle" /\ SwitchOn)
    <2>1. CASE StartEnabled \/ PosterCrash
        <3>1. worker'.pc \in {"off", "idle"} /\ UNCHANGED <<clock, spot, act, mode, cursor, since, state>>
            BY <2>1 DEF StartEnabled, PosterCrash, Off, CursorInv, PosterInv, WorkerRecord, rowVars
        <3>2. WellPlaced(cursor)' /\ CursorSkipsNone'
            BY <3>1, StatesKeepCursor DEF StatesStay
        <3> QED BY <1>1, <3>1, <3>2 DEF CursorInv, CursorTypes, PassKept
    <2>2. CASE StartDisabled
        <3>1. /\ mode' = "disabled" /\ cursor' = [ts |-> clock, id |-> 0]
              /\ worker' = worker /\ worker.pc = "off" /\ UNCHANGED <<clock, spot, act, since, state>>
            BY <2>2 DEF StartDisabled, ResetCursor
        <3>2. WellPlaced(cursor)' /\ CursorSkipsNone'
            BY <3>1 DEF WellPlaced, CursorSkipsNone, CursorInv, CursorTypes
        <3> QED BY <1>1, <3>1, <3>2 DEF CursorInv, CursorTypes, PassKept
    <2>3. CASE worker.pc = "idle" /\ SwitchOn
        <3>1. /\ mode' = "enabled" /\ since' = clock /\ cursor' = [ts |-> clock, id |-> 0]
              /\ worker' = worker /\ worker.pc = "idle" /\ UNCHANGED <<clock, spot, act, state>>
            BY <2>3 DEF SwitchOn, ResetCursor
        <3>2. \A s \in PosterSpots : act'[s] >= since' => After(s)'
            BY <3>1 DEF After, CursorInv, CursorTypes, PosterSpots
        <3>3. WellPlaced(cursor)' /\ CursorSkipsNone'
            BY <3>1, <3>2 DEF WellPlaced, CursorSkipsNone, CursorInv, CursorTypes
        <3> QED BY <1>1, <3>1, <3>3 DEF CursorInv, CursorTypes, PassKept
    <2> QED BY <1>3, <2>1, <2>2, <2>3
<1>4. CASE worker.pc = "idle" /\ ReadWork
    <2>1. UNCHANGED <<clock, spot, act, mode, cursor, since, state>> /\ worker'.pc = "posting"
        BY <1>4 DEF ReadWork, rowVars
    <2>2. WellPlaced(cursor)' /\ CursorSkipsNone'
        BY <2>1, StatesKeepCursor DEF StatesStay
    <2>3. PassKept'
        BY <1>4, PassStarts
    <2> QED BY <1>1, <2>1, <2>2, <2>3 DEF CursorInv, CursorTypes
<1>5. CASE Skip \/ PrewarmFails \/ RecordAnswer
    <2>1. /\ UNCHANGED <<clock, spot, act, mode, cursor, since>> /\ worker' = NextSpot
          /\ worker.pc \in {"posting", "answered"} /\ worker.todo # <<>>
        BY <1>5 DEF Skip, PrewarmFails, RecordAnswer, Posting, rowVars, CursorInv, PassKept
    <2>2. StatesStay /\ (This \in PosterSpots => state'[This].st # "none")
        <3>1. CASE Skip
            BY <3>1 DEF Skip, Settled, StatesStay, rowVars
        <3>2. ASSUME NEW st, NEW at, Store(This, st, at), st # "none"
              PROVE  StatesStay /\ (This \in PosterSpots => state'[This].st # "none")
            BY <3>2 DEF Store, StatesStay, CursorInv, PosterInv
        <3>3. CASE PrewarmFails
            BY <3>2, <3>3 DEF PrewarmFails
        <3>4. CASE RecordAnswer
            <4>1. Classified(worker.answer) # "none"
                BY <3>4 DEF RecordAnswer, Classified, CursorInv, PassKept
            <4>2. PICK at : Store(This, Classified(worker.answer), at)
                BY <3>4 DEF RecordAnswer
            <4> QED BY <3>2, <4>1, <4>2
        <3> QED BY <1>5, <3>1, <3>3, <3>4
    <2>3. WellPlaced(cursor)' /\ CursorSkipsNone'
        BY <2>1, <2>2, StatesKeepCursor
    <2>4. PassKept'
        BY <2>1, <2>2, PassGoesOn
    <2>5. worker'.pc = "posting"
        BY <2>1, NextSpotIs DEF CursorInv
    <2> QED BY <1>1, <2>1, <2>3, <2>4, <2>5 DEF CursorInv, CursorTypes
<1>6. CASE StartSending \/ XCreates \/ XRefuses
    <2>1. /\ UNCHANGED <<clock, spot, act, mode, cursor, since>>
          /\ worker.pc \in {"posting", "sending"} /\ worker.todo # <<>>
          /\ worker'.todo = worker.todo /\ worker'.next = worker.next
          /\ worker'.pc \in {"sending", "answered"}
          /\ worker'.pc = "answered" =>
                worker'.answer \in {"created", "no_id", "server_error", "lost", "refused", "invalid"}
        <3>1. CASE StartSending
            BY <3>1 DEF StartSending, Posting, CursorInv, PosterInv, WorkerRecord
        <3>2. CASE XCreates \/ XRefuses
            <4>1. PICK answer \in {"created", "no_id", "server_error", "lost", "refused", "invalid"} :
                      worker' = [worker EXCEPT !.pc = "answered", !.answer = answer]
                BY <3>2 DEF XCreates, XRefuses
            <4>2. PICK v : v = [worker EXCEPT !.pc = "answered"]
                OBVIOUS
            <4>3. v \in [pc : {v.pc}, now : {v.now}, todo : {v.todo}, next : {v.next}, answer : {v.answer}]
                  /\ v.pc = "answered" /\ v.todo = worker.todo /\ v.next = worker.next
                BY <4>2 DEF CursorInv, PosterInv, WorkerRecord
            <4>4. worker' = [v EXCEPT !.answer = answer]
                BY <4>1, <4>2
            <4>5. worker.pc = "sending" /\ worker.todo # <<>> /\ UNCHANGED rowVars /\ clock' = clock
                BY <3>2 DEF XCreates, XRefuses, CursorInv, PassKept
            <4> QED BY <4>1, <4>3, <4>4, <4>5 DEF rowVars
        <3> QED BY <1>6, <3>1, <3>2
    <2>2. This' = This /\ This \in PosterSpots
        <3>1. worker.todo \in Seq(PosterSpots)
            BY <2>1 DEF CursorInv, PassKept
        <3> QED BY <2>1, <3>1 DEF This
    <2>3. StatesStay /\ state'[This].st # "none"
        <3>1. CASE StartSending
            BY <2>2, <3>1 DEF StartSending, Store, StatesStay, CursorInv, PosterInv
        <3>2. CASE XCreates \/ XRefuses
            BY <3>2 DEF XCreates, XRefuses, StatesStay, CursorInv, PassKept, rowVars
        <3> QED BY <1>6, <3>1, <3>2
    <2>4. WellPlaced(cursor)' /\ CursorSkipsNone'
        BY <2>1, <2>3, StatesKeepCursor
    <2>5. PassKept'
        <3>1. /\ mode = "enabled" /\ WellPlaced(worker.next) /\ worker.todo \in Seq(PosterSpots)
              /\ \A i \in DOMAIN worker.todo : TakenUpSince(worker.todo[i]) /\ worker.todo[i] \in PosterSpots
              /\ \A s \in PosterSpots :
                    Running(s) /\ act[s] >= since /\ Past(worker.next, s) =>
                        state[s].st # "none" \/ \E i \in DOMAIN worker.todo : worker.todo[i] = s
            BY <2>1 DEF CursorInv, PassKept
        <3>2. WellPlaced(worker.next)'
            BY <2>1, <3>1 DEF WellPlaced
        <3>3. (\A i \in DOMAIN worker.todo : TakenUpSince(worker.todo[i]))'
            BY <2>1, <2>3, <3>1 DEF TakenUpSince, StatesStay
        <3>4. ASSUME NEW s \in PosterSpots, Running(s)', act'[s] >= since', Past(worker.next, s)'
              PROVE  state'[s].st # "none" \/ \E i \in DOMAIN worker'.todo : worker'.todo[i] = s
            <4>1. Running(s) /\ act[s] >= since /\ Past(worker.next, s)
                BY <2>1, <3>4 DEF Running, Past
            <4> QED BY <2>1, <2>3, <3>1, <4>1 DEF StatesStay
        <3> QED BY <2>1, <2>2, <2>3, <3>1, <3>2, <3>3, <3>4 DEF PassKept
    <2> QED BY <1>1, <2>1, <2>4, <2>5 DEF CursorInv, CursorTypes
<1>7. CASE EndPass
    <2>1. /\ worker.pc = "posting" /\ worker.todo = <<>> /\ cursor' = worker.next /\ worker'.pc = "idle"
          /\ UNCHANGED <<clock, spot, act, mode, since, state>>
        BY <1>7 DEF EndPass, Off
    <2>2. /\ WellPlaced(worker.next)
          /\ \A s \in PosterSpots :
                Running(s) /\ act[s] >= since /\ Past(worker.next, s) => state[s].st # "none"
        BY <2>1 DEF CursorInv, PassKept
    <2>3. WellPlaced(cursor)'
        BY <2>1, <2>2 DEF WellPlaced
    <2>4. CursorTypes'
        BY <2>1 DEF CursorInv, CursorTypes
    <2>5. ASSUME NEW s \in PosterSpots, Running(s)', act'[s] >= since', ~After(s)'
          PROVE  state'[s].st # "none"
        <3>1. Past(cursor, s)'
            BY <2>3, <2>4, <2>5, PastIs DEF After, Past, WellPlaced, CursorTypes, PosterSpots
        <3> QED BY <2>1, <2>2, <2>5, <3>1 DEF Running, Past
    <2> QED BY <1>1, <2>1, <2>3, <2>4, <2>5 DEF CursorInv, CursorSkipsNone, PassKept
<1> QED BY <1>2, <1>3, <1>4, <1>5, <1>6, <1>7, Zenon DEF PosterNext, WorkerStep, BeginPass

(* For any number of Spots, any limits and any loss of answers, wherever    *)
(* the worker stops: an enabled period announces no Spot from before it,    *)
(* and its cursor passes no running Spot that has not been taken up.        *)
THEOREM PosterCursorIsExact == PosterSpec => CursorIsExact
<1>1. CursorInv => CursorSkipsNone
    BY DEF CursorInv
<1>2. CursorInv /\ [PosterNext]_posterVars =>
        [\A s \in PosterSpots : state[s].st = "none" /\ state'[s].st # "none" => act[s] >= since]_posterVars
    <2> SUFFICES ASSUME CursorInv, [PosterNext]_posterVars, NEW s \in PosterSpots,
                        state[s].st = "none", state'[s].st # "none"
                 PROVE  act[s] >= since
        OBVIOUS
    <2>1. Posting /\ \E st, at : Store(This, st, at)
        <3>1. state' # state
            OBVIOUS
        <3>2. CASE RecordAnswer
            <4>1. state' = [t \in PosterSpots |-> IF t = This THEN state'[t] ELSE state[t]]
                BY <3>2 DEF RecordAnswer, Store, CursorInv, PosterInv
            <4>2. s = This
                BY <4>1
            <4> QED BY <3>2, <4>2 DEF RecordAnswer, CursorInv, PassKept
        <3>3. CASE ~RecordAnswer
            <4>1. PrewarmFails \/ StartSending
                BY <3>1, <3>3, Zenon DEF PosterNext, SpotStep, Close, Publish, ClockTick, WorkerStep, StartEnabled,
                   BeginPass, SwitchOn, ReadWork, Skip, XCreates, XRefuses, EndPass, StartDisabled, PosterCrash,
                   rowVars, posterVars
            <4> QED BY <4>1 DEF PrewarmFails, StartSending
        <3> QED BY <3>2, <3>3
    <2>2. state' = [t \in PosterSpots |-> IF t = This THEN state'[t] ELSE state[t]]
        BY <2>1 DEF Store, CursorInv, PosterInv
    <2>3. s = This
        BY <2>2
    <2>4. worker.todo \in Seq(PosterSpots) /\ worker.todo # <<>>
          /\ \A i \in DOMAIN worker.todo : TakenUpSince(worker.todo[i])
        BY <2>1 DEF Posting, CursorInv, PassKept
    <2>5. 1 \in DOMAIN worker.todo /\ worker.todo[1] = This
        BY <2>4 DEF This
    <2> QED BY <2>3, <2>4, <2>5 DEF TakenUpSince
<1> QED BY <1>1, <1>2, CursorInvInit, CursorInvStep, PosterAssumption, PTL
        DEF PosterSpec, CursorIsExact, NoBacklog

-----------------------------------------------------------------------------
(* The types of the poster.  A pass lists no Spot twice, and its cursor is  *)
(* a stored one.                                                            *)
PassPcs == {"posting", "sending", "answered"}

PosterShape ==
    /\ clock \in Times /\ spot \in [PosterSpots -> {"draft", "staged", "open", "over"}]
    /\ act \in [PosterSpots -> Times] /\ since \in Times
    /\ mode \in {"none", "enabled", "disabled"} /\ cursor \in Cursors
    /\ (mode = "none" <=> cursor.id = -1)
    /\ state \in [PosterSpots -> States]
    /\ worker.now \in Times /\ IsInjective(worker.todo)
    /\ worker.pc \in PassPcs => worker.next \in Cursors /\ worker.next.id # -1

LEMMA TimesAre == ASSUME PosterAssumption PROVE /\ Times \subseteq Nat /\ 0 \in Times
                                               /\ \A t \in Times : t + RetryAfter \in 0 .. LastTime + RetryAfter
BY DEF PosterAssumption, Times

LEMMA EmptyIsInjective == IsInjective(<<>>)
BY DEF IsInjective

LEMMA ListedOnce ==
    ASSUME PosterAssumption, act \in [PosterSpots -> Nat],
           NEW R \in SUBSET PosterSpots, NEW C \in SUBSET PosterSpots
    PROVE  IsInjective(Listing(R, C))
<1> DEFINE o == ById  p == ByActivation  D == C \ R  a == Sorted(R, o)  b == Sorted(D, p)
<1>1. Orders(o) /\ Orders(p) /\ Listing(R, C) = a \o b
    BY TheOrders DEF Listing
<1>2. D \in SUBSET PosterSpots /\ R \cap D = {}
    OBVIOUS
<1> HIDE DEF o, p, D
<1>3. /\ a \in Seq(R) /\ \A i \in 1 .. Len(a) : a[i] \in R /\ Place(R, o, a[i]) = i
      /\ b \in Seq(D) /\ \A i \in 1 .. Len(b) : b[i] \in D /\ Place(D, p, b[i]) = i
    BY <1>1, <1>2, SortedIs
<1>4. Len(a) \in Nat /\ Len(b) \in Nat
    BY <1>3
<1> HIDE DEF a, b
<1>5. /\ DOMAIN (a \o b) = 1 .. Len(a) + Len(b)
      /\ \A i \in 1 .. Len(a) + Len(b) : (a \o b)[i] = IF i =< Len(a) THEN a[i] ELSE b[i - Len(a)]
    BY <1>3, <1>4
<1>6. ASSUME NEW i \in 1 .. Len(a) + Len(b), NEW j \in 1 .. Len(a) + Len(b), (a \o b)[i] = (a \o b)[j]
      PROVE  i = j
    <2>1. CASE i =< Len(a) /\ j =< Len(a)
        BY <1>3, <1>4, <1>5, <1>6, <2>1
    <2>2. CASE i > Len(a) /\ j > Len(a)
        <3>1. i - Len(a) \in 1 .. Len(b) /\ j - Len(a) \in 1 .. Len(b) /\ b[i - Len(a)] = b[j - Len(a)]
            BY <1>4, <1>5, <1>6, <2>2
        <3>2. i - Len(a) = j - Len(a)
            BY <1>3, <3>1
        <3> QED BY <1>4, <3>2
    <2>3. CASE i =< Len(a) /\ j > Len(a)
        <3>1. i \in 1 .. Len(a) /\ j - Len(a) \in 1 .. Len(b) /\ a[i] = b[j - Len(a)]
            BY <1>4, <1>5, <1>6, <2>3
        <3> QED BY <1>2, <1>3, <3>1
    <2>4. CASE i > Len(a) /\ j =< Len(a)
        <3>1. j \in 1 .. Len(a) /\ i - Len(a) \in 1 .. Len(b) /\ a[j] = b[i - Len(a)]
            BY <1>4, <1>5, <1>6, <2>4
        <3> QED BY <1>2, <1>3, <3>1
    <2> QED BY <1>4, <2>1, <2>2, <2>3, <2>4
<1> QED BY <1>1, <1>5, <1>6 DEF IsInjective

(* The cursor of a pass is one that can be stored.                          *)
LEMMA NextCursorType ==
    ASSUME PosterAssumption, CursorInv, PosterShape, mode = "enabled",
           NEW R \in SUBSET PosterSpots, NEW n \in Nat, n = MaxPerRun - Cardinality(R)
    PROVE  NextCursor(R, Candidates(n)) \in Cursors /\ NextCursor(R, Candidates(n)).id # -1
<1> DEFINE S == {s \in PosterSpots : Running(s) /\ After(s)}  C == Candidates(n)
<1>1. S \in SUBSET PosterSpots /\ C = Page(S, ByActivation, n) /\ act \in [PosterSpots -> Nat]
    BY DEF Candidates, CursorInv, CursorTypes
<1>2. Orders(ByActivation) /\ C \subseteq S
    BY <1>1, TheOrders, PageIs
<1>3. \A t \in Times, d \in PosterSpots \cup {0} :
         [ts |-> t, id |-> d] \in Cursors /\ [ts |-> t, id |-> d].id # -1
    BY DEF Cursors, PosterSpots, PosterAssumption
<1>4. CASE n = 0
    BY <1>4 DEF NextCursor, PosterShape
<1>5. CASE n # 0 /\ C # {} /\ Cardinality(C) >= n
    <2> DEFINE last == Last(Sorted(C, ByActivation))
    <2>1. last \in C
        BY <1>1, <1>5, LastIs
    <2>2. NextCursor(R, C) = [ts |-> act[last], id |-> last]
        BY <1>5 DEF NextCursor, Behind
    <2> HIDE DEF last, C
    <2>3. last \in PosterSpots /\ act[last] \in Times
        BY <1>1, <1>2, <2>1 DEF PosterShape
    <2> QED BY <1>3, <2>2, <2>3 DEF C
<1>6. CASE n # 0 /\ ~(C # {} /\ Cardinality(C) >= n)
    <2>1. NextCursor(R, C) = [ts |-> clock, id |-> 0]
        BY <1>6 DEF NextCursor
    <2> HIDE DEF C
    <2> QED BY <1>3, <2>1 DEF PosterShape, C
<1> QED BY <1>4, <1>5, <1>6

LEMMA ReadWorkShape ==
    ASSUME PosterAssumption, CursorInv, PosterShape, ReadWork
    PROVE  PosterShape'
<1> DEFINE R == DueRetries  n == MaxPerRun - Cardinality(R)  C == Candidates(n)
           due == {s \in PosterSpots : state[s].st = "retry" /\ state[s].at =< clock}
           page == Page(due, ById, MaxPerRun)
<1>1. act \in [PosterSpots -> Nat] /\ Orders(ById) /\ Orders(ByActivation)
    BY TheOrders DEF CursorInv, CursorTypes
<1>2. R \in SUBSET PosterSpots /\ n \in Nat
    <2>1. page \subseteq due /\ Cardinality(page) =< MaxPerRun /\ due \subseteq PosterSpots
        BY <1>1, PageIs DEF PosterAssumption
    <2>2. R \subseteq page
        BY DEF DueRetries
    <2> HIDE DEF page, R
    <2>3. page \in SUBSET PosterSpots
        BY <2>1
    <2>4. IsFiniteSet(page) /\ Cardinality(page) \in Nat
        BY <1>1, <2>3, PlaceIs
    <2>5. Cardinality(R) \in Nat /\ Cardinality(R) =< Cardinality(page)
        BY <2>2, <2>4, FS_Subset, FS_CardinalityType
    <2> QED BY <2>1, <2>2, <2>3, <2>4, <2>5 DEF PosterAssumption
<1>3. C \in SUBSET PosterSpots
    <2> DEFINE S == {s \in PosterSpots : Running(s) /\ After(s)}
    <2>1. S \in SUBSET PosterSpots /\ C = Page(S, ByActivation, n)
        BY DEF Candidates
    <2> HIDE DEF S, C, n, R
    <2> QED BY <1>1, <1>2, <2>1, PageIs
<1>4. /\ mode = "enabled" /\ UNCHANGED <<clock, spot, act, mode, cursor, since, state>>
      /\ worker'.now = clock /\ worker'.next = NextCursor(R, C) /\ worker'.todo = Listing(R, C)
    BY DEF ReadWork, rowVars, Listing
<1>5. NextCursor(R, C) \in Cursors /\ NextCursor(R, C).id # -1
    <2> HIDE DEF R
    <2> QED BY <1>2, <1>4, NextCursorType
<1> HIDE DEF R, C
<1>6. IsInjective(Listing(R, C))
    BY <1>1, <1>2, <1>3, ListedOnce
<1> QED BY <1>4, <1>5, <1>6 DEF PosterShape, IsInjective

(* The parts of the worker that a step of a pass leaves alone.              *)
LEMMA NextSpotKeeps ==
    ASSUME PosterInv, worker' = NextSpot
    PROVE  /\ worker'.todo = Tail(worker.todo) /\ worker'.now = worker.now /\ worker'.next = worker.next
BY DEF PosterInv, WorkerRecord, NextSpot

LEMMA TailIsInjective ==
    ASSUME NEW q \in Seq(PosterSpots), q # <<>>, IsInjective(q)
    PROVE  IsInjective(Tail(q))
<1>1. /\ DOMAIN Tail(q) = 1 .. Len(q) - 1 /\ DOMAIN q = 1 .. Len(q) /\ Len(q) \in Nat
      /\ \A i \in 1 .. Len(q) - 1 : Tail(q)[i] = q[i + 1] /\ i + 1 \in DOMAIN q
    OBVIOUS
<1> SUFFICES ASSUME NEW i \in DOMAIN Tail(q), NEW j \in DOMAIN Tail(q), Tail(q)[i] = Tail(q)[j]
             PROVE  i = j
    BY DEF IsInjective
<1>2. q[i + 1] = q[j + 1] /\ i + 1 \in DOMAIN q /\ j + 1 \in DOMAIN q
    BY <1>1
<1>3. i + 1 = j + 1
    BY <1>2 DEF IsInjective
<1> QED BY <1>1, <1>3

(* A step of a pass: the worker stays at its list, or goes down it, and one *)
(* state is stored.                                                         *)
LEMMA PassKeepsShape ==
    ASSUME PosterAssumption, CursorInv, PosterShape, worker.pc \in PassPcs, worker.todo # <<>>,
           UNCHANGED <<clock, spot, act, mode, cursor, since>>,
           worker'.now = worker.now, worker'.next = worker.next,
           worker'.todo = worker.todo \/ worker'.todo = Tail(worker.todo),
           state' = state \/ \E st \in {"retry", "sending", "posted", "uncertain", "failed"},
                                at \in {0, worker.now + RetryAfter} : Store(This, st, at)
    PROVE  PosterShape'
<1>1. worker.todo \in Seq(PosterSpots) /\ This \in PosterSpots
    BY DEF CursorInv, PassKept, PassPcs, This
<1>2. IsInjective(worker'.todo)
    BY <1>1, TailIsInjective DEF PosterShape
<1>3. state' \in [PosterSpots -> States]
    <2>1. \A st \in {"retry", "sending", "posted", "uncertain", "failed"}, at \in {0, worker.now + RetryAfter} :
             [st |-> st, at |-> at] \in States
        <3>1. 0 \in 0 .. LastTime + RetryAfter /\ worker.now + RetryAfter \in 0 .. LastTime + RetryAfter
            BY TimesAre DEF PosterShape, PosterAssumption
        <3> QED BY <3>1 DEF States
    <2> QED BY <1>1, <2>1 DEF PosterShape, Store
<1> QED BY <1>2, <1>3 DEF PosterShape, IsInjective

LEMMA PosterShapeStep ==
    ASSUME PosterAssumption, CursorInv, PosterShape, [PosterNext]_posterVars
    PROVE  PosterShape'
<1>1. WorkerRecord /\ PosterInv /\ CursorTypes /\ PassKept
    BY DEF CursorInv, PosterInv
<1>2. CASE UNCHANGED posterVars
    BY <1>2 DEF posterVars, rowVars, PosterShape, IsInjective
<1>3. CASE SpotStep
    BY <1>3 DEF SpotStep, Close, Publish, StartTimes, PosterShape, IsInjective
<1>4. CASE ClockTick
    BY <1>4 DEF ClockTick, rowVars, PosterShape, IsInjective, Times, PosterAssumption
<1>5. CASE StartDisabled \/ SwitchOn
    BY <1>5 DEF StartDisabled, SwitchOn, ResetCursor, Cursors, PosterShape, IsInjective, PosterAssumption
<1>6. CASE StartEnabled
    <2>1. worker'.pc = "idle" /\ worker'.todo = worker.todo /\ worker'.now = worker.now
        BY <1>1, <1>6 DEF StartEnabled, WorkerRecord
    <2> QED BY <1>6, <2>1 DEF StartEnabled, rowVars, PosterShape, IsInjective, PassPcs
<1>7. CASE ReadWork
    BY <1>7, ReadWorkShape
<1>8. CASE Skip \/ PrewarmFails
    <2>1. worker.pc \in PassPcs /\ worker.todo # <<>> /\ worker' = NextSpot
        BY <1>8 DEF Skip, PrewarmFails, Posting, PassPcs
    <2>2. state' = state \/ Store(This, "retry", worker.now + RetryAfter)
        BY <1>8 DEF Skip, PrewarmFails, rowVars
    <2>3. UNCHANGED <<clock, spot, act, mode, cursor, since>>
        BY <1>8 DEF Skip, PrewarmFails, rowVars
    <2> QED BY <1>1, <2>1, <2>2, <2>3, NextSpotKeeps, PassKeepsShape
<1>9. CASE StartSending \/ XCreates \/ XRefuses
    <2>1. worker.pc \in PassPcs /\ worker.todo # <<>>
        BY <1>1, <1>9 DEF StartSending, XCreates, XRefuses, Posting, PassPcs, PassKept
    <2>2. worker'.todo = worker.todo /\ worker'.now = worker.now /\ worker'.next = worker.next
        BY <1>1, <1>9 DEF StartSending, XCreates, XRefuses, WorkerRecord
    <2>3. state' = state \/ Store(This, "sending", 0)
        BY <1>9 DEF StartSending, XCreates, XRefuses, rowVars
    <2>4. UNCHANGED <<clock, spot, act, mode, cursor, since>>
        BY <1>9 DEF StartSending, XCreates, XRefuses, rowVars
    <2> QED BY <2>1, <2>2, <2>3, <2>4, PassKeepsShape
<1>10. CASE RecordAnswer
    <2>1. worker.pc \in PassPcs /\ worker.todo # <<>> /\ worker' = NextSpot
        BY <1>1, <1>10 DEF RecordAnswer, PassPcs, PassKept
    <2>2. Classified(worker.answer) \in {"retry", "posted", "uncertain", "failed"}
        BY <1>1, <1>10 DEF RecordAnswer, PassKept, Classified
    <2>3. \E at \in {0, worker.now + RetryAfter} : Store(This, Classified(worker.answer), at)
        BY <1>10, Zenon DEF RecordAnswer
    <2>4. UNCHANGED <<clock, spot, act, mode, cursor, since>>
        BY <1>10 DEF RecordAnswer
    <2> QED BY <1>1, <2>1, <2>2, <2>3, <2>4, NextSpotKeeps, PassKeepsShape
<1>11. CASE EndPass
    <2>1. cursor' = worker.next /\ worker.pc \in PassPcs /\ mode = "enabled"
        BY <1>1, <1>11 DEF EndPass, PassPcs, PassKept
    <2>2. worker'.pc = "idle" /\ worker'.todo = <<>> /\ worker'.now = 0
        BY <1>11 DEF EndPass, Off
    <2> QED BY <1>11, <2>1, <2>2, TimesAre, EmptyIsInjective, SMTT(20) DEF EndPass, PosterShape, PassPcs, IsInjective
<1>12. CASE PosterCrash
    <2>1. worker'.pc = "off" /\ worker'.todo = <<>> /\ worker'.now = 0
        BY <1>12 DEF PosterCrash, Off
    <2> QED BY <1>12, <2>1, TimesAre, EmptyIsInjective DEF PosterCrash, rowVars, PosterShape, PassPcs, IsInjective
<1> QED BY <1>2, <1>3, <1>4, <1>5, <1>6, <1>7, <1>8, <1>9, <1>10, <1>11, <1>12, Zenon
        DEF PosterNext, WorkerStep, BeginPass

LEMMA PosterShapeInit == ASSUME PosterAssumption, PosterInit PROVE PosterShape
<1>1. NoState \in States /\ [ts |-> 0, id |-> -1] \in Cursors
    BY TimesAre DEF NoState, States, Cursors, PosterAssumption
<1> QED BY <1>1, TimesAre, EmptyIsInjective DEF PosterInit, PosterShape, Off, PassPcs

(* For any number of Spots and any limits: no pass lists a Spot twice, the  *)
(* Spot being sent is marked, and a cursor is stored once a mode is.        *)
THEOREM PosterTypes == PosterSpec => []PosterTypeOK
<1>1. PosterInit => CursorInv /\ PosterShape
    BY CursorInvInit, PosterShapeInit, PosterAssumption
<1>2. CursorInv /\ PosterShape /\ [PosterNext]_posterVars => (CursorInv /\ PosterShape)'
    BY CursorInvStep, PosterShapeStep, PosterAssumption
<1>3. CursorInv /\ PosterShape => PosterTypeOK
    <2> SUFFICES ASSUME CursorInv, PosterShape PROVE PosterTypeOK
        OBVIOUS
    <2>1. worker.pc \in {"sending", "answered"} => state[This].st = "sending"
        BY DEF CursorInv, PosterInv, PassKept, SentOnce, This
    <2> QED BY <2>1 DEF CursorInv, PosterInv, CursorTypes, PosterShape, PosterTypeOK
<1> QED BY <1>1, <1>2, <1>3, PTL DEF PosterSpec

-----------------------------------------------------------------------------
(* The types of the cache *)

AllIds == Spots \cup Users \cup Trans

(* The operations a notification may hold.                                  *)
Ops ==
    {o \in [mode : {"mark", "full", "ensure", "targeted"}, kind : Kinds, ids : SUBSET AllIds] :
        /\ o.ids \subseteq Ids(o.kind)
        /\ \/ o.mode = "mark" /\ o.kind # "pending"
           \/ o.mode \in {"full", "ensure"} /\ o.ids = Ids(o.kind)
           \/ o.mode = "targeted" /\ o.kind # "user"}

Phases == {"next", "rows", "details", "install"}

IsTask(r) ==
    r \in [todo : Seq(Ops), phase : Phases, base : {r.base}, built : {r.built}, at : 0..now,
           scope : SUBSET AllIds]

(* What a refresh under way has read is of its own kind.                    *)
AtWork(r) ==
    /\ r.phase # "next" => /\ r.todo # <<>> /\ Head(r.todo).mode # "mark"
                           /\ r.scope \subseteq Ids(Head(r.todo).kind)
                           /\ DOMAIN r.base \subseteq Ids(Head(r.todo).kind)
    /\ r.phase \in {"details", "install"} => DOMAIN r.built \subseteq Ids(Head(r.todo).kind)

IsSnapshot(c, k) ==
    /\ c \in [loaded : BOOLEAN, rows : {c.rows}, at : 0..now]
    /\ DOMAIN c.rows \subseteq Ids(k) /\ c.rows = [i \in DOMAIN c.rows |-> c.rows[i]]

TablesOK ==
    /\ spots \in [Spots -> [status : {"draft", "published", "done"}, claims : Nat]]
    /\ names \in [Users -> Nat]
    /\ seen \in [1..Cardinality(Users) -> Users]
    /\ trans \in [Trans -> {"none", "pending", "final"}]

CachesOK ==
    /\ cached = [k \in Kinds |-> cached[k]] /\ dirty \in [Kinds -> BOOLEAN]
    /\ \A k \in Kinds : IsSnapshot(cached[k], k)

TasksOK ==
    /\ task = [t \in AllTasks |-> task[t]]
    /\ \A t \in AllTasks : IsTask(task[t]) /\ AtWork(task[t])

CacheTypes == now \in Nat /\ TablesOK /\ CachesOK /\ TasksOK

LEMMA OpsAre ==
    /\ \A k \in Kinds : Full(k) \in Ops /\ Ensure(k) \in Ops
    /\ Mark("spot") \in Ops /\ Mark("user") \in Ops
    /\ \A s \in Spots : RefreshSpot(s) \in Ops
    /\ \A x \in Trans : RefreshPending(x) \in Ops
<1>1. /\ \A k \in Kinds : Ids(k) \subseteq AllIds
      /\ Ids("spot") = Spots /\ Ids("pending") = Trans
    BY DEF Kinds, Ids, AllIds
<1> QED BY <1>1 DEF Ops, Op, Full, Ensure, Mark, RefreshSpot, RefreshPending, Kinds

LEMMA NotificationsAre ==
    /\ NotifyUser \in Seq(Ops) /\ RefreshAll \in Seq(Ops)
    /\ NotifyUser \o <<Mark("spot")>> \in Seq(Ops)
    /\ \A s \in Spots : /\ NotifyOwnerChange(s) \in Seq(Ops) /\ <<RefreshSpot(s)>> \in Seq(Ops)
                        /\ \A known \in BOOLEAN : NotifyClaim(s, known) \in Seq(Ops)
    /\ \A x \in Trans : NotifyTransaction(x) \in Seq(Ops)
    /\ \A k \in Kinds : <<Ensure(k)>> \in Seq(Ops)
<1>1. /\ Full("spot") \in Ops /\ Full("user") \in Ops /\ Full("pending") \in Ops
      /\ \A x \in Trans : SpotOf[x] \in Spots
    BY OpsAre, CacheAssumption DEF Kinds
<1>2. NotifyUser \in Seq(Ops)
    BY <1>1, OpsAre DEF NotifyUser, RefreshUser
<1>3. \A o \in Ops : <<o>> \in Seq(Ops)
    OBVIOUS
<1>4. \A o \in Ops : NotifyUser \o <<o>> \in Seq(Ops)
    BY <1>2, <1>3
<1>5. RefreshAll \in Seq(Ops)
    BY <1>1 DEF RefreshAll
<1>6. \A s \in Spots, known \in BOOLEAN : NotifyClaim(s, known) \in Seq(Ops)
    BY <1>1, OpsAre DEF NotifyClaim, RefreshUser
<1>7. \A x \in Trans : NotifyTransaction(x) \in Seq(Ops)
    BY <1>1, OpsAre DEF NotifyTransaction, RefreshUser
<1> QED BY <1>2, <1>3, <1>4, <1>5, <1>6, <1>7, OpsAre DEF NotifyOwnerChange

LEMMA IdleIs == ASSUME now \in Nat, NEW ops \in Seq(Ops)
                PROVE  IsTask([Idle EXCEPT !.todo = ops]) /\ AtWork([Idle EXCEPT !.todo = ops])
BY DEF Idle, IsTask, AtWork, Phases

LEMMA CacheTypesInit == CacheInit => CacheTypes
<1> SUFFICES ASSUME CacheInit PROVE CacheTypes
    OBVIOUS
<1>1. now = 0 /\ TablesOK
    BY DEF CacheInit, TablesOK
<1>2. CachesOK
    BY <1>1 DEF CacheInit, CachesOK, IsSnapshot, Nothing
<1>3. TasksOK
    <2>1. IsTask(Idle) /\ AtWork(Idle)
        BY <1>1 DEF Idle, IsTask, AtWork, Phases
    <2>2. IsTask([Idle EXCEPT !.todo = RefreshAll]) /\ AtWork([Idle EXCEPT !.todo = RefreshAll])
        BY <1>1, IdleIs, NotificationsAre
    <2>3. task = [t \in AllTasks |-> task[t]]
        BY DEF CacheInit
    <2>4. \A t \in AllTasks : task[t] \in {Idle, [Idle EXCEPT !.todo = RefreshAll]}
        BY DEF CacheInit
    <2> QED BY <2>1, <2>2, <2>3, <2>4, Zenon DEF TasksOK
<1> QED BY <1>1, <1>2, <1>3 DEF CacheTypes

(* One task gets a new record.                                              *)
LEMMA TaskSet ==
    ASSUME TasksOK, now' = now, NEW t \in AllTasks, NEW r, task' = [task EXCEPT ![t] = r],
           IsTask(r), AtWork(r)
    PROVE  TasksOK'
<1>1. \A q \in AllTasks : task'[q] = IF q = t THEN r ELSE task[q]
    BY DEF TasksOK
<1>2. \A q : IsTask(q)' <=> q \in [todo : Seq(Ops), phase : Phases, base : {q.base}, built : {q.built},
                                   at : 0..now, scope : SUBSET AllIds]
    BY DEF IsTask, Ops, AllIds, Phases, Ids, Kinds
<1>3. \A q \in AllTasks : IsTask(task'[q])
    BY <1>1 DEF TasksOK
<1>4. \A q \in AllTasks : AtWork(task'[q])
    BY <1>1 DEF TasksOK
<1>5. task' = [q \in AllTasks |-> task'[q]]
    BY DEF TasksOK
<1> QED BY <1>3, <1>4, <1>5 DEF TasksOK, IsTask, AtWork, Ops, AllIds, Phases, Ids, Kinds

LEMMA TouchType ==
    ASSUME TablesOK, NEW u \in Users
    PROVE  Touch(u) \in [1..Cardinality(Users) -> Users]
<1>1. Cardinality(Users) \in Nat
    BY CacheAssumption, FS_CardinalityType
<1>2. seen \in [1..Cardinality(Users) -> Users] /\ DOMAIN seen = 1..Cardinality(Users)
    BY DEF TablesOK
<1>3. ASSUME NEW i \in 1..Cardinality(Users), i # 1 PROVE seen[i - 1] \in Users /\ seen[i] \in Users
    BY <1>1, <1>2, <1>3
<1> QED BY <1>2, <1>3 DEF Touch

LEMMA ClaimsType ==
    ASSUME TablesOK, NEW s \in Spots, spots' = [spots EXCEPT ![s].claims = @ + 1]
    PROVE  spots' \in [Spots -> [status : {"draft", "published", "done"}, claims : Nat]]
<1>1. spots \in [Spots -> [status : {"draft", "published", "done"}, claims : Nat]]
    BY DEF TablesOK
<1>2. PICK r : r = [spots[s] EXCEPT !.claims = @ + 1]
    OBVIOUS
<1>3. spots[s] \in [status : {"draft", "published", "done"}, claims : Nat] /\ spots[s].claims + 1 \in Nat
    BY <1>1
<1>4. r \in [status : {"draft", "published", "done"}, claims : Nat]
    BY <1>2, <1>3
<1>5. spots' = [spots EXCEPT ![s] = r]
    BY <1>2
<1> QED BY <1>1, <1>4, <1>5

(* A task with nothing left to do is given the notifications of a write.    *)
LEMMA SpawnTypes ==
    ASSUME CacheTypes, NEW t \in AllTasks, NEW ops \in Seq(Ops), Spawn(t, ops), TablesOK'
    PROVE  CacheTypes'
<1>1. task[t].todo = <<>> /\ UNCHANGED <<now, cached, dirty>> /\ task' = [task EXCEPT ![t].todo = ops]
    BY DEF Spawn
<1>2. IsTask(task[t]) /\ task[t].phase = "next"
    BY <1>1 DEF CacheTypes, TasksOK, AtWork
<1>3. PICK r : r = [task[t] EXCEPT !.todo = ops]
    OBVIOUS
<1>4. IsTask(r) /\ AtWork(r)
    BY <1>2, <1>3 DEF IsTask, AtWork
<1>5. task' = [task EXCEPT ![t] = r]
    BY <1>1, <1>3
<1>6. TasksOK'
    BY <1>1, <1>4, <1>5, TaskSet DEF CacheTypes
<1>7. CachesOK'
    BY <1>1 DEF CacheTypes, CachesOK, IsSnapshot, Kinds, Ids
<1> QED BY <1>1, <1>6, <1>7 DEF CacheTypes

(* What a request, a background pass included, does: a write or none, and   *)
(* the notifications it then has to do.                                     *)
LEMMA RequestSpawns ==
    ASSUME CacheTypes, NEW t \in AllTasks, RequestStep(t)
    PROVE  TablesOK' /\ \E ops \in Seq(Ops) : Spawn(t, ops)
<1> USE NotificationsAre
<1>0. spots \in [Spots -> [status : {"draft", "published", "done"}, claims : Nat]]
      /\ seen \in [1..Cardinality(Users) -> Users] /\ TablesOK /\ \A s \in Spots : Owner[s] \in Users
    BY CacheAssumption DEF CacheTypes, TablesOK
<1>1. ASSUME NEW s \in Spots, PublishSpot(t, s) \/ SettleClaim(t, s) \/ EndSpot(t, s)
      PROVE  TablesOK' /\ \E ops \in Seq(Ops) : Spawn(t, ops)
    <2>1. \E ops \in Seq(Ops) : Spawn(t, ops)
        BY <1>1 DEF PublishSpot, SettleClaim, EndSpot
    <2>2. spots' \in [Spots -> [status : {"draft", "published", "done"}, claims : Nat]]
        <3>1. CASE PublishSpot(t, s)
            BY <1>0, <3>1 DEF PublishSpot
        <3>2. CASE SettleClaim(t, s)
            <4>1. spots' = [spots EXCEPT ![s].claims = @ + 1]
                BY <3>2 DEF SettleClaim
            <4> QED BY <1>0, <4>1, ClaimsType
        <3>3. CASE EndSpot(t, s)
            BY <1>0, <3>3 DEF EndSpot
        <3> QED BY <1>1, <3>1, <3>2, <3>3
    <2>3. names' = names /\ trans' = trans /\ seen' \in {seen, Touch(Owner[s])}
        BY <1>1 DEF PublishSpot, SettleClaim, EndSpot
    <2> QED BY <1>0, <2>1, <2>2, <2>3, TouchType DEF TablesOK
<1>2. ASSUME NEW s \in Spots, NEW u \in Users, ClaimSpot(t, s, u)
      PROVE  TablesOK' /\ \E ops \in Seq(Ops) : Spawn(t, ops)
    <2>1. /\ Spawn(t, NotifyOwnerChange(s)) /\ spots' = [spots EXCEPT ![s].claims = @ + 1]
          /\ seen' = Touch(u) /\ names' = names /\ trans' = trans
        BY <1>2 DEF ClaimSpot
    <2>2. spots' \in [Spots -> [status : {"draft", "published", "done"}, claims : Nat]]
        BY <1>0, <2>1, ClaimsType
    <2> QED BY <1>0, <2>1, <2>2, TouchType DEF TablesOK
<1>3. ASSUME NEW u \in Users, RenameUser(t, u) \/ VisitClaims(t, u)
      PROVE  TablesOK' /\ \E ops \in Seq(Ops) : Spawn(t, ops)
    <2>1. \E ops \in Seq(Ops) : Spawn(t, ops)
        BY <1>3 DEF RenameUser, VisitClaims
    <2>2. /\ seen' = Touch(u) /\ spots' = spots /\ trans' = trans
          /\ names' \in {names, [names EXCEPT ![u] = @ + 1]}
        BY <1>3 DEF RenameUser, VisitClaims
    <2>3. names' \in [Users -> Nat]
        BY <1>0, <2>2 DEF TablesOK
    <2> QED BY <1>0, <2>1, <2>2, <2>3, TouchType DEF TablesOK
<1>4. ASSUME NEW x \in Trans, ChangeTransaction(t, x)
      PROVE  TablesOK' /\ \E ops \in Seq(Ops) : Spawn(t, ops)
    <2>1. \E ops \in Seq(Ops) : Spawn(t, ops)
        BY <1>4 DEF ChangeTransaction
    <2> QED BY <1>0, <1>4, <2>1 DEF ChangeTransaction, TablesOK
<1>5. ASSUME NEW k \in Kinds, ReadCache(t, k)
      PROVE  TablesOK' /\ \E ops \in Seq(Ops) : Spawn(t, ops)
    BY <1>0, <1>5 DEF ReadCache, TablesOK, dbVars
<1> QED BY <1>1, <1>2, <1>3, <1>4, <1>5, Zenon DEF RequestStep

-----------------------------------------------------------------------------
(* What the steps of a task do to its record *)

LEMMA WorkIs ==
    ASSUME CacheTypes, NEW t \in AllTasks, task[t].todo # <<>>
    PROVE  /\ Current(t) \in Ops /\ Current(t).kind \in Kinds
           /\ Current(t).ids \subseteq Ids(Current(t).kind) /\ Tail(task[t].todo) \in Seq(Ops)
           /\ IsTask(task[t]) /\ AtWork(task[t])
           /\ \A k \in Kinds : Ids(k) \subseteq AllIds
<1>1. task[t].todo \in Seq(Ops) /\ IsTask(task[t]) /\ AtWork(task[t])
    BY DEF CacheTypes, TasksOK, IsTask
<1>2. Current(t) \in Ops /\ Tail(task[t].todo) \in Seq(Ops)
    BY <1>1, HeadTailProperties DEF Current
<1> QED BY <1>1, <1>2 DEF Ops, Kinds, Ids, AllIds

(* An operation is taken from the list.                                     *)
LEMMA PopIs ==
    ASSUME CacheTypes, NEW t \in AllTasks, task[t].phase = "next", task[t].todo # <<>>,
           NEW r, r = [task[t] EXCEPT !.todo = Tail(@)]
    PROVE  IsTask(r) /\ AtWork(r) /\ r.todo = Tail(task[t].todo) /\ r.phase = "next"
BY WorkIs DEF IsTask, AtWork

Scope(t) ==
    IF Current(t).mode = "targeted" /\ cached[Current(t).kind].loaded
    THEN Current(t).ids ELSE Ids(Current(t).kind)

LEMMA BeginIs ==
    ASSUME CacheTypes, NEW t \in AllTasks, BeginRefresh(t)
    PROVE  \E r : /\ task' = [task EXCEPT ![t] = r] /\ IsTask(r) /\ AtWork(r)
                  /\ r.phase = "rows" /\ r.todo = task[t].todo /\ r.scope = Scope(t)
                  /\ r.base = Restrict(cached[Current(t).kind].rows,
                                       DOMAIN cached[Current(t).kind].rows \ Scope(t))
<1> DEFINE c == cached[Current(t).kind]
           base == Restrict(c.rows, DOMAIN c.rows \ Scope(t))
<1>1. /\ task' = [task EXCEPT ![t].phase = "rows", ![t].at = now, ![t].scope = Scope(t),
                     ![t].base = base]
      /\ task[t].phase = "next" /\ task[t].todo # <<>> /\ Current(t).mode # "mark"
    BY DEF BeginRefresh, Scope
<1>2. /\ IsTask(task[t]) /\ Scope(t) \subseteq Ids(Current(t).kind) /\ Scope(t) \in SUBSET AllIds
      /\ IsSnapshot(c, Current(t).kind)
    BY <1>1, WorkIs DEF Scope, CacheTypes, CachesOK
<1>3. DOMAIN base \subseteq Ids(Current(t).kind)
    BY <1>2 DEF Restrict, IsSnapshot
<1> HIDE DEF base
<1>4. PICK r1 : r1 = [task[t] EXCEPT !.phase = "rows"]
    OBVIOUS
<1>5. PICK r2 : r2 = [r1 EXCEPT !.at = now]
    OBVIOUS
<1>6. PICK r3 : r3 = [r2 EXCEPT !.scope = Scope(t)]
    OBVIOUS
<1>7. PICK r : r = [r3 EXCEPT !.base = base]
    OBVIOUS
<1>8. IsTask(r1) /\ r1.phase = "rows" /\ r1.todo = task[t].todo
    BY <1>2, <1>4 DEF IsTask, Phases
<1>9. IsTask(r2) /\ r2.phase = "rows" /\ r2.todo = task[t].todo
    BY <1>8, <1>5 DEF IsTask, CacheTypes
<1>10. IsTask(r3) /\ r3.phase = "rows" /\ r3.todo = task[t].todo /\ r3.scope = Scope(t)
    BY <1>9, <1>6, <1>2 DEF IsTask
<1>11. /\ IsTask(r) /\ r.phase = "rows" /\ r.todo = task[t].todo /\ r.scope = Scope(t)
       /\ r.base = base
    BY <1>10, <1>7 DEF IsTask
<1>12. task' = [task EXCEPT ![t] = r]
    BY <1>1, <1>4, <1>5, <1>6, <1>7
<1>13. AtWork(r)
    BY <1>1, <1>2, <1>3, <1>11 DEF AtWork, Current
<1> QED BY <1>11, <1>12, <1>13 DEF base

LEMMA RowsAre ==
    ASSUME CacheTypes, NEW t \in AllTasks, ReadRows(t)
    PROVE  \E r : /\ task' = [task EXCEPT ![t] = r] /\ IsTask(r) /\ AtWork(r)
                  /\ r.phase \in {"details", "install"} /\ r.todo = task[t].todo
                  /\ r.scope = task[t].scope /\ r.base = task[t].base
                  /\ r.built = Restrict(View(Current(t).kind),
                                        DOMAIN View(Current(t).kind) \cap task[t].scope)
<1> DEFINE view == View(Current(t).kind)
           built == Restrict(view, DOMAIN view \cap task[t].scope)
           after == IF Current(t).kind = "spot" THEN "details" ELSE "install"
<1>1. task[t].phase = "rows" /\ task' = [task EXCEPT ![t].built = built, ![t].phase = after]
    BY DEF ReadRows
<1>2. IsTask(task[t]) /\ AtWork(task[t])
    BY DEF CacheTypes, TasksOK
<1>3. DOMAIN built \subseteq task[t].scope
    BY DEF Restrict
<1> HIDE DEF view, built
<1>4. PICK r1 : r1 = [task[t] EXCEPT !.built = built]
    OBVIOUS
<1>5. PICK r : r = [r1 EXCEPT !.phase = after]
    OBVIOUS
<1>6. IsTask(r1) /\ r1.todo = task[t].todo /\ r1.scope = task[t].scope /\ r1.base = task[t].base
      /\ r1.built = built
    BY <1>2, <1>4 DEF IsTask
<1>7. /\ IsTask(r) /\ r.todo = task[t].todo /\ r.scope = task[t].scope /\ r.base = task[t].base
      /\ r.built = built /\ r.phase = after
    BY <1>6, <1>5 DEF IsTask, Phases
<1>8. task' = [task EXCEPT ![t] = r]
    BY <1>1, <1>4, <1>5
<1>9. AtWork(r)
    BY <1>1, <1>2, <1>3, <1>7 DEF AtWork
<1> QED BY <1>7, <1>8, <1>9 DEF built, view

LEMMA DetailsAre ==
    ASSUME CacheTypes, NEW t \in AllTasks, ReadDetails(t)
    PROVE  \E r : /\ task' = [task EXCEPT ![t] = r] /\ IsTask(r) /\ AtWork(r)
                  /\ r.phase = "install" /\ r.todo = task[t].todo
                  /\ r.scope = task[t].scope /\ r.base = task[t].base
                  /\ r.built = [s \in DOMAIN task[t].built |->
                                  [task[t].built[s] EXCEPT !.claims = spots[s].claims]]
<1> DEFINE built == [s \in DOMAIN task[t].built |->
                        [task[t].built[s] EXCEPT !.claims = spots[s].claims]]
<1>1. task[t].phase = "details" /\ IsTask(task[t]) /\ AtWork(task[t])
    BY DEF ReadDetails, CacheTypes, TasksOK
<1>2. PICK r1 : r1 = [task[t] EXCEPT !.phase = "install"]
    OBVIOUS
<1>3. PICK r : r = [r1 EXCEPT !.built = built]
    OBVIOUS
<1>4. DOMAIN built = DOMAIN task[t].built
    OBVIOUS
<1>5. /\ IsTask(r1) /\ r1.todo = task[t].todo /\ r1.scope = task[t].scope /\ r1.base = task[t].base
      /\ r1.phase = "install" /\ r1.built = task[t].built
    BY <1>1, <1>2 DEF IsTask, Phases
<1>6. task' = [task EXCEPT ![t] = r]
    BY <1>2, <1>3, <1>5 DEF ReadDetails
<1> HIDE DEF built
<1>7. /\ IsTask(r) /\ r.todo = task[t].todo /\ r.scope = task[t].scope /\ r.base = task[t].base
      /\ r.phase = "install" /\ r.built = built
    BY <1>5, <1>3 DEF IsTask
<1>8. AtWork(r)
    BY <1>1, <1>4, <1>7 DEF AtWork
<1> QED BY <1>6, <1>7, <1>8 DEF built

LEMMA InstallIs ==
    ASSUME CacheTypes, NEW t \in AllTasks, Install(t)
    PROVE  LET k == Current(t).kind
           IN  /\ k \in Kinds /\ task[t].todo # <<>>
               /\ cached'[k].loaded = TRUE /\ cached'[k].rows = Rebuilt(t) /\ cached'[k].at = task[t].at
               /\ dirty'[k] = FALSE
               /\ \A j \in Kinds : j # k => cached'[j] = cached[j] /\ dirty'[j] = dirty[j]
               /\ cached' = [j \in Kinds |-> cached'[j]] /\ dirty' \in [Kinds -> BOOLEAN]
               /\ task' = [task EXCEPT ![t] = [Idle EXCEPT !.todo = Tail(task[t].todo)]]
<1>1. task[t].phase = "install" /\ IsTask(task[t]) /\ AtWork(task[t])
    BY DEF Install, CacheTypes, TasksOK
<1>2. task[t].todo # <<>>
    BY <1>1 DEF AtWork
<1>3. Current(t).kind \in Kinds
    BY <1>2, WorkIs
<1>4. /\ cached' = [cached EXCEPT ![Current(t).kind] =
                       [loaded |-> TRUE, rows |-> Rebuilt(t), at |-> task[t].at]]
      /\ dirty' = [dirty EXCEPT ![Current(t).kind] = FALSE]
      /\ task' = [task EXCEPT ![t] = [Idle EXCEPT !.todo = Tail(task[t].todo)]]
    BY DEF Install
<1>5. cached = [j \in Kinds |-> cached[j]] /\ dirty \in [Kinds -> BOOLEAN]
    BY DEF CacheTypes, CachesOK
<1> QED BY <1>2, <1>3, <1>4, <1>5

LEMMA InstallTypes ==
    ASSUME CacheTypes, NEW t \in AllTasks, Install(t)
    PROVE  CacheTypes'
<1> DEFINE k == Current(t).kind
<1>1. /\ k \in Kinds /\ task[t].todo # <<>>
      /\ cached'[k].loaded = TRUE /\ cached'[k].rows = Rebuilt(t) /\ cached'[k].at = task[t].at
      /\ \A j \in Kinds : j # k => cached'[j] = cached[j]
      /\ cached' = [j \in Kinds |-> cached'[j]] /\ dirty' \in [Kinds -> BOOLEAN]
      /\ task' = [task EXCEPT ![t] = [Idle EXCEPT !.todo = Tail(task[t].todo)]]
    BY InstallIs
<1>2. cached'[k] = [loaded |-> TRUE, rows |-> Rebuilt(t), at |-> task[t].at]
    BY <1>1 DEF Install, CacheTypes, CachesOK
<1>3. UNCHANGED <<now, dbVars>> /\ task[t].phase = "install"
    BY DEF Install
<1>4. Tail(task[t].todo) \in Seq(Ops) /\ IsTask(task[t]) /\ AtWork(task[t])
    BY <1>1, WorkIs
<1>5. DOMAIN Rebuilt(t) \subseteq Ids(k)
    BY <1>3, <1>4 DEF AtWork, Rebuilt, Current
<1>6. Rebuilt(t) = [i \in DOMAIN Rebuilt(t) |-> Rebuilt(t)[i]]
    BY DEF Rebuilt
<1>7. task[t].at \in 0..now
    BY <1>4 DEF IsTask
<1> HIDE DEF k
<1>8. \A j \in Kinds : IsSnapshot(cached'[j], j)
    <2>1. ASSUME NEW j \in Kinds, j = k PROVE IsSnapshot(cached'[j], j)
        <3>1. PICK c, b, a : /\ cached'[j] = c /\ b = Rebuilt(t) /\ a = task[t].at
                             /\ c = [loaded |-> TRUE, rows |-> b, at |-> a]
            BY <1>2, <2>1
        <3>2. c.rows = b /\ a \in 0..now /\ c \in [loaded : BOOLEAN, rows : {b}, at : 0..now]
            BY <3>1, <1>7
        <3>3. DOMAIN b \subseteq Ids(j) /\ b = [i \in DOMAIN b |-> b[i]]
            BY <1>5, <1>6, <2>1, <3>1
        <3> QED BY <3>1, <3>2, <3>3 DEF IsSnapshot
    <2>2. ASSUME NEW j \in Kinds, j # k PROVE IsSnapshot(cached'[j], j)
        BY <1>1, <2>2 DEF CacheTypes, CachesOK
    <2> QED BY <2>1, <2>2
<1>10. CachesOK'
    <2>1. \A j \in Kinds :
              /\ cached'[j] \in [loaded : BOOLEAN, rows : {cached'[j].rows}, at : 0..now']
              /\ DOMAIN cached'[j].rows \subseteq Ids(j)
              /\ cached'[j].rows = [i \in DOMAIN cached'[j].rows |-> cached'[j].rows[i]]
        BY <1>3, <1>8 DEF IsSnapshot
    <2> QED BY <1>1, <2>1 DEF CachesOK, IsSnapshot, Ids, Kinds
<1>11. TasksOK'
    <2>1. PICK r : r = [Idle EXCEPT !.todo = Tail(task[t].todo)]
        OBVIOUS
    <2>2. IsTask(r) /\ AtWork(r)
        BY <1>4, <2>1, IdleIs DEF CacheTypes
    <2> QED BY <1>1, <1>3, <2>1, <2>2, TaskSet DEF CacheTypes
<1> QED BY <1>3, <1>10, <1>11 DEF CacheTypes, TablesOK, dbVars

LEMMA CacheStepTypes ==
    ASSUME CacheTypes, NEW t \in AllTasks, CacheStep(t)
    PROVE  CacheTypes'
<1>1. ASSUME UNCHANGED <<now, dbVars>>, cached' = cached, dirty' \in [Kinds -> BOOLEAN],
             NEW r, task' = [task EXCEPT ![t] = r], IsTask(r), AtWork(r)
      PROVE  CacheTypes'
    <2>1. TasksOK'
        BY <1>1, TaskSet DEF CacheTypes
    <2>2. CachesOK'
        BY <1>1 DEF CacheTypes, CachesOK, IsSnapshot, Kinds, Ids
    <2> QED BY <1>1, <2>1, <2>2 DEF CacheTypes, TablesOK, dbVars
<1>2. CASE MarkDirty(t) \/ EnsureIsFresh(t)
    <2>1. /\ task[t].phase = "next" /\ task[t].todo # <<>>
          /\ UNCHANGED <<now, dbVars>> /\ cached' = cached
          /\ task' = [task EXCEPT ![t].todo = Tail(@)]
        BY <1>2 DEF MarkDirty, EnsureIsFresh
    <2>2. dirty' \in [Kinds -> BOOLEAN]
        BY <1>2 DEF MarkDirty, EnsureIsFresh, CacheTypes, CachesOK
    <2>3. PICK r : r = [task[t] EXCEPT !.todo = Tail(@)]
        OBVIOUS
    <2>4. IsTask(r) /\ AtWork(r)
        BY <2>1, <2>3, PopIs
    <2>5. task' = [task EXCEPT ![t] = r]
        BY <2>1, <2>3
    <2> QED BY <1>1, <2>1, <2>2, <2>4, <2>5
<1>3. CASE BeginRefresh(t) \/ ReadRows(t) \/ ReadDetails(t)
    <2>1. UNCHANGED <<now, dbVars, cached, dirty>>
        BY <1>3 DEF BeginRefresh, ReadRows, ReadDetails
    <2>2. dirty' \in [Kinds -> BOOLEAN]
        BY <2>1 DEF CacheTypes, CachesOK
    <2>3. PICK r : task' = [task EXCEPT ![t] = r] /\ IsTask(r) /\ AtWork(r)
        BY <1>3, BeginIs, RowsAre, DetailsAre, Zenon
    <2> QED BY <1>1, <2>1, <2>2, <2>3
<1> QED BY <1>2, <1>3, InstallTypes, Zenon DEF CacheStep

LEMMA CacheTypesStep == CacheTypes /\ [CacheNext]_cacheVars => CacheTypes'
<1> SUFFICES ASSUME CacheTypes, [CacheNext]_cacheVars PROVE CacheTypes'
    OBVIOUS
<1>1. ASSUME NEW t \in Tasks, RequestStep(t) PROVE CacheTypes'
    <2>1. t \in AllTasks
        BY DEF AllTasks
    <2>2. PICK ops \in Seq(Ops) : Spawn(t, ops) /\ TablesOK'
        BY <1>1, <2>1, RequestSpawns
    <2> QED BY <2>1, <2>2, SpawnTypes
<1>2. CASE BackgroundPass
    <2>1. Background \in AllTasks /\ TablesOK'
        BY <1>2 DEF AllTasks, BackgroundPass, dbVars, CacheTypes, TablesOK
    <2>2. Spawn(Background, RefreshAll)
        BY <1>2 DEF BackgroundPass
    <2> QED BY <2>1, <2>2, SpawnTypes, NotificationsAre
<1>3. CASE Tick
    <2>1. now' = now + 1 /\ now \in Nat /\ UNCHANGED <<dbVars, cached, dirty, task>>
        BY <1>3 DEF Tick, CacheTypes
    <2>2. 0..now \subseteq 0..now'
        BY <2>1
    <2>3. CachesOK'
        <3>1. \A k \in Kinds : IsSnapshot(cached[k], k)'
            BY <2>1, <2>2 DEF CacheTypes, CachesOK, IsSnapshot, Kinds, Ids
        <3> QED BY <2>1, <3>1 DEF CacheTypes, CachesOK, Kinds, Ids, IsSnapshot
    <2>4. TasksOK'
        <3>1. \A t \in AllTasks : IsTask(task[t])'
            <4>1. ASSUME NEW r, IsTask(r) PROVE IsTask(r)'
                BY <4>1, <2>2 DEF IsTask, Ops, AllIds, Phases, Kinds, Ids
            <4>2. \A t \in AllTasks : IsTask(task[t])
                BY DEF CacheTypes, TasksOK
            <4> QED BY <2>1, <4>1, <4>2 DEF IsTask, Ops, AllIds, Phases, Kinds, Ids
        <3> QED BY <2>1, <3>1 DEF CacheTypes, TasksOK, AtWork, Ids, IsTask
    <2> QED BY <2>1, <2>3, <2>4 DEF CacheTypes, TablesOK, dbVars
<1>4. CASE UNCHANGED cacheVars
    BY <1>4, ZenonT(40) DEF cacheVars, CacheTypes, TablesOK, CachesOK, TasksOK, IsTask, AtWork, IsSnapshot,
                Ops, AllIds, Phases, Kinds, Ids
<1> QED BY <1>1, <1>2, <1>3, <1>4, CacheStepTypes, Zenon DEF CacheNext

-----------------------------------------------------------------------------
(* current_public_spots: whatever refreshes interleave, the Spots a         *)
(* snapshot lists as current are so at this moment, unless it is due.       *)
THEOREM CacheIndexHolds == CacheSpec => []IndexHolds
<1>1. CacheTypes => IndexHolds
    <2> SUFFICES ASSUME CacheTypes, ~TransitionDue,
                        NEW s \in DOMAIN cached["spot"].rows
                 PROVE  Starts[s] <= cached["spot"].at <=> Starts[s] <= now
        BY DEF IndexHolds, CurrentSpots
    <2>1. IsSnapshot(cached["spot"], "spot") /\ now \in Nat
        BY DEF CacheTypes, CachesOK, Kinds
    <2>2. cached["spot"].at \in 0..now /\ Starts[s] \in Nat
        BY <2>1, CacheAssumption DEF IsSnapshot, Ids
    <2>3. ~(Starts[s] > cached["spot"].at /\ Starts[s] <= now)
        BY DEF TransitionDue, Transitions
    <2> QED BY <2>1, <2>2, <2>3
<1> QED BY <1>1, CacheTypesInit, CacheTypesStep, PTL DEF CacheSpec

-----------------------------------------------------------------------------
(***************************************************************************)
(* One task at a time.  A row of a loaded snapshot is right, or the task   *)
(* at work still has an operation to do that makes it so; the users may    *)
(* also be marked stale, which every refresh of theirs makes good because  *)
(* it is a full one.  This is not so of the Spots: a targeted refresh of   *)
(* another Spot clears their mark, so each Spot needs an operation.        *)
(***************************************************************************)
Right(k, i, rows) ==
    IF k = "spot" THEN i \in PublicSpots => i \in DOMAIN rows /\ rows[i].count = spots[i].claims
    ELSE /\ i \in DOMAIN rows <=> i \in DOMAIN View(k)
         /\ i \in DOMAIN rows => rows[i] = View(k)[i]

Owed(todo, k, i) ==
    \E n \in DOMAIN todo :
        /\ todo[n].kind = k
        /\ \/ todo[n].mode \in {"full", "targeted"} /\ i \in todo[n].ids
           \/ todo[n].mode = "mark" /\ k = "user"

Covered(k, i) ==
    \/ Right(k, i, cached[k].rows)
    \/ \E t \in AllTasks : Owed(task[t].todo, k, i)
    \/ k = "user" /\ dirty["user"]

OneAtWork == \A t, q \in AllTasks : task[t].todo # <<>> /\ task[q].todo # <<>> => t = q

(* What a refresh has read: the snapshot's other rows, and right ones.      *)
HasRead(t) ==
    LET k == Current(t).kind IN
    /\ task[t].phase # "next" =>
          /\ task[t].scope = Scope(t)
          /\ task[t].base = Restrict(cached[k].rows, DOMAIN cached[k].rows \ Scope(t))
    /\ task[t].phase \in {"details", "install"} =>
          DOMAIN task[t].built \subseteq Scope(t) /\ \A i \in Scope(t) : Right(k, i, task[t].built)
    /\ task[t].phase = "details" =>
          k = "spot" /\ \A s \in DOMAIN task[t].built :
                           task[t].built[s] \in [count : Nat, name : Nat, claims : Nat]

AllCovered == \A k \in Kinds : cached[k].loaded => \A i \in Ids(k) : Covered(k, i)

SerialInv == CacheTypes /\ OneAtWork /\ AllCovered /\ \A t \in AllTasks : HasRead(t)

(* The view of a kind, and what is right, depend on the tables and, for the *)
(* Spots, on the clock, which only takes Spots away.                        *)
LEMMA ViewIs ==
    ASSUME CacheTypes, NEW k \in Kinds
    PROVE  /\ DOMAIN View(k) \subseteq Ids(k) /\ View(k) = [i \in DOMAIN View(k) |-> View(k)[i]]
           /\ k = "spot" => /\ DOMAIN View(k) = PublicSpots
                            /\ \A s \in PublicSpots :
                                  /\ View(k)[s] \in [count : Nat, name : Nat, claims : Nat]
                                  /\ View(k)[s].count = spots[s].claims
<1>1. CASE k = "spot"
    <2>1. View(k) = [s \in PublicSpots |->
              [count |-> spots[s].claims, name |-> names[Owner[s]], claims |-> spots[s].claims]]
        BY <1>1 DEF View
    <2>2. \A s \in PublicSpots : s \in Spots /\ spots[s].claims \in Nat /\ names[Owner[s]] \in Nat
        BY CacheAssumption DEF PublicSpots, CacheTypes, TablesOK
    <2> QED BY <1>1, <2>1, <2>2 DEF Ids
<1>2. CASE k = "user"
    <2>1. View(k) = [u \in RecentUsers |-> names[u]]
        BY <1>2 DEF View
    <2>2. RecentUsers \subseteq Users
        BY CacheAssumption, FS_CardinalityType DEF RecentUsers, CacheTypes, TablesOK
    <2> QED BY <1>2, <2>1, <2>2 DEF Ids
<1>3. CASE k = "pending"
    <2>1. View(k) = [x \in PendingTrans |-> SpotOf[x]]
        BY <1>3 DEF View
    <2> QED BY <1>3, <2>1 DEF Ids, PendingTrans
<1> QED BY <1>1, <1>2, <1>3 DEF Kinds

LEMMA SameSpots ==
    ASSUME spots' = spots, now' \in Nat, now \in Nat, now' >= now
    PROVE  \A i, rows : Right("spot", i, rows) => Right("spot", i, rows)'
<1>1. \A s \in Spots : s \in PublicSpots' => s \in PublicSpots
    BY CacheAssumption DEF PublicSpots
<1> QED BY <1>1 DEF Right, PublicSpots

LEMMA SameUsers ==
    ASSUME names' = names, seen' = seen
    PROVE  \A i, rows : Right("user", i, rows) => Right("user", i, rows)'
BY DEF Right, View, RecentUsers

LEMMA SamePending ==
    ASSUME trans' = trans
    PROVE  \A i, rows : Right("pending", i, rows) => Right("pending", i, rows)'
BY DEF Right, View, PendingTrans

(* What each notification makes good.                                       *)
LEMMA NotifiedIs ==
    /\ \A s \in Spots : /\ Owed(NotifyOwnerChange(s), "spot", s)
                        /\ \A u \in Users : Owed(NotifyOwnerChange(s), "user", u)
                        /\ Owed(<<RefreshSpot(s)>>, "spot", s)
                        /\ \A known \in BOOLEAN : Owed(NotifyClaim(s, known), "spot", s)
    /\ \A u \in Users : Owed(NotifyUser, "user", u) /\ Owed(NotifyUser \o <<Mark("spot")>>, "user", u)
    /\ \A x \in Trans : Owed(NotifyTransaction(x), "pending", x)
    /\ \A k \in Kinds : \A i \in Ids(k) : Owed(RefreshAll, k, i)
<1>1. /\ Full("user").kind = "user" /\ Full("user").mode = "full" /\ Full("user").ids = Users
      /\ \A k \in Kinds : Full(k).kind = k /\ Full(k).mode = "full" /\ Full(k).ids = Ids(k)
      /\ \A s \in Spots : /\ RefreshSpot(s).kind = "spot" /\ RefreshSpot(s).mode = "targeted"
                          /\ RefreshSpot(s).ids = {s}
      /\ \A x \in Trans : /\ RefreshPending(x).kind = "pending" /\ RefreshPending(x).mode = "targeted"
                          /\ RefreshPending(x).ids = {x}
    BY DEF Full, RefreshSpot, RefreshPending, Op, Ids, Kinds
<1>2. ASSUME NEW a, NEW b PROVE <<a, b>>[2] = b /\ 2 \in DOMAIN <<a, b>> /\ <<a, b>>[1] = a /\ 1 \in DOMAIN <<a, b>>
    OBVIOUS
<1>3. ASSUME NEW a, NEW b, NEW c
      PROVE  /\ (<<a, b>> \o <<c>>)[2] = b /\ {2, 3} \subseteq DOMAIN (<<a, b>> \o <<c>>)
             /\ (<<a, b>> \o <<c>>)[3] = c
             /\ <<a, b, c>>[3] = c /\ 3 \in DOMAIN <<a, b, c>>
             /\ <<a, b, c>>[1] = a /\ <<a, b, c>>[2] = b /\ {1, 2} \subseteq DOMAIN <<a, b, c>>
    <2>1. PICK p, q : p = <<a, b>> /\ q = <<c>>
        OBVIOUS
    <2>2. p \in Seq({a, b, c}) /\ q \in Seq({a, b, c}) /\ Len(p) = 2 /\ Len(q) = 1
        BY <2>1
    <2>3. Len(p \o q) = 3 /\ (p \o q)[2] = p[2] /\ (p \o q)[3] = q[1]
        BY <2>2, ConcatProperties
    <2>4. DOMAIN (p \o q) = 1..3 /\ p[2] = b /\ q[1] = c
        BY <2>1, <2>2, <2>3, ConcatProperties
    <2>5. /\ <<a, b, c>>[3] = c /\ 3 \in DOMAIN <<a, b, c>>
          /\ <<a, b, c>>[1] = a /\ <<a, b, c>>[2] = b /\ {1, 2} \subseteq DOMAIN <<a, b, c>>
        OBVIOUS
    <2> QED BY <2>1, <2>3, <2>4, <2>5
<1>4. ASSUME NEW u \in Users
      PROVE  Owed(NotifyUser, "user", u) /\ Owed(NotifyUser \o <<Mark("spot")>>, "user", u)
    <2>1. NotifyUser[2] = Full("user") /\ 2 \in DOMAIN NotifyUser
        BY <1>2 DEF NotifyUser, RefreshUser
    <2>2. /\ (NotifyUser \o <<Mark("spot")>>)[2] = Full("user")
          /\ 2 \in DOMAIN (NotifyUser \o <<Mark("spot")>>)
        BY <1>3 DEF NotifyUser, RefreshUser
    <2> QED BY <1>1, <2>1, <2>2 DEF Owed
<1>5. ASSUME NEW s \in Spots
      PROVE  /\ Owed(NotifyOwnerChange(s), "spot", s)
             /\ \A u \in Users : Owed(NotifyOwnerChange(s), "user", u)
    <2>1. /\ NotifyOwnerChange(s)[2] = Full("user") /\ NotifyOwnerChange(s)[3] = RefreshSpot(s)
          /\ {2, 3} \subseteq DOMAIN NotifyOwnerChange(s)
        BY <1>3 DEF NotifyOwnerChange, NotifyUser, RefreshUser
    <2> QED BY <1>1, <2>1 DEF Owed
<1>6. ASSUME NEW s \in Spots, NEW known \in BOOLEAN PROVE Owed(NotifyClaim(s, known), "spot", s)
    <2>1. NotifyClaim(s, known)[1] = RefreshSpot(s) /\ 1 \in DOMAIN NotifyClaim(s, known)
        BY <1>2 DEF NotifyClaim
    <2> QED BY <1>1, <2>1 DEF Owed
<1>7. ASSUME NEW x \in Trans PROVE Owed(NotifyTransaction(x), "pending", x)
    <2>1. NotifyTransaction(x)[3] = RefreshPending(x) /\ 3 \in DOMAIN NotifyTransaction(x)
        BY <1>3 DEF NotifyTransaction
    <2> QED BY <1>1, <2>1 DEF Owed
<1>8. ASSUME NEW s \in Spots PROVE Owed(<<RefreshSpot(s)>>, "spot", s)
    <2>1. <<RefreshSpot(s)>>[1] = RefreshSpot(s) /\ 1 \in DOMAIN <<RefreshSpot(s)>>
        OBVIOUS
    <2> QED BY <1>1, <2>1 DEF Owed
<1>9. ASSUME NEW k \in Kinds, NEW i \in Ids(k) PROVE Owed(RefreshAll, k, i)
    <2>1. \E n \in DOMAIN RefreshAll : RefreshAll[n] = Full(k)
        BY <1>3 DEF RefreshAll, Kinds
    <2> QED BY <1>1, <2>1 DEF Owed
<1> QED BY <1>4, <1>5, <1>6, <1>7, <1>8, <1>9

(* Every row that a write changes is made good by the write's notifications.*)
WriteNotified(ops) ==
    \A k \in Kinds : \A i \in Ids(k) : \A rows :
        Right(k, i, rows) => Right(k, i, rows)' \/ Owed(ops, k, i)

LEMMA WritesAreNotified ==
    ASSUME CacheTypes, NEW t \in AllTasks, RequestStep(t)
    PROVE  \E ops \in Seq(Ops) : Spawn(t, ops) /\ WriteNotified(ops)
<1> USE NotificationsAre, NotifiedIs
<1>0. /\ now \in Nat /\ Ids("spot") = Spots /\ Ids("user") = Users /\ Ids("pending") = Trans
      /\ \A s \in Spots : spots[s] \in [status : {"draft", "published", "done"}, claims : Nat]
      /\ spots \in [Spots -> [status : {"draft", "published", "done"}, claims : Nat]]
    BY DEF CacheTypes, TablesOK, Ids
(* A write to one Spot, to the users or to one transaction.                 *)
<1>1. ASSUME NEW ops, now' = now,
             \/ spots' = spots
             \/ \E s \in Spots : /\ Owed(ops, "spot", s)
                                 /\ \A q \in Spots : q # s => spots'[q] = spots[q],
             UNCHANGED <<names, seen>> \/ \A u \in Users : Owed(ops, "user", u),
             \/ trans' = trans
             \/ \E x \in Trans : /\ Owed(ops, "pending", x)
                                 /\ \A y \in Trans : y # x => trans'[y] = trans[y]
      PROVE  WriteNotified(ops)
    <2>1. ASSUME NEW i \in Spots, NEW rows, Right("spot", i, rows)
          PROVE  Right("spot", i, rows)' \/ Owed(ops, "spot", i)
        <3>1. CASE spots' = spots
            BY <1>0, <1>1, <2>1, <3>1, SameSpots
        <3>2. CASE spots'[i] = spots[i]
            BY <1>1, <2>1, <3>2 DEF Right, PublicSpots
        <3> QED BY <1>1, <3>1, <3>2
    <2>2. ASSUME NEW i \in Users, NEW rows, Right("user", i, rows)
          PROVE  Right("user", i, rows)' \/ Owed(ops, "user", i)
        BY <1>1, <2>2, SameUsers
    <2>3. ASSUME NEW i \in Trans, NEW rows, Right("pending", i, rows)
          PROVE  Right("pending", i, rows)' \/ Owed(ops, "pending", i)
        <3>1. CASE trans' = trans
            BY <2>3, <3>1, SamePending
        <3>2. CASE trans'[i] = trans[i]
            BY <2>3, <3>2 DEF Right, View, PendingTrans
        <3> QED BY <1>1, <3>1, <3>2
    <2> QED BY <1>0, <2>1, <2>2, <2>3 DEF WriteNotified, Kinds
<1>2. ASSUME NEW s \in Spots, PublishSpot(t, s)
      PROVE  \E ops \in Seq(Ops) : Spawn(t, ops) /\ WriteNotified(ops)
    <2>1. /\ Spawn(t, NotifyOwnerChange(s)) /\ now' = now /\ trans' = trans
          /\ \A q \in Spots : q # s => spots'[q] = spots[q]
        BY <1>0, <1>2 DEF PublishSpot, Spawn
    <2>2. WriteNotified(NotifyOwnerChange(s))
        BY <1>1, <2>1
    <2> QED BY <2>1, <2>2
<1>3. ASSUME NEW s \in Spots, SettleClaim(t, s)
      PROVE  \E ops \in Seq(Ops) : Spawn(t, ops) /\ WriteNotified(ops)
    <2>1. PICK known \in BOOLEAN :
              /\ Spawn(t, NotifyClaim(s, known)) /\ now' = now /\ UNCHANGED <<names, seen, trans>>
              /\ \A q \in Spots : q # s => spots'[q] = spots[q]
        BY <1>0, <1>3 DEF SettleClaim, Spawn
    <2>2. WriteNotified(NotifyClaim(s, known))
        BY <1>1, <2>1
    <2> QED BY <2>1, <2>2
<1>4. ASSUME NEW s \in Spots, EndSpot(t, s)
      PROVE  \E ops \in Seq(Ops) : Spawn(t, ops) /\ WriteNotified(ops)
    <2>1. /\ Spawn(t, <<RefreshSpot(s)>>) /\ now' = now /\ UNCHANGED <<names, seen, trans>>
          /\ \A q \in Spots : q # s => spots'[q] = spots[q]
        BY <1>0, <1>4 DEF EndSpot, Spawn
    <2>2. WriteNotified(<<RefreshSpot(s)>>)
        BY <1>1, <2>1
    <2> QED BY <2>1, <2>2
<1>5. ASSUME NEW s \in Spots, NEW u \in Users, ClaimSpot(t, s, u)
      PROVE  \E ops \in Seq(Ops) : Spawn(t, ops) /\ WriteNotified(ops)
    <2>1. /\ Spawn(t, NotifyOwnerChange(s)) /\ now' = now /\ trans' = trans
          /\ \A q \in Spots : q # s => spots'[q] = spots[q]
        BY <1>0, <1>5 DEF ClaimSpot, Spawn
    <2>2. WriteNotified(NotifyOwnerChange(s))
        BY <1>1, <2>1
    <2> QED BY <2>1, <2>2
<1>6. ASSUME NEW u \in Users, RenameUser(t, u) \/ VisitClaims(t, u)
      PROVE  \E ops \in Seq(Ops) : Spawn(t, ops) /\ WriteNotified(ops)
    <2>1. PICK ops \in {NotifyUser, NotifyUser \o <<Mark("spot")>>} :
              Spawn(t, ops) /\ now' = now /\ UNCHANGED <<spots, trans>>
        BY <1>6 DEF RenameUser, VisitClaims, Spawn
    <2>2. WriteNotified(ops)
        BY <1>1, <2>1
    <2> QED BY <2>1, <2>2
<1>7. ASSUME NEW x \in Trans, ChangeTransaction(t, x)
      PROVE  \E ops \in Seq(Ops) : Spawn(t, ops) /\ WriteNotified(ops)
    <2>1. /\ Spawn(t, NotifyTransaction(x)) /\ now' = now /\ UNCHANGED <<spots, names, seen>>
          /\ \A y \in Trans : y # x => trans'[y] = trans[y]
        BY <1>7 DEF ChangeTransaction, Spawn, CacheTypes, TablesOK
    <2>2. WriteNotified(NotifyTransaction(x))
        BY <1>1, <2>1
    <2> QED BY <2>1, <2>2
<1>8. ASSUME NEW k \in Kinds, ReadCache(t, k)
      PROVE  \E ops \in Seq(Ops) : Spawn(t, ops) /\ WriteNotified(ops)
    <2>1. Spawn(t, <<Ensure(k)>>) /\ now' = now /\ UNCHANGED <<spots, names, seen, trans>>
        BY <1>8 DEF ReadCache, Spawn, dbVars
    <2>2. WriteNotified(<<Ensure(k)>>)
        BY <1>1, <2>1
    <2> QED BY <2>1, <2>2
<1> QED BY <1>2, <1>3, <1>4, <1>5, <1>6, <1>7, <1>8, Zenon DEF RequestStep

LEMMA StaysRight ==
    ASSUME dbVars' = dbVars, now \in Nat, now' \in Nat, now' >= now, NEW k \in Kinds
    PROVE  \A i, rows : Right(k, i, rows) => Right(k, i, rows)'
BY SameSpots, SameUsers, SamePending DEF dbVars, Kinds

(* Only the task at work has begun something.                               *)
LEMMA OthersRest ==
    ASSUME SerialInv, NEW t \in AllTasks, task[t].todo # <<>>, NEW q \in AllTasks, q # t
    PROVE  task[q].todo = <<>> /\ task[q].phase = "next"
BY DEF SerialInv, OneAtWork, CacheTypes, TasksOK, AtWork

LEMMA SerialSpawn ==
    ASSUME SerialInv, Quiet, NEW t \in AllTasks, NEW ops, Spawn(t, ops), WriteNotified(ops)
    PROVE  OneAtWork' /\ AllCovered' /\ \A q \in AllTasks : HasRead(q)'
<1>1. /\ \A q \in AllTasks : task[q].todo = <<>> /\ task[q].phase = "next"
      /\ cached' = cached /\ dirty' = dirty
    BY DEF Quiet, Spawn, SerialInv, CacheTypes, TasksOK, AtWork
<1>2. IsTask(task[t]) /\ task = [q \in AllTasks |-> task[q]]
    BY DEF SerialInv, CacheTypes, TasksOK
<1>3. PICK r : r = [task[t] EXCEPT !.todo = ops]
    OBVIOUS
<1>4. r.todo = ops /\ r.phase = "next"
    BY <1>1, <1>2, <1>3 DEF IsTask
<1>5. \A q \in AllTasks : task'[q] = IF q = t THEN r ELSE task[q]
    BY <1>2, <1>3 DEF Spawn
<1>6. OneAtWork'
    BY <1>1, <1>5 DEF OneAtWork
<1>7. \A q \in AllTasks : HasRead(q)'
    BY <1>1, <1>4, <1>5 DEF HasRead
<1>8. AllCovered'
    <2> SUFFICES ASSUME NEW k \in Kinds, cached[k].loaded, NEW i \in Ids(k) PROVE Covered(k, i)'
        BY <1>1 DEF AllCovered, Ids
    <2>1. Covered(k, i)
        BY DEF SerialInv, AllCovered
    <2>2. \A q \in AllTasks : ~Owed(task[q].todo, k, i)
        BY <1>1 DEF Owed
    <2>3. CASE Right(k, i, cached[k].rows)
        <3>1. Right(k, i, cached[k].rows)' \/ Owed(ops, k, i)
            BY <1>1, <2>3 DEF WriteNotified, Right
        <3> QED BY <1>4, <1>5, <3>1 DEF Covered, Owed
    <2>4. CASE k = "user" /\ dirty["user"]
        BY <1>1, <2>4 DEF Covered
    <2> QED BY <2>1, <2>2, <2>3, <2>4, Zenon DEF Covered
<1> QED BY <1>6, <1>7, <1>8

(* The task at work goes on with the operation it has begun.                *)
LEMMA SerialGoesOn ==
    ASSUME SerialInv, UNCHANGED <<now, dbVars, cached, dirty>>, NEW t \in AllTasks,
           task[t].todo # <<>>, NEW r, task' = [task EXCEPT ![t] = r], r.todo = task[t].todo, HasRead(t)'
    PROVE  OneAtWork' /\ AllCovered' /\ \A q \in AllTasks : HasRead(q)'
<1>1. \A q \in AllTasks : task'[q] = IF q = t THEN r ELSE task[q]
    BY DEF SerialInv, CacheTypes, TasksOK
<1>2. \A q \in AllTasks : task'[q].todo = task[q].todo
    BY <1>1
<1>3. OneAtWork'
    BY <1>2 DEF SerialInv, OneAtWork
<1>4. ASSUME NEW q \in AllTasks, q # t PROVE HasRead(q)'
    <2>1. task'[q].phase = "next"
        BY <1>1, <1>4, OthersRest
    <2> QED BY <2>1 DEF HasRead
<1>5. AllCovered'
    <2> SUFFICES ASSUME NEW k \in Kinds, cached[k].loaded, NEW i \in Ids(k) PROVE Covered(k, i)'
        BY DEF AllCovered, Ids
    <2>1. Covered(k, i)
        BY DEF SerialInv, AllCovered
    <2>2. Right(k, i, cached[k].rows) => Right(k, i, cached[k].rows)'
        BY DEF Right, PublicSpots, View, RecentUsers, PendingTrans, dbVars
    <2> QED BY <1>2, <2>1, <2>2 DEF Covered, Owed
<1> QED BY <1>3, <1>4, <1>5

LEMMA SerialBegin ==
    ASSUME SerialInv, NEW t \in AllTasks, BeginRefresh(t)
    PROVE  OneAtWork' /\ AllCovered' /\ \A q \in AllTasks : HasRead(q)'
<1>1. UNCHANGED <<now, dbVars, cached, dirty>> /\ task[t].todo # <<>>
    BY DEF BeginRefresh
<1>2. PICK r : /\ task' = [task EXCEPT ![t] = r]
               /\ r.phase = "rows" /\ r.todo = task[t].todo /\ r.scope = Scope(t)
               /\ r.base = Restrict(cached[Current(t).kind].rows,
                                    DOMAIN cached[Current(t).kind].rows \ Scope(t))
    BY BeginIs DEF SerialInv
<1>3. task'[t] = r
    BY <1>2 DEF SerialInv, CacheTypes, TasksOK
<1>4. Current(t)' = Current(t) /\ Scope(t)' = Scope(t)
    BY <1>1, <1>2, <1>3 DEF Current, Scope, Ids
<1>5. HasRead(t)'
    BY <1>1, <1>2, <1>3, <1>4 DEF HasRead
<1> QED BY <1>1, <1>2, <1>5, SerialGoesOn

LEMMA SerialRows ==
    ASSUME SerialInv, NEW t \in AllTasks, ReadRows(t)
    PROVE  OneAtWork' /\ AllCovered' /\ \A q \in AllTasks : HasRead(q)'
<1> DEFINE k == Current(t).kind
<1>1. UNCHANGED <<now, dbVars, cached, dirty>> /\ task[t].phase = "rows"
    BY DEF ReadRows
<1>2. /\ task[t].todo # <<>> /\ task[t].scope = Scope(t)
      /\ task[t].base = Restrict(cached[k].rows, DOMAIN cached[k].rows \ Scope(t))
    BY <1>1 DEF SerialInv, CacheTypes, TasksOK, AtWork, HasRead
<1>3. PICK r : /\ task' = [task EXCEPT ![t] = r]
               /\ r.phase \in {"details", "install"} /\ r.todo = task[t].todo
               /\ r.scope = task[t].scope /\ r.base = task[t].base
               /\ r.built = Restrict(View(k), DOMAIN View(k) \cap task[t].scope)
    BY RowsAre DEF SerialInv
<1>4. task'[t] = r /\ k \in Kinds
    BY <1>2, <1>3, WorkIs DEF SerialInv, CacheTypes, TasksOK
<1>5. Current(t)' = Current(t) /\ Scope(t)' = Scope(t)
    <2>1. task'[t].todo = task[t].todo /\ cached' = cached
        BY <1>1, <1>3, <1>4
    <2> QED BY <2>1 DEF Current, Scope, Ids
<1>6. /\ DOMAIN r.built = DOMAIN View(k) \cap Scope(t)
      /\ \A i \in DOMAIN r.built : r.built[i] = View(k)[i]
    BY <1>2, <1>3 DEF Restrict
<1>7. ASSUME NEW i \in Scope(t) PROVE Right(k, i, r.built)
    <2>1. CASE k = "spot"
        BY <1>4, <1>6, <2>1, ViewIs DEF Right, SerialInv
    <2>2. CASE k # "spot"
        BY <1>6, <2>2 DEF Right
    <2> QED BY <2>1, <2>2
<1>8. \A i \in Scope(t) : Right(k, i, r.built)'
    <2>1. PICK j \in Kinds : j = k
        BY <1>4
    <2>2. \A i \in Scope(t) : Right(j, i, r.built)'
        BY <1>1, <1>7, <2>1, StaysRight DEF SerialInv, CacheTypes
    <2> QED BY <1>5, <2>1, <2>2
<1>9. r.phase = "details" => k = "spot"
    <2>1. task'[t].phase = IF k = "spot" THEN "details" ELSE "install"
        BY <1>1, <1>4, WorkIs, <1>2 DEF ReadRows, SerialInv, CacheTypes, TasksOK, IsTask
    <2> QED BY <1>4, <2>1
<1>10. k = "spot" => \A s \in DOMAIN r.built : r.built[s] \in [count : Nat, name : Nat, claims : Nat]
    BY <1>4, <1>6, ViewIs DEF SerialInv
<1>11. HasRead(t)'
    BY <1>1, <1>2, <1>3, <1>4, <1>5, <1>6, <1>8, <1>9, <1>10 DEF HasRead
<1> QED BY <1>1, <1>2, <1>3, <1>11, SerialGoesOn

LEMMA SerialDetails ==
    ASSUME SerialInv, NEW t \in AllTasks, ReadDetails(t)
    PROVE  OneAtWork' /\ AllCovered' /\ \A q \in AllTasks : HasRead(q)'
<1>1. UNCHANGED <<now, dbVars, cached, dirty>> /\ task[t].phase = "details"
    BY DEF ReadDetails
<1>2. /\ task[t].todo # <<>> /\ task[t].scope = Scope(t) /\ Current(t).kind = "spot"
      /\ task[t].base = Restrict(cached[Current(t).kind].rows,
                                 DOMAIN cached[Current(t).kind].rows \ Scope(t))
      /\ DOMAIN task[t].built \subseteq Scope(t)
      /\ \A i \in Scope(t) : Right("spot", i, task[t].built)
      /\ \A s \in DOMAIN task[t].built : task[t].built[s] \in [count : Nat, name : Nat, claims : Nat]
    BY <1>1 DEF SerialInv, CacheTypes, TasksOK, AtWork, HasRead
<1>3. PICK r : /\ task' = [task EXCEPT ![t] = r]
               /\ r.phase = "install" /\ r.todo = task[t].todo
               /\ r.scope = task[t].scope /\ r.base = task[t].base
               /\ r.built = [s \in DOMAIN task[t].built |->
                                [task[t].built[s] EXCEPT !.claims = spots[s].claims]]
    BY DetailsAre DEF SerialInv
<1>4. task'[t] = r
    BY <1>3 DEF SerialInv, CacheTypes, TasksOK
<1>5. Current(t)' = Current(t) /\ Scope(t)' = Scope(t)
    <2>1. task'[t].todo = task[t].todo /\ cached' = cached
        BY <1>1, <1>3, <1>4
    <2> QED BY <2>1 DEF Current, Scope, Ids
<1>6. /\ DOMAIN r.built = DOMAIN task[t].built
      /\ \A s \in DOMAIN r.built : r.built[s].count = task[t].built[s].count
    <2>1. DOMAIN r.built = DOMAIN task[t].built
        BY <1>3
    <2>2. ASSUME NEW s \in DOMAIN task[t].built PROVE r.built[s].count = task[t].built[s].count
        <3>1. r.built[s] = [task[t].built[s] EXCEPT !.claims = spots[s].claims]
            BY <1>3
        <3>2. task[t].built[s] \in [count : Nat, name : Nat, claims : Nat]
            BY <1>2
        <3> QED BY <3>1, <3>2
    <2> QED BY <2>1, <2>2
<1>7. \A i \in Scope(t) : Right("spot", i, r.built)
    BY <1>2, <1>6 DEF Right
<1>8. \A i \in Scope(t) : Right("spot", i, r.built)'
    BY <1>1, <1>7, SameSpots DEF SerialInv, CacheTypes, dbVars
<1>9. HasRead(t)'
    BY <1>1, <1>2, <1>3, <1>4, <1>5, <1>6, <1>8 DEF HasRead
<1> QED BY <1>1, <1>2, <1>3, <1>9, SerialGoesOn

(* An operation that is taken off the list owes only what it stands for.    *)
LEMMA TailOwes ==
    ASSUME NEW todo \in Seq(Ops), todo # <<>>, NEW k, NEW i, Owed(todo, k, i)
    PROVE  \/ Owed(Tail(todo), k, i)
           \/ /\ Head(todo).kind = k
              /\ \/ Head(todo).mode \in {"full", "targeted"} /\ i \in Head(todo).ids
                 \/ Head(todo).mode = "mark" /\ k = "user"
<1>1. PICK n \in DOMAIN todo :
        /\ todo[n].kind = k
        /\ \/ todo[n].mode \in {"full", "targeted"} /\ i \in todo[n].ids
           \/ todo[n].mode = "mark" /\ k = "user"
    BY DEF Owed
<1>2. CASE n = 1
    BY <1>1, <1>2
<1>3. CASE n # 1
    <2>1. n - 1 \in DOMAIN Tail(todo) /\ Tail(todo)[n - 1] = todo[n]
        BY <1>1, <1>3, HeadTailProperties
    <2> QED BY <1>1, <2>1 DEF Owed
<1> QED BY <1>2, <1>3

(* The lists of the tasks, when the one at work has done with an operation. *)
LEMMA DoneWith ==
    ASSUME SerialInv, NEW t \in AllTasks, task[t].todo # <<>>, NEW r, task' = [task EXCEPT ![t] = r],
           r.todo = Tail(task[t].todo), r.phase = "next"
    PROVE  /\ OneAtWork' /\ \A q \in AllTasks : HasRead(q)'
           /\ \A k, i : (\E q \in AllTasks : Owed(task[q].todo, k, i)) =>
                 \/ \E q \in AllTasks : Owed(task'[q].todo, k, i)
                 \/ /\ Current(t).kind = k
                    /\ \/ Current(t).mode \in {"full", "targeted"} /\ i \in Current(t).ids
                       \/ Current(t).mode = "mark" /\ k = "user"
<1>1. \A q \in AllTasks : task'[q] = IF q = t THEN r ELSE task[q]
    BY DEF SerialInv, CacheTypes, TasksOK
<1>2. \A q \in AllTasks : q # t => task[q].todo = <<>> /\ task[q].phase = "next"
    BY OthersRest
<1>3. OneAtWork'
    BY <1>1, <1>2 DEF OneAtWork
<1>4. \A q \in AllTasks : HasRead(q)'
    BY <1>1, <1>2 DEF HasRead
<1>5. task[t].todo \in Seq(Ops)
    BY DEF SerialInv, CacheTypes, TasksOK, IsTask
<1>6. ASSUME NEW k, NEW i, NEW q \in AllTasks, Owed(task[q].todo, k, i)
      PROVE  \/ \E p \in AllTasks : Owed(task'[p].todo, k, i)
             \/ /\ Current(t).kind = k
                /\ \/ Current(t).mode \in {"full", "targeted"} /\ i \in Current(t).ids
                   \/ Current(t).mode = "mark" /\ k = "user"
    <2>1. q = t
        BY <1>2, <1>6 DEF Owed
    <2> QED BY <1>1, <1>5, <1>6, <2>1, TailOwes DEF Current
<1> QED BY <1>3, <1>4, <1>6

LEMMA SerialPop ==
    ASSUME SerialInv, NEW t \in AllTasks, MarkDirty(t) \/ EnsureIsFresh(t)
    PROVE  OneAtWork' /\ AllCovered' /\ \A q \in AllTasks : HasRead(q)'
<1>1. /\ UNCHANGED <<now, dbVars, cached>> /\ task[t].phase = "next" /\ task[t].todo # <<>>
      /\ task' = [task EXCEPT ![t].todo = Tail(@)]
      /\ \/ Current(t).mode = "mark" /\ dirty' = [dirty EXCEPT ![Current(t).kind] = TRUE]
         \/ Current(t).mode = "ensure" /\ dirty' = dirty
    BY DEF MarkDirty, EnsureIsFresh
<1>2. PICK r : r = [task[t] EXCEPT !.todo = Tail(@)]
    OBVIOUS
<1>3. r.todo = Tail(task[t].todo) /\ r.phase = "next" /\ task' = [task EXCEPT ![t] = r]
    BY <1>1, <1>2, PopIs DEF SerialInv
<1>4. /\ dirty["user"] => dirty'["user"]
      /\ Current(t).kind = "user" /\ Current(t).mode = "mark" => dirty'["user"]
    BY <1>1 DEF SerialInv, CacheTypes, CachesOK, Kinds
<1>5. AllCovered'
    <2> SUFFICES ASSUME NEW k \in Kinds, cached[k].loaded, NEW i \in Ids(k) PROVE Covered(k, i)'
        BY <1>1 DEF AllCovered, Ids
    <2>1. Covered(k, i)
        BY DEF SerialInv, AllCovered
    <2>2. CASE Right(k, i, cached[k].rows)
        <3>1. PICK rows : rows = cached[k].rows /\ cached' = cached
            BY <1>1
        <3>2. Right(k, i, rows)'
            BY <1>1, <2>2, <3>1, StaysRight DEF SerialInv, CacheTypes
        <3> QED BY <3>1, <3>2 DEF Covered
    <2>3. CASE k = "user" /\ dirty["user"]
        BY <1>4, <2>3 DEF Covered
    <2>4. CASE \E q \in AllTasks : Owed(task[q].todo, k, i)
        <3>1. \/ \E q \in AllTasks : Owed(task'[q].todo, k, i)
              \/ Current(t).kind = k /\ Current(t).mode = "mark" /\ k = "user"
            BY <1>1, <1>3, <2>4, DoneWith, ZenonT(40)
        <3>2. ASSUME NEW q \in AllTasks, Owed(task'[q].todo, k, i) PROVE Covered(k, i)'
            BY <3>2 DEF Covered, Owed
        <3> QED BY <1>4, <3>1, <3>2 DEF Covered
    <2> QED BY <2>1, <2>2, <2>3, <2>4 DEF Covered
<1> QED BY <1>1, <1>3, <1>5, DoneWith

(* What a snapshot is rebuilt from is right, and what it keeps is as it was.*)
LEMMA SerialInstall ==
    ASSUME SerialInv, NEW t \in AllTasks, Install(t)
    PROVE  OneAtWork' /\ AllCovered' /\ \A q \in AllTasks : HasRead(q)'
<1>1. PICK k \in Kinds : k = Current(t).kind
    BY InstallIs DEF SerialInv
<1>2. /\ task[t].todo # <<>>
      /\ cached'[k].loaded = TRUE /\ cached'[k].rows = Rebuilt(t)
      /\ \A j \in Kinds : j # k => cached'[j] = cached[j] /\ dirty'[j] = dirty[j]
      /\ task' = [task EXCEPT ![t] = [Idle EXCEPT !.todo = Tail(task[t].todo)]]
    BY <1>1, InstallIs DEF SerialInv
<1>3. UNCHANGED <<now, dbVars>> /\ task[t].phase = "install"
    BY DEF Install
<1>4. /\ task[t].base = Restrict(cached[k].rows, DOMAIN cached[k].rows \ Scope(t))
      /\ DOMAIN task[t].built \subseteq Scope(t) /\ \A i \in Scope(t) : Right(k, i, task[t].built)
    BY <1>1, <1>3 DEF SerialInv, HasRead
<1>5. Current(t) \in Ops /\ Scope(t) \subseteq Ids(k) /\ Current(t).ids \subseteq Ids(k)
    BY <1>1, <1>2, WorkIs DEF SerialInv, Scope
<1>6. PICK r : r = [Idle EXCEPT !.todo = Tail(task[t].todo)]
    OBVIOUS
<1>7. r.todo = Tail(task[t].todo) /\ r.phase = "next" /\ task' = [task EXCEPT ![t] = r]
    BY <1>2, <1>6 DEF Idle
<1>8. PICK rows : rows = Rebuilt(t)
    OBVIOUS
<1>9. /\ \A i : i \in DOMAIN rows <=>
              \/ i \in DOMAIN task[t].built
              \/ i \in DOMAIN cached[k].rows /\ i \notin Scope(t)
      /\ \A i \in DOMAIN task[t].built : rows[i] = task[t].built[i]
      /\ \A i \in DOMAIN cached[k].rows : i \notin Scope(t) => rows[i] = cached[k].rows[i]
    BY <1>4, <1>8 DEF Rebuilt, Restrict
<1>10. \A i \in Scope(t) : Right(k, i, rows)
    BY <1>4, <1>9 DEF Right
<1>11. \A i : i \notin Scope(t) /\ Right(k, i, cached[k].rows) => Right(k, i, rows)
    BY <1>4, <1>9 DEF Right
<1>12. ASSUME NEW i \in Ids(k) PROVE Right(k, i, rows) \/ \E q \in AllTasks : Owed(task'[q].todo, k, i)
    <2>1. CASE i \in Scope(t)
        BY <1>10, <2>1
    <2>2. CASE i \notin Scope(t)
        <3>1. Current(t).mode = "targeted" /\ cached[k].loaded /\ Scope(t) = Current(t).ids
            BY <1>1, <2>2 DEF Scope
        <3>2. k # "user"
            BY <1>1, <1>5, <3>1 DEF Ops
        <3>3. Right(k, i, cached[k].rows) \/ \E q \in AllTasks : Owed(task[q].todo, k, i)
            BY <3>1, <3>2 DEF SerialInv, AllCovered, Covered
        <3>4. CASE \E q \in AllTasks : Owed(task[q].todo, k, i)
            <4>1. \/ \E q \in AllTasks : Owed(task'[q].todo, k, i)
                  \/ i \in Current(t).ids
                  \/ Current(t).mode = "mark"
                BY <1>2, <1>7, <3>4, DoneWith
            <4> QED BY <2>2, <3>1, <4>1
        <3> QED BY <1>11, <2>2, <3>3, <3>4
    <2> QED BY <2>1, <2>2
<1>13. ASSUME NEW j \in Kinds, j # k, cached[j].loaded, NEW i \in Ids(j)
       PROVE  Covered(j, i)'
    <2>1. Covered(j, i) /\ cached'[j] = cached[j] /\ dirty'[j] = dirty[j]
        BY <1>2, <1>13 DEF SerialInv, AllCovered
    <2>2. CASE Right(j, i, cached[j].rows)
        <3>1. PICK old : old = cached[j].rows /\ cached'[j].rows = old
            BY <2>1
        <3>2. Right(j, i, old)'
            BY <1>3, <2>2, <3>1, StaysRight DEF SerialInv, CacheTypes
        <3> QED BY <3>1, <3>2 DEF Covered
    <2>3. CASE j = "user" /\ dirty["user"]
        BY <2>1, <2>3 DEF Covered
    <2>4. CASE \E q \in AllTasks : Owed(task[q].todo, j, i)
        <3>1. \E q \in AllTasks : Owed(task'[q].todo, j, i)
            BY <1>1, <1>2, <1>7, <1>13, <2>4, DoneWith
        <3> QED BY <3>1 DEF Covered, Owed
    <2> QED BY <2>1, <2>2, <2>3, <2>4 DEF Covered
<1>14. ASSUME NEW i \in Ids(k) PROVE Covered(k, i)'
    <2>1. CASE Right(k, i, rows)
        <3>1. Right(k, i, rows)'
            BY <1>3, <2>1, StaysRight DEF SerialInv, CacheTypes
        <3>2. cached'[k].rows = rows
            BY <1>2, <1>8
        <3> QED BY <3>1, <3>2 DEF Covered
    <2>2. CASE \E q \in AllTasks : Owed(task'[q].todo, k, i)
        BY <2>2 DEF Covered, Owed
    <2> QED BY <1>12, <2>1, <2>2
<1>15. AllCovered'
    <2>1. \A j \in Kinds : j # k => cached'[j] = cached[j]
        BY <1>2
    <2> QED BY <1>13, <1>14, <2>1 DEF AllCovered, Ids
<1> QED BY <1>2, <1>7, <1>15, DoneWith

(* Time goes by, or nothing happens.                                        *)
LEMMA SerialTick ==
    ASSUME SerialInv, UNCHANGED <<dbVars, cached, dirty, task>>, now' \in Nat, now' >= now
    PROVE  OneAtWork' /\ AllCovered' /\ \A q \in AllTasks : HasRead(q)'
<1>1. /\ UNCHANGED <<dbVars, cached, dirty, task>>
      /\ now \in Nat /\ now' \in Nat /\ now' >= now
    BY DEF SerialInv, CacheTypes
<1>2. \A k \in Kinds : \A i, rows : Right(k, i, rows) => Right(k, i, rows)'
    BY <1>1, StaysRight
<1>3. OneAtWork'
    BY <1>1 DEF SerialInv, OneAtWork
<1>4. AllCovered'
    <2> SUFFICES ASSUME NEW k \in Kinds, cached[k].loaded, NEW i \in Ids(k) PROVE Covered(k, i)'
        BY <1>1 DEF AllCovered, Ids
    <2>1. Covered(k, i)
        BY DEF SerialInv, AllCovered
    <2>2. PICK rows : rows = cached[k].rows /\ rows = cached'[k].rows
        BY <1>1
    <2>3. Right(k, i, rows) => Right(k, i, rows)'
        BY <1>2
    <2> QED BY <1>1, <2>1, <2>2, <2>3 DEF Covered, Owed
<1>5. ASSUME NEW q \in AllTasks PROVE HasRead(q)'
    <2>1. HasRead(q) /\ task' = task /\ cached' = cached
        BY <1>1 DEF SerialInv
    <2>2. Current(q)' = Current(q) /\ Scope(q)' = Scope(q)
        BY <2>1 DEF Current, Scope, Ids
    <2>3. CASE task[q].phase \in {"details", "install"}
        <3>1. Current(q).kind \in Kinds
            BY <2>3, WorkIs DEF SerialInv, CacheTypes, TasksOK, AtWork
        <3>2. PICK k, b : k \in Kinds /\ k = Current(q).kind /\ b = task[q].built
            BY <3>1
        <3>3. \A i \in Scope(q) : Right(k, i, b)'
            BY <1>2, <2>1, <2>3, <3>2 DEF HasRead
        <3> QED BY <2>1, <2>2, <3>2, <3>3 DEF HasRead
    <2>4. CASE task[q].phase \notin {"details", "install"}
        BY <2>1, <2>2, <2>4 DEF HasRead
    <2> QED BY <2>3, <2>4
<1> QED BY <1>3, <1>4, <1>5

(* A full pass that starts alone has every row to make good.                *)
LEMMA FullPassCovers ==
    ASSUME CacheTypes, Quiet, NEW t \in AllTasks, Spawn(t, RefreshAll)
    PROVE  OneAtWork' /\ AllCovered' /\ \A q \in AllTasks : HasRead(q)'
<1>1. /\ \A q \in AllTasks : task[q].todo = <<>> /\ task[q].phase = "next"
      /\ task' = [task EXCEPT ![t].todo = RefreshAll]
    BY DEF Quiet, Spawn, CacheTypes, TasksOK, AtWork
<1>2. IsTask(task[t]) /\ task = [q \in AllTasks |-> task[q]]
    BY DEF CacheTypes, TasksOK
<1>3. PICK r : r = [task[t] EXCEPT !.todo = RefreshAll]
    OBVIOUS
<1>4. r.todo = RefreshAll /\ r.phase = "next"
    BY <1>1, <1>2, <1>3 DEF IsTask
<1>5. \A q \in AllTasks : task'[q] = IF q = t THEN r ELSE task[q]
    BY <1>1, <1>2, <1>3
<1>6. OneAtWork'
    BY <1>1, <1>5 DEF OneAtWork
<1>7. \A q \in AllTasks : HasRead(q)'
    BY <1>1, <1>4, <1>5 DEF HasRead
<1>8. \A k \in Kinds : \A i \in Ids(k) : Owed(task'[t].todo, k, i)
    BY <1>4, <1>5, NotifiedIs
<1>9. AllCovered'
    BY <1>8 DEF AllCovered, Covered, Ids, Owed
<1> QED BY <1>6, <1>7, <1>9

(* What is lost while tasks overlap stays lost until such a pass.           *)
ReadsInv == CacheTypes /\ overlapped \in BOOLEAN /\ (~overlapped => SerialInv)

LEMMA SerialStep == ReadsInv /\ [CacheNext]_cacheVars => ReadsInv'
<1> SUFFICES ASSUME ReadsInv, [CacheNext]_cacheVars PROVE ReadsInv'
    OBVIOUS
<1>0. CacheTypes'
    BY CacheTypesStep DEF ReadsInv
<1>1. ASSUME OneAtWork' /\ AllCovered' /\ \A q \in AllTasks : HasRead(q)'
      PROVE  SerialInv'
    BY <1>0, <1>1 DEF SerialInv, AllTasks
<1>2. ASSUME NEW t \in AllTasks, NEW ops, Spawn(t, ops), WriteNotified(ops)
      PROVE  overlapped' \in BOOLEAN /\ (~overlapped' => SerialInv')
    <2>1. overlapped' \in BOOLEAN
        BY <1>2 DEF Spawn, ReadsInv
    <2>2. ASSUME ~overlapped' PROVE SerialInv'
        <3>1. Quiet /\ (~overlapped \/ ops = RefreshAll)
            BY <1>2, <2>2 DEF Spawn
        <3>2. CASE ~overlapped
            BY <1>1, <1>2, <3>1, <3>2, SerialSpawn DEF ReadsInv
        <3>3. CASE ops = RefreshAll
            BY <1>1, <1>2, <3>1, <3>3, FullPassCovers DEF ReadsInv
        <3> QED BY <3>1, <3>2, <3>3
    <2> QED BY <2>1, <2>2
<1>3. ASSUME NEW t \in Tasks, RequestStep(t) PROVE ReadsInv'
    <2>1. t \in AllTasks
        BY DEF AllTasks
    <2>2. PICK ops \in Seq(Ops) : Spawn(t, ops) /\ WriteNotified(ops)
        BY <1>3, <2>1, WritesAreNotified DEF ReadsInv
    <2> QED BY <1>0, <1>2, <2>1, <2>2 DEF ReadsInv
<1>4. CASE BackgroundPass
    <2>1. Background \in AllTasks /\ Spawn(Background, RefreshAll) /\ dbVars' = dbVars /\ now' = now
        BY <1>4 DEF AllTasks, BackgroundPass, Spawn
    <2>2. WriteNotified(RefreshAll)
        BY <2>1, StaysRight DEF WriteNotified, ReadsInv, CacheTypes
    <2> QED BY <1>0, <1>2, <2>1, <2>2 DEF ReadsInv
<1>5. ASSUME NEW t \in AllTasks, CacheStep(t), UNCHANGED overlapped PROVE ReadsInv'
    <2>1. ASSUME SerialInv PROVE SerialInv'
        <3>1. OneAtWork' /\ AllCovered' /\ \A q \in AllTasks : HasRead(q)'
            BY <1>5, <2>1, SerialPop, SerialBegin, SerialRows, SerialDetails, SerialInstall, Zenon DEF CacheStep
        <3> QED BY <1>1, <3>1
    <2> QED BY <1>0, <1>5, <2>1 DEF ReadsInv
<1>6. CASE (Tick \/ UNCHANGED cacheVars) /\ UNCHANGED overlapped
    <2>1. UNCHANGED <<dbVars, cached, dirty, task>> /\ now' \in Nat /\ now' >= now
        BY <1>6 DEF Tick, cacheVars, dbVars, ReadsInv, CacheTypes
    <2>2. ASSUME SerialInv PROVE SerialInv'
        BY <1>1, <2>1, <2>2, SerialTick
    <2> QED BY <1>0, <1>6, <2>2 DEF ReadsInv
<1>7. UNCHANGED cacheVars => UNCHANGED overlapped
    BY DEF cacheVars
<1> QED BY <1>3, <1>4, <1>5, <1>6, <1>7, Zenon DEF CacheNext

LEMMA SerialInit == CacheInit => ReadsInv
<1> SUFFICES ASSUME CacheInit PROVE ReadsInv
    OBVIOUS
<1>1. \A t \in AllTasks : task[t].phase = "next" /\ (task[t].todo # <<>> => t = Background)
    BY DEF CacheInit, Idle
<1>2. OneAtWork /\ \A t \in AllTasks : HasRead(t)
    BY <1>1 DEF OneAtWork, HasRead
<1>3. AllCovered /\ overlapped \in BOOLEAN
    BY DEF CacheInit, AllCovered
<1> QED BY <1>2, <1>3, CacheTypesInit DEF SerialInv, ReadsInv

(* A clean snapshot, when nobody is at work, holds the recent users and the *)
(* pending transactions exactly.                                            *)
LEMMA SettledCaches == SerialInv => SettledCachesAgree
<1> SUFFICES ASSUME SerialInv, NEW k \in {"user", "pending"}, Quiet, Clean(k)
             PROVE  cached[k].rows = View(k)
    BY DEF SettledCachesAgree
<1>1. k \in Kinds /\ cached[k].loaded /\ ~dirty[k]
    BY DEF Kinds, Clean, NeedsRefresh
<1>2. \A i \in Ids(k) : Right(k, i, cached[k].rows)
    BY <1>1 DEF SerialInv, AllCovered, Covered, Owed, Quiet
<1>3. IsSnapshot(cached[k], k) /\ DOMAIN View(k) \subseteq Ids(k)
      /\ View(k) = [i \in DOMAIN View(k) |-> View(k)[i]]
    BY <1>1, ViewIs DEF SerialInv, CacheTypes, CachesOK
<1>4. DOMAIN cached[k].rows = DOMAIN View(k)
    BY <1>2, <1>3 DEF Right, IsSnapshot
<1>5. \A i \in DOMAIN View(k) : cached[k].rows[i] = View(k)[i]
    BY <1>2, <1>3, <1>4 DEF Right
<1> QED BY <1>3, <1>4, <1>5, Zenon DEF IsSnapshot

(* The Spots that the home page counts as active are the public ones that   *)
(* have started and can still be claimed.                                   *)
LEMMA HomeCounts == SerialInv => HomeCountsOpen
<1> SUFFICES ASSUME SerialInv, Quiet, Clean("spot"), NEW s \in PublicSpots
             PROVE  s \in HomeSpots <=> Starts[s] <= now /\ spots[s].claims < Capacity
    BY DEF HomeCountsOpen
<1>1. cached["spot"].loaded /\ ~TransitionDue /\ "spot" \in Kinds /\ s \in Ids("spot")
    BY DEF Clean, NeedsRefresh, Kinds, Ids, PublicSpots
<1>2. Right("spot", s, cached["spot"].rows)
    BY <1>1 DEF SerialInv, AllCovered, Covered, Owed, Quiet
<1>3. s \in DOMAIN cached["spot"].rows /\ cached["spot"].rows[s].count = spots[s].claims
    BY <1>2 DEF Right
<1>4. Starts[s] <= cached["spot"].at <=> Starts[s] <= now
    <2>1. cached["spot"].at \in 0..now /\ now \in Nat /\ Starts[s] \in Nat
        BY <1>1, CacheAssumption DEF SerialInv, CacheTypes, CachesOK, IsSnapshot, Ids
    <2>2. ~(Starts[s] > cached["spot"].at /\ Starts[s] <= now)
        BY <1>1, <1>3 DEF TransitionDue, Transitions
    <2> QED BY <2>1, <2>2
<1> QED BY <1>3, <1>4 DEF HomeSpots, CurrentSpots

(* Whatever tasks do, pending transactions, recent users and home counts    *)
(* are those of the database if tasks have taken turns since the last full  *)
(* pass that started alone; such a pass makes good what overlaps have lost. *)
THEOREM CachesAgree == CacheSpec => []SerialReadsAgree
<1>1. ReadsInv => SerialReadsAgree
    BY SettledCaches, HomeCounts DEF ReadsInv, SerialReadsAgree
<1> QED BY <1>1, SerialInit, SerialStep, PTL DEF CacheSpec
=============================================================================
