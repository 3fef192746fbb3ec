---------------------------- MODULE CacheRefresh ----------------------------
(***************************************************************************)
(* The in-memory read cache (cache.py): a snapshot and a dirty mark for    *)
(* public Spots, for recent users and for pending transactions.  The lock  *)
(* covers only the reading and the replacing of a snapshot; every refresh  *)
(* builds its rows from the database in between, so refreshes of the tasks *)
(* of the event loop interleave.  A task is a request or a background pass *)
(* that has committed a write and works through its cache notifications.   *)
(***************************************************************************)
EXTENDS Integers, Sequences, FiniteSets, FiniteSetsExt, Functions

CONSTANTS
    Spots, Owner,       \* the Spots, and the user who created each
    Starts, Ends,       \* absolute times of a Spot, Ends[s] excluded
    Users, UserLimit,   \* the users, DEFAULT_RECENT_USER_CACHE_SIZE
    Trans, SpotOf,      \* the transactions, and the Spot each belongs to
    Capacity,           \* max_total_claims of a Spot
    Tasks, Background,  \* the request tasks, and the refresher task
    Overlap,            \* whether one task may start while another is at work
    MaxTime, MaxNames   \* bounds of the clock and of the renames

ASSUME CacheAssumption ==
    /\ Owner \in [Spots -> Users] /\ SpotOf \in [Trans -> Spots]
    /\ IsFiniteSet(Users) /\ UserLimit \in 1..Cardinality(Users)
    /\ Overlap \in BOOLEAN /\ Background \notin Tasks
    /\ {Capacity, MaxTime, MaxNames} \subseteq Nat
    /\ Starts \in [Spots -> Nat] /\ Ends \in [Spots -> Nat]

VARIABLES
    now,
    spots,     \* SPOT rows: status and number of successful claims
    names,     \* USER display names, as versions
    seen,      \* users by last_seen_at, latest first
    trans,     \* TRANSACTION status
    cached,    \* kind -> [loaded, rows, at]: at is now_at_load
    dirty,     \* kind -> dirty mark
    task,      \* task -> [todo, phase, base, built, at, scope]
    overlapped \* whether tasks overlapped since the last full pass of the
               \* refresher that started alone (no code reads it)

dbVars == <<spots, names, seen, trans>>
cacheVars == <<now, spots, names, seen, trans, cached, dirty, task, overlapped>>

Kinds == {"spot", "user", "pending"}
AllTasks == Tasks \cup {Background}

Nothing == [x \in {} |-> 0]

Ids(kind) ==
    CASE kind = "spot" -> Spots
      [] kind = "user" -> Users
      [] kind = "pending" -> Trans

(* view_public_spot_list: published, not ended.                             *)
PublicSpots == {s \in Spots : spots[s].status = "published" /\ now < Ends[s]}

(* The UserLimit most recently seen users.                                  *)
RecentUsers == {seen[i] : i \in 1..UserLimit}

PendingTrans == {x \in Trans : trans[x] = "pending"}

(* What the database has for the kind: the rows a refresh reads.  The claim *)
(* rows of a Spot (claims) are read after its list row (count).             *)
View(kind) ==
    CASE kind = "spot" ->
           [s \in PublicSpots |->
              [count |-> spots[s].claims, name |-> names[Owner[s]], claims |-> spots[s].claims]]
      [] kind = "user" -> [u \in RecentUsers |-> names[u]]
      [] kind = "pending" -> [x \in PendingTrans |-> SpotOf[x]]

(***************************************************************************)
(* The refresh operations a notification is made of.                       *)
(***************************************************************************)
Op(mode, kind, ids) == [mode |-> mode, kind |-> kind, ids |-> ids]
Mark(kind) == Op("mark", kind, {})
Full(kind) == Op("full", kind, Ids(kind))
Ensure(kind) == Op("ensure", kind, Ids(kind))
RefreshSpot(s) == Op("targeted", "spot", {s})
RefreshPending(x) == Op("targeted", "pending", {x})
RefreshUser == Full("user")

(* Mutant of NotifyClaim: a claim does not refresh its Spot. *)
NotifyClaimUserOnly(s, known) == <<IF known THEN RefreshUser ELSE Mark("user")>>

NotifyUser == <<Mark("spot"), RefreshUser>>
NotifyOwnerChange(s) == NotifyUser \o <<RefreshSpot(s)>>
NotifyClaim(s, known) == <<RefreshSpot(s), IF known THEN RefreshUser ELSE Mark("user")>>
NotifyTransaction(x) == <<RefreshSpot(SpotOf[x]), RefreshUser, RefreshPending(x)>>

(* Mutant of RefreshAll: the pass refreshes what is marked stale only. *)
RefreshAllStale == <<Ensure("spot"), Ensure("user"), Ensure("pending")>>
RefreshAll == <<Full("spot"), Full("user"), Full("pending")>>

Idle == [todo |-> <<>>, phase |-> "next", base |-> Nothing, built |-> Nothing,
         at |-> 0, scope |-> {}]

(* start_cache_refresher loads every cache before anything else runs.       *)
CacheInit ==
    /\ now = 0
    /\ spots = [s \in Spots |-> [status |-> "draft", claims |-> 0]]
    /\ names = [u \in Users |-> 0]
    /\ seen \in {q \in [1..Cardinality(Users) -> Users] : IsInjective(q)}
    /\ trans = [x \in Trans |-> "none"]
    /\ cached = [k \in Kinds |-> [loaded |-> FALSE, rows |-> Nothing, at |-> 0]]
    /\ dirty = [k \in Kinds |-> TRUE]
    /\ task = [t \in AllTasks |->
                 IF t = Background THEN [Idle EXCEPT !.todo = RefreshAll] ELSE Idle]
    /\ overlapped = FALSE

Started == \A k \in Kinds : cached[k].loaded

(***************************************************************************)
(* The tasks: each commits its write, then has its notifications to do.    *)
(***************************************************************************)
Quiet == \A t \in AllTasks : task[t].todo = <<>>

Spawn(t, ops) ==
    /\ Started /\ task[t].todo = <<>>
    /\ Overlap \/ Quiet
    /\ task' = [task EXCEPT ![t].todo = ops]
    /\ overlapped' = (~Quiet \/ (overlapped /\ ops # RefreshAll))
    /\ UNCHANGED <<now, cached, dirty>>

(* The user moves to the front of the order.                                *)
Touch(u) ==
    [i \in DOMAIN seen |-> IF i = 1 THEN u
                           ELSE IF \E j \in 1..i - 1 : seen[j] = u THEN seen[i] ELSE seen[i - 1]]

(* Publishing, cancelling and claiming: _notify_all_cache_for_spot_owner_   *)
(* change, with the user row touched by the request.                        *)
PublishSpot(t, s) ==
    /\ Spawn(t, NotifyOwnerChange(s))
    /\ spots[s].status = "draft"
    /\ spots' = [spots EXCEPT ![s].status = "published"]
    /\ seen' = Touch(Owner[s])
    /\ UNCHANGED <<names, trans>>

ClaimSpot(t, s, u) ==
    /\ Spawn(t, NotifyOwnerChange(s))
    /\ s \in PublicSpots /\ spots[s].claims < Capacity
    /\ spots' = [spots EXCEPT ![s].claims = @ + 1]
    /\ seen' = Touch(u)
    /\ UNCHANGED <<names, trans>>

(* A settlement pass promotes a duration claim; the user is unknown when    *)
(* the promotion failed other claims with it.                               *)
SettleClaim(t, s) ==
    /\ \E known \in BOOLEAN : Spawn(t, NotifyClaim(s, known))
    /\ spots[s].status = "published" /\ spots[s].claims < Capacity
    /\ spots' = [spots EXCEPT ![s].claims = @ + 1]
    /\ UNCHANGED <<names, seen, trans>>

(* The settlement or the refresher ends a Spot, with notify_spot_changed.   *)
EndSpot(t, s) ==
    /\ Spawn(t, <<RefreshSpot(s)>>)
    /\ spots[s].status = "published"
    /\ spots' = [spots EXCEPT ![s].status = "done"]
    /\ UNCHANGED <<names, seen, trans>>

RenameUser(t, u) ==
    /\ Spawn(t, NotifyUser)
    /\ names[u] < MaxNames
    /\ names' = [names EXCEPT ![u] = @ + 1]
    /\ seen' = Touch(u)
    /\ UNCHANGED <<spots, trans>>

(* my_claims_api and the draft deletion: the user, then the dirty mark.     *)
VisitClaims(t, u) ==
    /\ Spawn(t, NotifyUser \o <<Mark("spot")>>)
    /\ seen[1] # u
    /\ seen' = Touch(u)
    /\ UNCHANGED <<spots, names, trans>>

(* A transaction is recorded, and later finalised.                          *)
ChangeTransaction(t, x) ==
    /\ Spawn(t, NotifyTransaction(x))
    /\ trans[x] # "final"
    /\ trans' = [trans EXCEPT ![x] = IF @ = "none" THEN "pending" ELSE "final"]
    /\ UNCHANGED <<spots, names, seen>>

(* A page, or the polling of check_pending_transactions, reads a cache.     *)
ReadCache(t, kind) == Spawn(t, <<Ensure(kind)>>) /\ UNCHANGED dbVars

(* The refresher loop comes round, whatever the caches say.                 *)
BackgroundPass ==
    /\ Spawn(Background, RefreshAll)
    /\ UNCHANGED dbVars

(***************************************************************************)
(* One refresh: the snapshot is read under the lock, the rows are read     *)
(* from the database, and the snapshot is replaced under the lock.         *)
(***************************************************************************)
Current(t) == Head(task[t].todo)

(* Mutant of Transitions: a start is no transition. *)
TransitionsWithoutStarts(rows, at) == {x \in {Ends[s] : s \in DOMAIN rows} : x > at}

(* now >= next_transition_at: the least start or end of a cached Spot that  *)
(* was still ahead when the snapshot was built has come.                    *)
Transitions(rows, at) ==
    {x \in {Starts[s] : s \in DOMAIN rows} \cup {Ends[s] : s \in DOMAIN rows} : x > at}

TransitionDue == \E x \in Transitions(cached["spot"].rows, cached["spot"].at) : x <= now

NeedsRefresh(kind) ==
    \/ ~cached[kind].loaded \/ dirty[kind]
    \/ kind = "spot" /\ TransitionDue

MarkDirty(t) ==
    /\ task[t].phase = "next" /\ task[t].todo # <<>> /\ Current(t).mode = "mark"
    /\ dirty' = [dirty EXCEPT ![Current(t).kind] = TRUE]
    /\ task' = [task EXCEPT ![t].todo = Tail(@)]
    /\ UNCHANGED <<now, dbVars, cached>>

EnsureIsFresh(t) ==
    /\ task[t].phase = "next" /\ task[t].todo # <<>> /\ Current(t).mode = "ensure"
    /\ ~NeedsRefresh(Current(t).kind)
    /\ task' = [task EXCEPT ![t].todo = Tail(@)]
    /\ UNCHANGED <<now, dbVars, cached, dirty>>

(* A targeted refresh keeps the other rows of the snapshot it reads here.   *)
BeginRefresh(t) ==
    /\ task[t].phase = "next" /\ task[t].todo # <<>>
    /\ \/ Current(t).mode \in {"full", "targeted"}
       \/ Current(t).mode = "ensure" /\ NeedsRefresh(Current(t).kind)
    /\ LET old == cached[Current(t).kind]
           scope == IF Current(t).mode = "targeted" /\ old.loaded
                      THEN Current(t).ids ELSE Ids(Current(t).kind)
       IN task' = [task EXCEPT ![t].phase = "rows", ![t].at = now, ![t].scope = scope,
                     ![t].base = Restrict(old.rows, DOMAIN old.rows \ scope)]
    /\ UNCHANGED <<now, dbVars, cached, dirty>>

ReadRows(t) ==
    /\ task[t].phase = "rows"
    /\ LET view == View(Current(t).kind)
       IN task' = [task EXCEPT ![t].built = Restrict(view, DOMAIN view \cap task[t].scope),
                     ![t].phase = IF Current(t).kind = "spot" THEN "details" ELSE "install"]
    /\ UNCHANGED <<now, dbVars, cached, dirty>>

(* The claim rows of the Spots whose list rows were read.                   *)
ReadDetails(t) ==
    /\ task[t].phase = "details"
    /\ task' = [task EXCEPT ![t].phase = "install",
                  ![t].built = [s \in DOMAIN @ |-> [@[s] EXCEPT !.claims = spots[s].claims]]]
    /\ UNCHANGED <<now, dbVars, cached, dirty>>

(* Mutant of Rebuilt: a row that is gone is kept. *)
RebuiltKeepingGone(t) ==
    [i \in DOMAIN task[t].base \cup DOMAIN task[t].built
           \cup (DOMAIN cached[Current(t).kind].rows \cap task[t].scope) |->
       IF i \in DOMAIN task[t].built THEN task[t].built[i]
       ELSE IF i \in DOMAIN task[t].base THEN task[t].base[i]
       ELSE cached[Current(t).kind].rows[i]]

Rebuilt(t) ==
    [i \in DOMAIN task[t].base \cup DOMAIN task[t].built |->
       IF i \in DOMAIN task[t].built THEN task[t].built[i] ELSE task[t].base[i]]

Install(t) ==
    /\ task[t].phase = "install"
    /\ cached' = [cached EXCEPT ![Current(t).kind] =
                    [loaded |-> TRUE, rows |-> Rebuilt(t), at |-> task[t].at]]
    /\ dirty' = [dirty EXCEPT ![Current(t).kind] = FALSE]
    /\ task' = [task EXCEPT ![t] = [Idle EXCEPT !.todo = Tail(task[t].todo)]]
    /\ UNCHANGED <<now, dbVars>>

Tick == now < MaxTime /\ now' = now + 1 /\ UNCHANGED <<dbVars, cached, dirty, task>>

RequestStep(t) ==
    \/ \E s \in Spots : PublishSpot(t, s) \/ SettleClaim(t, s) \/ EndSpot(t, s)
    \/ \E s \in Spots, u \in Users : ClaimSpot(t, s, u)
    \/ \E u \in Users : RenameUser(t, u) \/ VisitClaims(t, u)
    \/ \E x \in Trans : ChangeTransaction(t, x)
    \/ \E k \in Kinds : ReadCache(t, k)

CacheStep(t) ==
    \/ MarkDirty(t) \/ EnsureIsFresh(t) \/ BeginRefresh(t)
    \/ ReadRows(t) \/ ReadDetails(t) \/ Install(t)

CacheNext ==
    \/ \E t \in Tasks : RequestStep(t)
    \/ \E t \in AllTasks : CacheStep(t) /\ UNCHANGED overlapped
    \/ BackgroundPass
    \/ Tick /\ UNCHANGED overlapped

CacheSpec == CacheInit /\ [][CacheNext]_cacheVars

(***************************************************************************)
(* What the readers serve from the Spot snapshot.                          *)
(***************************************************************************)
CurrentSpots == {s \in DOMAIN cached["spot"].rows : Starts[s] <= cached["spot"].at}

HomeSpots == {s \in CurrentSpots : cached["spot"].rows[s].count < Capacity}

(***************************************************************************)
(* Properties.                                                             *)
(***************************************************************************)
SpotRows == [count : 0..Capacity, name : 0..MaxNames, claims : 0..Capacity]

(* The types; a user is in the last-seen order once, and a cached claim     *)
(* list, read after the counters of its Spot, never has fewer claims.       *)
CacheTypeOK ==
    /\ now \in 0..MaxTime
    /\ spots \in [Spots -> [status : {"draft", "published", "done"}, claims : 0..Capacity]]
    /\ names \in [Users -> 0..MaxNames]
    /\ seen \in [1..Cardinality(Users) -> Users] /\ IsInjective(seen)
    /\ trans \in [Trans -> {"none", "pending", "final"}] /\ overlapped \in BOOLEAN
    /\ DOMAIN cached = Kinds /\ dirty \in [Kinds -> BOOLEAN]
    /\ \A k \in Kinds : DOMAIN cached[k].rows \subseteq Ids(k)
    /\ \A s \in DOMAIN cached["spot"].rows :
         LET r == cached["spot"].rows[s] IN r \in SpotRows /\ r.count <= r.claims

Clean(kind) == ~NeedsRefresh(kind)

(* A snapshot that nobody would refresh holds exactly the recent users, or  *)
(* exactly the pending transactions, so that the polling of                 *)
(* check_pending_transactions misses none.                                  *)
SettledCachesAgree ==
    \A k \in {"user", "pending"} : Quiet /\ Clean(k) => cached[k].rows = View(k)

(* The Spots the home page counts as active are, of the public ones, those  *)
(* that have started and can still be claimed.                              *)
HomeCountsOpen ==
    Quiet /\ Clean("spot") =>
      HomeSpots \cap PublicSpots =
        {s \in PublicSpots : Starts[s] <= now /\ spots[s].claims < Capacity}

(* _cache_refresher_loop: both hold as long as tasks take turns, and        *)
(* whatever overlapping tasks have lost, both hold again after a full pass  *)
(* that no other task overlaps.                                             *)
SerialReadsAgree == ~overlapped => SettledCachesAgree /\ HomeCountsOpen

(* Whatever the tasks do, the list of current Spots of a snapshot whose     *)
(* next transition has not come is the list at this moment: the time at     *)
(* which the snapshot was indexed does not show.                            *)
IndexHolds ==
    cached["spot"].loaded /\ ~TransitionDue =>
      CurrentSpots = {s \in DOMAIN cached["spot"].rows : Starts[s] <= now}

(* The cache "stores every TRANSACTION that is still pending".              *)
PendingIsComplete == Quiet /\ Clean("pending") => PendingTrans \subseteq DOMAIN cached["pending"].rows

(* The cache "stores published, non-expired current/upcoming SPOTs".        *)
ListedIsPublic == Quiet /\ Clean("spot") => DOMAIN cached["spot"].rows \subseteq PublicSpots

(* A renamed user "can appear on spot creator data as well": a Spot         *)
(* snapshot that is not marked stale shows the current name.                *)
NamesAreCurrent ==
    Quiet /\ Clean("spot") =>
      \A s \in DOMAIN cached["spot"].rows : cached["spot"].rows[s].name = names[Owner[s]]
=============================================================================
