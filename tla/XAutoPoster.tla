---------------------------- MODULE XAutoPoster ----------------------------
(* The worker that announces newly active Spots on X (x_auto_poster.py): a *)
(* durable mode, an activation cursor <<timestamp, Spot id>> and one state *)
(* row per Spot, against a service whose answers may be refusals, errors   *)
(* after acceptance, or nothing at all.  Spots are the ids 1 .. NumSpots;  *)
(* act[s] is MAX(starts_at, updated_at), which the update trigger stamps.  *)
(* Posts that X shows are counted in shown; the worker never reads that.   *)
EXTENDS Integers, Sequences, SequencesExt, FiniteSetsExt

CONSTANTS NumSpots, MaxPerRun, RetryAfter, LastTime

ASSUME PosterAssumption ==
    /\ NumSpots \in Nat \ {0} /\ MaxPerRun \in Nat \ {0}
    /\ RetryAfter \in Nat \ {0} /\ LastTime \in Nat

PosterSpots == 1 .. NumSpots
Times == 0 .. LastTime

VARIABLES clock,   \* database clock
          spot,    \* "draft", "staged" (publish not committed), "open", "over"
          act,     \* activation time of a published Spot
          mode,    \* stored mode: "none", "enabled", "disabled"
          cursor,  \* stored cursor; id -1 stands for no row
          since,   \* when the stored mode was last switched to enabled
          state,   \* stored state of each Spot
          worker,  \* the task of this process
          shown    \* public Posts on X, for each Spot

rowVars == <<spot, act, mode, cursor, since, state>>
posterVars == <<clock, rowVars, worker, shown>>

NoState == [st |-> "none", at |-> 0]
States == [st : {"none", "retry", "sending", "posted", "uncertain", "failed"},
           at : 0 .. LastTime + RetryAfter]
Cursors == [ts : Times, id : -1 .. NumSpots]
Off == [pc |-> "off", now |-> 0, todo |-> <<>>, next |-> [ts |-> 0, id |-> 0], answer |-> "-"]

PosterInit ==
    /\ clock = 0 /\ spot = [s \in PosterSpots |-> "draft"] /\ act = [s \in PosterSpots |-> 0]
    /\ mode = "none" /\ cursor = [ts |-> 0, id |-> -1] /\ since = 0
    /\ state = [s \in PosterSpots |-> NoState] /\ worker = Off
    /\ shown = [s \in PosterSpots |-> 0]

-----------------------------------------------------------------------------
\* The Spots, as the rest of the application changes them.

StartTimes == {clock, clock + 1} \cap Times

\* The cursor takes it that Spots of one second become active in the order of
\* their ids; this model of publishing grants it, PosterSlowSpec does not.
InOrder(s, start) == \A t \in PosterSpots : spot[t] # "draft" /\ act[t] = start => t < s

\* The publish route, with the start the creator chose.
Publish(s, start) ==
    /\ spot[s] = "draft" /\ InOrder(s, start)
    /\ spot' = [spot EXCEPT ![s] = "open"] /\ act' = [act EXCEPT ![s] = start]
    /\ UNCHANGED <<clock, mode, cursor, since, state, worker, shown>>

\* The same route seen from another connection: the row is stamped, and
\* visible when the transaction is committed.
Stamp(s) ==
    /\ spot[s] = "draft"
    /\ spot' = [spot EXCEPT ![s] = "staged"] /\ act' = [act EXCEPT ![s] = clock]
    /\ UNCHANGED <<clock, mode, cursor, since, state, worker, shown>>
CommitPublish(s) ==
    /\ spot[s] = "staged" /\ spot' = [spot EXCEPT ![s] = "open"]
    /\ UNCHANGED <<clock, act, mode, cursor, since, state, worker, shown>>

\* It ends, is completed, or its cancellation starts.
Close(s) ==
    /\ spot[s] = "open" /\ spot' = [spot EXCEPT ![s] = "over"]
    /\ UNCHANGED <<clock, act, mode, cursor, since, state, worker, shown>>

ClockTick == clock < LastTime /\ clock' = clock + 1 /\ UNCHANGED <<rowVars, worker, shown>>

-----------------------------------------------------------------------------
\* What a pass reads.

Running(s) == spot[s] = "open" /\ act[s] =< clock
\* Mutant of After: the Spot id is not part of the comparison.
AfterTimestamp(s) == act[s] > cursor.ts
After(s) == act[s] > cursor.ts \/ (act[s] = cursor.ts /\ s > cursor.id)
Earlier(s, t) == act[s] < act[t] \/ (act[s] = act[t] /\ s =< t)

\* ORDER BY, as the pairs of rows in order: the place of a row among the rows
\* S, the first n of them, and all of them in their order.
ByActivation == {p \in PosterSpots \X PosterSpots : Earlier(p[1], p[2])}
ById == {p \in PosterSpots \X PosterSpots : p[1] =< p[2]}
Place(S, order, s) == Cardinality({t \in S : <<t, s>> \in order})
Page(S, order, n) == {s \in S : Place(S, order, s) =< n}
Sorted(S, order) == [i \in 1 .. Cardinality(S) |-> CHOOSE s \in S : Place(S, order, s) = i]

Candidates(n) == Page({s \in PosterSpots : Running(s) /\ After(s)}, ByActivation, n)

\* The rows are cut to the limit before the Spots are looked at: the code in
\* the order the database yields them, here in the order of their Spots.
DueRetries ==
    LET due == {s \in PosterSpots : state[s].st = "retry" /\ state[s].at =< clock}
    IN  {s \in Page(due, ById, MaxPerRun) : Running(s)}

\* The cursor behind the last of a page.
Behind(candidates) ==
    LET last == Last(Sorted(candidates, ByActivation)) IN [ts |-> act[last], id |-> last]

\* Mutant of NextCursor: a pass filled by retries moves the cursor too.
NextCursorAlways(retries, candidates) ==
    IF Cardinality(candidates) >= MaxPerRun - Cardinality(retries) /\ candidates # {}
    THEN Behind(candidates)
    ELSE [ts |-> clock, id |-> 0]
NextCursor(retries, candidates) ==
    LET remaining == MaxPerRun - Cardinality(retries)
    IN  IF remaining = 0 THEN cursor
        ELSE IF candidates # {} /\ Cardinality(candidates) >= remaining
             THEN Behind(candidates)
             ELSE [ts |-> clock, id |-> 0]

-----------------------------------------------------------------------------
\* Start, stop and the pass.

ResetCursor == cursor' = [ts |-> clock, id |-> 0]

StartDisabled ==
    /\ worker.pc = "off"
    /\ mode' = "disabled" /\ ResetCursor
    /\ UNCHANGED <<clock, spot, act, since, state, worker, shown>>

StartEnabled ==
    /\ worker.pc = "off"
    /\ worker' = [worker EXCEPT !.pc = "idle"]
    /\ UNCHANGED <<clock, rowVars, shown>>

\* Mutant of SwitchOn: the cursor of the last enabled period is kept.
SwitchOnKeepsCursor ==
    /\ mode # "enabled"
    /\ mode' = "enabled" /\ since' = clock
    /\ IF cursor.id = -1 THEN ResetCursor ELSE UNCHANGED cursor
    /\ UNCHANGED <<clock, spot, act, state, worker, shown>>

\* The first enabled pass only stores the mode and the cursor.
SwitchOn ==
    /\ mode # "enabled"
    /\ mode' = "enabled" /\ since' = clock /\ ResetCursor
    /\ UNCHANGED <<clock, spot, act, state, worker, shown>>

ReadWork ==
    /\ mode = "enabled"
    /\ LET retries == DueRetries
           candidates == Candidates(MaxPerRun - Cardinality(retries))
       IN  worker' = [pc |-> "posting", now |-> clock, answer |-> "-",
                      todo |-> Sorted(retries, ById) \o Sorted(candidates \ retries, ByActivation),
                      next |-> NextCursor(retries, candidates)]
    /\ UNCHANGED <<clock, rowVars, shown>>

BeginPass == worker.pc = "idle" /\ (SwitchOn \/ ReadWork)

Posting == worker.pc = "posting" /\ worker.todo # <<>>
This == Head(worker.todo)
Settled(s) == state[s].st # "none" /\ (state[s].st # "retry" \/ state[s].at > worker.now)
NextSpot == [worker EXCEPT !.todo = Tail(@), !.pc = "posting", !.answer = "-"]
Store(s, st, at) == state' = [state EXCEPT ![s] = [st |-> st, at |-> at]]

Skip == Posting /\ Settled(This) /\ worker' = NextSpot /\ UNCHANGED <<clock, rowVars, shown>>

PrewarmFails ==
    /\ Posting /\ ~Settled(This)
    /\ Store(This, "retry", worker.now + RetryAfter)
    /\ worker' = NextSpot
    /\ UNCHANGED <<clock, spot, act, mode, cursor, since, shown>>

\* Mutant of StartSending: nothing durable says that a request is on its way.
StartSendingUnrecorded ==
    /\ Posting /\ ~Settled(This)
    /\ worker' = [worker EXCEPT !.pc = "sending"]
    /\ UNCHANGED <<clock, rowVars, shown>>
StartSending ==
    /\ Posting /\ ~Settled(This)
    /\ Store(This, "sending", 0)
    /\ worker' = [worker EXCEPT !.pc = "sending"]
    /\ UNCHANGED <<clock, spot, act, mode, cursor, since, shown>>

\* X creates the Post; the answer is a success, one without an id, a server
\* error or lost.
XCreates ==
    /\ worker.pc = "sending"
    /\ shown' = [shown EXCEPT ![This] = @ + 1]
    /\ \E answer \in {"created", "no_id", "server_error", "lost"} :
         worker' = [worker EXCEPT !.pc = "answered", !.answer = answer]
    /\ UNCHANGED <<clock, rowVars>>

\* X does not create it: a 401, 403 or 429, another status, or no answer.
XRefuses ==
    /\ worker.pc = "sending"
    /\ \E answer \in {"refused", "invalid", "server_error", "lost"} :
         worker' = [worker EXCEPT !.pc = "answered", !.answer = answer]
    /\ UNCHANGED <<clock, rowVars, shown>>

\* Mutant of Classified: a server error is taken for a refusal.
ClassifiedServerError(answer) ==
    CASE answer = "created" -> "posted"
      [] answer \in {"refused", "server_error"} -> "retry"
      [] answer \in {"no_id", "lost"} -> "uncertain"
      [] answer = "invalid" -> "failed"
Classified(answer) ==
    CASE answer = "created" -> "posted"
      [] answer = "refused" -> "retry"
      [] answer \in {"no_id", "server_error", "lost"} -> "uncertain"
      [] answer = "invalid" -> "failed"

RecordAnswer ==
    /\ worker.pc = "answered"
    /\ LET st == Classified(worker.answer)
       IN  Store(This, st, IF st = "retry" THEN worker.now + RetryAfter ELSE 0)
    /\ worker' = NextSpot
    /\ UNCHANGED <<clock, spot, act, mode, cursor, since, shown>>

EndPass ==
    /\ worker.pc = "posting" /\ worker.todo = <<>>
    /\ cursor' = worker.next
    /\ worker' = [Off EXCEPT !.pc = "idle"]
    /\ UNCHANGED <<clock, spot, act, mode, since, state, shown>>

\* The process stops, at any point of a pass.
PosterCrash == worker.pc # "off" /\ worker' = Off /\ UNCHANGED <<clock, rowVars, shown>>

WorkerStep ==
    \/ StartEnabled \/ BeginPass \/ Skip \/ PrewarmFails \/ StartSending
    \/ XCreates \/ XRefuses \/ RecordAnswer \/ EndPass

SpotStep == \E s \in PosterSpots : Close(s) \/ \E start \in StartTimes : Publish(s, start)

PosterNext == SpotStep \/ ClockTick \/ WorkerStep \/ StartDisabled \/ PosterCrash
PosterSpec == PosterInit /\ [][PosterNext]_posterVars

\* Publishing takes time to commit.
PosterSlowSpec ==
    PosterInit /\ [][PosterNext \/ \E s \in PosterSpots : Stamp(s) \/ CommitPublish(s)]_posterVars

\* A worker that is never stopped: the loop runs a pass every few seconds.
PosterLiveSpec ==
    /\ PosterInit /\ [][SpotStep \/ ClockTick \/ WorkerStep]_posterVars
    /\ WF_posterVars(WorkerStep) /\ WF_posterVars(ClockTick)

-----------------------------------------------------------------------------
PosterTypeOK ==
    /\ clock \in Times /\ spot \in [PosterSpots -> {"draft", "staged", "open", "over"}]
    /\ act \in [PosterSpots -> Times] /\ since \in Times
    /\ mode \in {"none", "enabled", "disabled"} /\ cursor \in Cursors
    /\ (mode = "none" <=> cursor.id = -1)
    /\ state \in [PosterSpots -> States] /\ shown \in [PosterSpots -> Nat]
    /\ worker.pc \in {"off", "idle", "posting", "sending", "answered"}
    /\ worker.pc \in {"sending", "answered"} => state[This].st = "sending"
    /\ IsInjective(worker.todo)

\* post_spot_once: whatever X answers or does not answer, and wherever the
\* process stops, a Spot is announced at most once.
AnnouncedOnce == \A s \in PosterSpots : shown[s] =< 1

\* _prepare_mode: an announcement is of a Spot that became active after posting
\* was switched on, or one that an earlier enabled period had already taken up.
NoBacklog ==
    [][\A s \in PosterSpots : state[s].st = "none" /\ state'[s].st # "none" => act[s] >= since]_posterVars

\* run_x_auto_post_pass: the cursor never moves past a running Spot that became
\* active while posting was on and that no pass has dealt with.
CursorSkipsNone ==
    mode = "enabled" =>
        \A s \in PosterSpots : Running(s) /\ act[s] >= since /\ ~After(s) => state[s].st # "none"

\* The two together: the cursor takes up the Spots of the enabled periods, all
\* of them and no others.
CursorIsExact == []CursorSkipsNone /\ NoBacklog

\* Every Spot that becomes active while the worker runs, and stays open, is
\* taken up by a pass.
ActiveTakenUp ==
    \A s \in PosterSpots :
        (mode = "enabled" /\ Running(s) /\ act[s] > since) ~> (state[s].st # "none" \/ spot[s] = "over")

\* A refused announcement that is due, of a Spot that is still running, is
\* tried again.
RetriesServed ==
    \A s \in PosterSpots :
        (mode = "enabled" /\ Running(s) /\ state[s].st = "retry" /\ state[s].at =< clock)
            ~> (state[s].st # "retry" \/ state[s].at > clock \/ spot[s] = "over")
=============================================================================
