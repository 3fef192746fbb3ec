# NimHunt: TLA+ models

NimHunt lets a creator place a *Spot* at a location, fund it with NIM, and pay a
reward to people who claim it there. One Python process serves HTTP requests and runs two
background loops over one SQLite database; payments are made by a Node helper on the Nimiq chain.
This directory models what happens to the money, who is admitted to it, and what is shown of it;
checks the models with TLC and proves nearly every safety property of them with TLAPS.

## Inventory

| Component (source) | State it keeps | Operations | Hard part |
| --- | --- | --- | --- |
| Transaction outbox (`trans_updater.py`, `db_access.py`, `database.py`, `funding_monitor.py`) | TRANS rows: slot, amount, status, hash | commit intent, broadcast, store hash, poll, finalise, recover | answer lost after broadcast, crash between the two commits, stale poll |
| Funding and publishing (`refund_address_safety.py`, `funding_status.py`, `funding_fee_worker.py`, publish route) | Spot status, deposits, creation fee | record deposit, send fee, publish | short or wrong deposits, publish racing cancel |
| Standard claims (`db_access.py`, `settlement_updater.py`) | CLAIM rows | claim, wait, promote, fail, pay | capacity shared by waiting claims, two payers |
| Cancellation (`cancellation_safety.py`, `trans_updater.py`) | cancellation marker, guard row, per-Spot lock | check, lease, plan, two sends, release, finalise | deferral and retry, partial sends, crash under lease |
| Remainder settlement (`settlement_updater.py`) | settled marker | complete, refund what is left | payouts in flight, ban in between |
| Moderation (`admin_moderation.py`, `admin_store.py`) | ban record | ban, review, sweep | ban racing payouts and refunds |
| Prizedraw (`settlement_updater.py`) | winners, PRIZEDRAW row | draw, pay winners | draw committed before its payouts |
| Payout throttle (`claim_payout_throttle.py`) | reservations in APP_METADATA | reserve, prune | rolling windows at their limit |
| Claim authorization (`claim_security*.py`, `claim_auth_abuse_guard.py`) | authorization rows, security records, holds | issue, verify, process, retire, record, hold payouts | one use across crashes; recorded before it is paid |
| Wallet sessions (`claim_security.py`, `user_registration_security.py`) | challenges, sessions, bindings, rate buckets | challenge, verify, bind | the signature is checked outside the transaction |
| Metadata cleanup (`claim_security_maintenance.py`, `security_metadata.py`) | cursor, ephemeral rows | prune one page | rows appear and change behind the cursor |
| Claim admission guards (`claim_code_policy.py`, `claim_wallet_hourly_limit.py`, `claim_location_guard.py`, `fresh_claim_guard.py`, `wallet_cluster_guard.py`) | codes, limits, anchors, cooldowns, signer and location records, clusters | admit, refuse, ban, look up | code held by two waiting claims; slow lookups bring old answers |
| Draft admission (`draft_creation.py`, `spot_duplicate.py`, `db_access.py`) | reservations, key index | reserve, derive, consume | index must never be reused |
| Read cache (`cache.py`) | snapshots, dirty marks | refresh all, refresh one, notify | old snapshot replacing newer row |
| X auto poster (`x_auto_poster.py`) | cursor, per-Spot post state | scan, post, classify, retry | answer of a post lost |
| Registration, content moderation, admin console, HTTP surface, start-up, helpers | rate buckets, cooldowns, sessions | | mostly sequential |

How they interact: every component shares the database. HTTP routes, the settlement loop
(`run_settlement_pass`: durations, draws, payouts, remainders, cancellations) and the
refresher loop (creation fees, pending rows, recoveries, ban sweeps) are coroutines of one process
(`railway_start.py` starts one worker), so they interleave at every `await`, and a SQLite
transaction is the unit of atomicity. Many functions run wrapped: `funding_flow.install` and the
`install()` functions replace, for example, `submit_spot_cancellation_transactions` by its guarded
form and `create_claim_transaction` by one that refuses a banned Spot. The models follow the
wrapped functions.

What makes each of them correct is stated as properties below; `PROJECT.json` lists the
hazards at their lines with the property that covers each.

## Modules

| Module | Models |
| --- | --- |
| `PaidOnce` | Abstract specification: an obligation is paid by at most one transaction. |
| `SpotEscrow` | Abstract specification: an account that never promises more than it received nor pays more than it promised, and closes square. |
| `TransOutbox` | The TRANS table, senders, refresher and chain. Implements `PaidOnce`. |
| `SpotLedger` | One Standard Spot: funding, claims, cancellation, remainder and ban over the outbox, which it EXTENDS. Implements `SpotEscrow`. |
| `Prizedraw` | One Prizedraw: entries, draw, prizes and their retries, over the outbox, which it EXTENDS. |
| `PayoutThrottle` | Reservations and limits in front of every claim payout. |
| `ClaimAuthorization` | The one-use authorization of a claim request, its security record, the payout hold. |
| `WalletSession` | Challenges, their verification, wallet bindings, admission buckets. |
| `MetadataCleanup` | The cursor cleanup of the rows those two leave behind. |
| `ClaimAdmission` | Rules, wallet limits, codes and waiting time of claims on Standard Spots. |
| `TravelGuard` | The impossible-travel guard in front of claim creation, for one user. |
| `FreshClaimGuard` | Signer history and first location of a public claim, behind slow provider lookups. |
| `GpsAnchor` | The GPS readings of one user: stable anchor, pending point, contradictions. |
| `FundingClusters` | Origins of signers and the clusters of the wallets that funded them. |
| `DraftAdmission` | Reservations, key indexes and the draft limit of the create and duplicate routes. |
| `CacheRefresh` | The read cache: three snapshots, their dirty marks, refreshes and notifications. |
| `XAutoPoster` | The worker that announces Spots on X. |
| `MC...` | Instances for TLC, described under Runs. |
| `TransOutbox_proofs` | The theorems about `TransOutbox`. |
| `SpotLedger_proofs`, `SpotMoney_proofs` | Those about `SpotLedger`: types, refinement, endings, funding, refunds; and the balance of its accounts. |
| `Prizedraw_proofs` | Those about `Prizedraw` and `PayoutThrottle`. |
| `Security_proofs` | Those about `ClaimAuthorization`, `FreshClaimGuard`, `WalletSession`, `GpsAnchor`, `FundingClusters`. |
| `Admission_proofs` | Those about `DraftAdmission`, `ClaimAdmission`, `TravelGuard`. |
| `Reads_proofs` | Those about `XAutoPoster` and `CacheRefresh`. |
| `SumTheorems` | Lemmas about sums over finite sets, for all of them. |

Every SQLite transaction is one step everywhere, and what a coroutine has read and still uses after
an `await` is part of its state. A crash loses coroutines and keeps rows.

### TransOutbox

A row is `[slot, amount, status, hash]`. The *slot* is the obligation: the claim whose reward it
is, or the Spot's creation fee, platform fee, refund or remainder. The four partial unique indexes
of `database.py` all say the same of it: at most one row of a slot is not FAILED
(`HasNonFailed`). Deposits share one slot with no index. `hash` is `"local"` for an intent
(`local-intent:...`) and `"chain"` once the helper's answer is stored.

`_submit_recorded_chain_send` is four actions because it has two commits and one network call:
`CreateIntent`, then `BroadcastOk`, `BroadcastLost` or `BroadcastFails`, then `RecordHash`. The
last two of the three leave the row as it is: the except branch finalises nothing.
`check_pending_transactions` is `OutboxRefresh(t)`, one row per step. `StaleDeposit` is the
thirty-minute rule, with time left out: the deposit may expire whenever it is not on
chain. A deposit that turns out to pay too little is failed (`RejectDeposit`), and so is a top-up from another
chain sender than the first one (`RejectSender`, which keeps its chain amount and, unlike the others, does not look
whether a cancellation is finished). A deposit that paid another address (`Misdirected`) is not in the history of
the Spot's address; that proves nothing to `check_pending_transactions`, and the row stays pending
for ever. `RecoverIntent` and the confirmation that follows it are two transactions and two steps.
Chain and crash are external.

### SpotLedger

What a coroutine has read and still uses is `cancel` (the holder of the per-Spot lock), `payout`
(claims some coroutine decided to pay), `remainder` (the settlement loop) and `sweep`.

* Reads of the whole ledger go through `Page`, the newest `PageLimit` rows, wherever the code
  calls `get_transactions_by_spot`; totals that SQL computes (`DepositTotal`) do not.
* `CancelCheck`, `CancelLease`, `CancelPrepare`, `CancelFee`, `CancelRefund`, `CancelSent`,
  `CancelEnd` are the stages of the guarded cancellation. The guard row survives a crash.
* `RemainderPrepare`, `RemainderCheck`, `RemainderSubmit` are the three transactions of a
  remainder refund.
* `RefreshRow` is one row of the refresher with the finalisation of a cancelled Spot inside it, as
  in `mark_trans_as_confirmed` and `mark_trans_as_failed`.
* `Requests` and `Faults` say what people and the environment may do in a run.

Amounts are Luna. A claim counts only in the ways that concern money: admission reads status,
period, cancellation and capacity; the promotion of a duration claim may happen at any time
while it is pending, which covers every length of the waiting time. A payout that the throttle or a
security hold postpones is one that is not submitted yet.

### Prizedraw

Entries are the payout slots of the outbox. `Draw` is the transaction of
`settle_prizedraw_spot_if_ready`: pending entries fail, the winners become pending, the Spot is
completed. The prizes of the winners are separate sends of a settlement worker (`SubmitPrize`,
`PrizeBroadcast` or `PrizeSendFails`, `PrizeSent`), and the next passes pay those winners that have no
active row (`NeedsPayout`), with the amount of the row that failed or the one computed again from
the ids of all winners (`RetryAmount`). Two facts of the code that the
model shows: only the first page of entries can be drawn (`DrawPage` stands for the 500 of
`MAX_LIMIT`), and entries that still wait count toward the capacity that ends the entry period although
the draw then fails them. `Holds` is the throttle or a security hold that refuses a payout for now.
Banning and cancelling a Prizedraw are not repeated from `SpotLedger`.

### PayoutThrottle

A stamp is kept as its age, capped where no window looks further. `ReservePayoutSlot` is the whole
of `reserve_payout_slot`, one transaction: prune, reuse or refuse or reserve, mark for review. A worker that
got a permit inserts the TRANS row in a later transaction (`SubmitPermitted`), within `PermitTicks`
ticks. `ThrottleDecision` is the global and daily windows, `SpotWindowDecision` and
`SpotLifetimeDecision` those of Open Spots.

### ClaimAuthorization, WalletSession, MetadataCleanup

The guard of `claim_security.py` reads the authorization without a lock (`Check`), takes it in a
transaction (`TakeAttempt`: issued to verifying), verifies, goes to processing, lets the
application create the claim, writes the claim's security record and removes the authorization;
`Retire` is every rejection. The background payout may start as soon as the claim exists;
`PayoutAllowed` is the gate of `_payout_security_decision`. `Recorder` says which function
`_record_claim_event` is bound to: `"primary"` is the one of `claim_security.py`, `"installed"` the
one that `claim_security_defence_in_depth.install` puts in its place. The passing runs use
the first, with a hold longer than the burst window, as configured.

`WalletSession` is `security_challenge` and `security_verify`: the challenge is loaded
without a lock, the signature is checked in a thread, and one transaction then tests that the
challenge is still stored, consumes it, and creates user, binding and session. The buckets are
counted per age. `MetadataCleanup` follows one pass per step; rows are absent, live, partly
expired (buckets) or expired.

### ClaimAdmission, TravelGuard

`ClaimAdmission` follows the installed chain of wrappers: `create_claim_attempt` with the
code policy, the wallet limits of `claim_security_defence_in_depth.py` and the hourly limit;
promotion with the code and the wallet recheck; heartbeats; the settlement pass; a cancellation that starts and
finishes, leaving what waits. Since
`claim_code_policy.install` replaces `create_claim_attempt` altogether, the call of
`location_behavior_guard.observe_signed_claim` at `db_access.py:3241` is never reached and is not
modelled. Standard Spots only: entries of a Prizedraw are in `Prizedraw`.

`TravelGuard` measures distance as travel time, at the soft and at the hard speed limit. The
user's real position is part of the model, and so is whether a reading was forged yet (`honest`), so that
what an honest traveller may expect can be stated beside somebody who forges. `Trusted`, `ActiveCooldown`, `SecondJump` follow
`create_claim_with_impossible_travel_guard`.

### FreshClaimGuard, GpsAnchor, FundingClusters

`public_claim_decision` reads the clock once and passes it through two network lookups. In
`FreshClaimGuard` a request therefore keeps `at`; `AskPlace` is what `first_location_decision` reads before
its lookup, and `SignerCommit` and `PlaceCommit` are the transactions after them, with all that they read
again. What a provider says is free: a failure, nothing, or any age; any point, the same one or another for
one address. `KeepsSigner` and `KeepsPlace` are the comparisons that let an earlier result stand.
The gate of `restricted_until` and the restriction from a cluster and a reading together,
two reads in front of this, are not repeated.

`GpsAnchor` is one transaction, `record_gps_observation`, whose clock was read before it, so that readings are stored
in any order. As in `TravelGuard` the user really is somewhere, and a bounded number of readings is wrong.
`Contradiction`, `Continues` and `FirstOfPair` are the code's `contradiction`, `pending_continuation` and
`first_pending_contradiction`.

`FundingClusters` follows `observe`: `ObserveCommit` compares the origin record with the time the lookup
began, moves the signer from the old source to the new one, and corrects or doubts what cannot be corrected
because the list of members is full. Here too the chain may answer anything each time.

### DraftAdmission

`DraftAdmission` has the three transactions of a creation (reserve, charge, insert) and the derivation
between them under its semaphore; duplicates go the same way; drafts are edited, funded,
published and deleted meanwhile. A payment made for a draft and not reported before the draft is
deleted is outside the model.

### CacheRefresh, XAutoPoster

A row of a snapshot is a version (claim counts, names), not its contents. A refresh is
four steps (begin, read the list rows, read the details, install) because the lock covers only the first and
the last; `Overlap` says whether tasks of the event loop may interleave between them. `overlapped` is a
history variable: whether they did since the last full pass of the refresher that started alone.
A task is a request that has committed a write and works through the notifications of its
route.

`XAutoPoster` has the durable mode, cursor and per-Spot state, one post as three steps (record `sending`,
send, record the answer), every class of answer of `_classify_post_response`, and stops at any point. A publication is one
step, and Spots that become active in the same second do so in the order of their ids (`InOrder`), as the
cursor takes it; `PosterSlowSpec` separates the stamp from the commit and grants no order.

## Runs

| Run | Question | Bounds |
| --- | --- | --- |
| `outbox` | Is every obligation paid at most once, does the ledger agree with the chain, does the outbox implement `PaidOnce`? | 4 rows, 2 obligations of 2 Luna: deposits that pay 2, 1 or nothing, a retry of each obligation, every fault |
| `spot_money` | Do the accounts of a Spot balance however it is funded, claimed, cancelled, ended or banned, and are they a `SpotEscrow`? | five scenarios, 2 claims, 6 or 7 rows, amounts 2 to 6 |
| `spot_live` | Does a Spot come to its end, is every resolvable send resolved, and what does a ban in the middle of a remainder refund cost? | 1 claim, 6 rows; calm with two deposits of 3 or 5 that may go astray, or with one deposit, lost answers and crashes |
| `payouts` | Do payout limits hold, and is a prize pool paid exactly once? | 3 claims and 2 workers at windows of 2 and 3 ticks, permits held over one tick; 3 entries, 2 winners, pool 5 |
| `security` | Is every approval, challenge and admission used once, every payout screened, and does evidence say what was seen? | 2 authorizations, 3 requests; 2 challenges, devices, wallets and verifiers; 4 rows in pages of 2; 2 lookups in 4 ticks; 3 places, 2 readings at once, 2 wrong ones; 3 signers of 2 sources |
| `admission` | Do limits hold when they are used, not only when they are checked? | 4 users of 3 wallets, 3 claims, 3 ticks; 4 places, 2 visits in 7 ticks of an honest user and 3 in 3 of one who forges; 3 draft requests of 2 creators |
| `reads` | What may a reader be shown, and is a Spot announced once? | 2 Spots, 2 users, a clock that starts one Spot and ends the other; 2 Spots and 4 instants for announcements |
| `progress` | Does what was taken up get finished? | 1 to 3 claims, requests, Spots or entries per component |
| `page_limit`, `cancel_stuck`, `auth_installed`, `prize_heartbeat` | expected to fail, see below | |

Components that share no state are checked in one run as a disjoint sum: the MC module EXTENDS
them, a variable `part` (or `scenario`) is chosen in the initial state, and only that component
moves while the others stay in their initial states. This is not a composition: the states of the
run are the union of those of its parts, and each invariant is checked on the part it speaks
of. `MCSpotLedger` uses the same device for the five scenarios of one component, which differ in
`Requests`, `Faults` and deposits. What really shares state is composed by EXTENDS: `SpotLedger`
and `Prizedraw` with the outbox.

Why the bounds are enough for the cases to happen:

* Spots: the amounts are the smallest at which fee, refund and reward differ: a Spot of 4 Luna in
  two rewards, a creation fee of 1 and a cancellation fee of 1. 7 rows hold a deposit, a fee, two
  rewards, two legs and one retry. `MaxRows` bounds the table, so a behaviour ends with rows that
  cannot be retried any more; the calm half of `spot_live` has more rows than a life without
  failures needs, so there the bound never stops anything.
* Prizes: 5 Luna for 2 winners of 3 entries leave an indivisible rest and a loser, 3 rows a retry.
* Throttle: each window is at its limit with two of the three claims, the Open Spot's lifetime share with one.
* Sessions and authorizations: two of each race for one challenge or approval, one tick
  past every life is kept as an age of its own.
* Claims: capacity 2 against three claims of two wallets, the hourly limit at 2.
* Travel: four places of which two are too near to matter and two are out of reach of each other.
* Lookups and readings: 4 ticks hold a lookup, the whole restriction another one sets meanwhile, and a second
  strike. Two wrong readings make a pair that restricts; the property is about the first of them.
* Clusters: three signers at a limit of two saturate a source, two make it a cluster; two
  ticks at a cache time of one let each signer be looked up again.
* Cache: a row is changed while another task holds an older copy. One snapshot has at most two rows.

Deadlock is no error in these runs: a Spot that is cancelled, settled or swept, a decided claim, or
a clock at its bound is finished.

Every property has at least one mutant in `PROJECT.json`: a definition with a plausible bug (a
dropped check, a guard not released, a fee not capped, a status trusted after an `await`) under
which TLC finds the property violated. Combined properties (`MoneyIsSquare`, `ClaimRulesKept`,
`PayoutsAreScreened` and the like) have one for each part.

### Disagreements found

Four runs are expected to fail; each property states what a document or comment of the repository
says.

* `page_limit`: cancellation sums a page of 500 rows; a Spot may have more. The
  oldest rows, the deposit among them, are lost from the sum and the Spot is closed with its money
  unreturned. The run sets `PageLimit` below the number of rows.
* `cancel_stuck`: a deferred cancellation whose Spot is filled meanwhile by waiting claims is refused on
  every retry, and settlement skips it.
* `auth_installed`: the recorder that is installed does not take the argument the guard passes, so
  no answered claim is recorded and the payout gate holds every one of them.
* `prize_heartbeat`: a location heartbeat of a winner whose claim is pending because of the draw
  decides it as if it were a duration claim.

Other observations made while modelling are stated as properties of their modules and are not kept
as runs. Each is violated by the specification under the constants named.

* `SpotLedger.RefundLeavesRewards` (`Duration`, requests to publish and cancel): a waiting duration
  claim may succeed while the cancellation is sending its refund.
* `SpotLedger.NoCompetingReturns` (requests to publish, end and ban): a ban between the status check of the
  remainder refund (`trans_updater.py:2276`) and its intent sends the money to two places. `EitherReturnFits`,
  in run `spot_live` where this happens, bounds the loss: without one of the two returns everything is covered.
* `SpotLedger.TopUpsCount` (two deposits, of 2 or 3): `refund_address_safety.py:140` says that the owner of a top-up is
  told by the preserved Nimiq Pay account, "never" by "the previous chain sender", which may be a temporary HTLC.
  `mark_trans_as_confirmed` (`trans_updater.py:1593`) compares the chain senders and fails the row. The money
  stays at the Spot's address and is in no total.
* `TransOutbox.IntentsResolve` and `SpotLedger.MoneyReturns` need their exception for misdirected deposits: such a row is
  never decided, so the draft it was reported for can neither be cancelled nor, once banned, swept.
  `RemainderReturned` needs none, since a published Spot has no pending deposit (`PublishedIsFunded`).
* `ClaimAdmission.ClaimsDecided` needs its exception for cancelled Spots: the settlement pass selects claims of
  published Spots (`db_access.py:2617`), and nothing fails the claims that wait when a cancellation finishes.
* `PayoutThrottle.WindowsHold` (`PermitTicks` of 1 without `InTime`, or `RowsFail` without
  `OneEach`): a permit used long after its reservation, or by a second worker after the first one's payout failed, falls
  into a window that others have filled.
* `PayoutThrottle.PermitIsNotHeld` (`OpenClaims` not empty): an Open-Spot payout within every limit
  carries `manual_review` in its allowing decision and is marked for review.
* `CacheRefresh.PendingIsComplete` (`Overlap`): of two overlapping targeted refreshes the
  second overwrites the first. `ListedIsPublic`: after a Spot's end, a targeted refresh of another one
  keeps it listed and forgets its transition. `NamesAreCurrent`: a targeted refresh clears the
  mark that a rename had set.
* `TravelGuard.HonestNeverBanned` (`AwayHeartbeats` TRUE): heartbeats of a waiting claim count as
  presence at its Spot wherever they come from.
* `GpsAnchor.OneBadReadingForgiven` (`SwitchInOrder` false): when a reading from another network is stored after a newer
  bad one, the pending point is dropped and the anchor stays bad, so the next true reading counts a
  second contradiction. The pending point's time is not compared with that of the reading either
  (`fresh_claim_guard.py:225`).
* `XAutoPoster.CursorSkipsNone` under `PosterSlowSpec`: a publication that commits a second after
  its stamp is passed over. `RetriesServed`: retry rows of ended Spots take the places of running ones.

Not exercised: with the clock of `progress` stopping at 1, a Spot that X refuses falls due once, so retries that fill
every pass for ever are outside `ActiveTakenUp` (with the default settings that takes more than 300 refused
running Spots at once).

The passing runs therefore assume: in `spot_money`, scenarios that combine neither waiting duration
claims with a cancellation nor a ban with the end of the period; no payout reservation that runs out under its
permit, and no two workers at one claim when its row may fail; no transactions among overlapping cache tasks (the run would be too
long; the proof has them); heartbeats from the Spot for `HonestNeverBanned`; readings stored in order when the network changes, and
before the next journey of the user ends, for `OneBadReadingForgiven`; publications that commit at their stamp, and within one
second in the order of their ids, for `CursorIsExact`.

## Fairness

Weak fairness, stated per worker, except where noted; in `MCProgress` every conjunct is the one
of the component's own module, for its part.

* `OutboxFairness`: a coroutine that is sending goes on, the chain includes what is in its mempool,
  the refresher visits every pending row (the loop of `trans_updater` polls them all each pass) and
  decides those whose fate is proven: executed as recorded, executed with too little, or failed. No fairness
  decides a deposit that is not visible, or one that paid another address.
* `SpotFairness` adds the parts of the settlement loop (`run_settlement_pass` runs each of them on
  every pass) and the sweeps. A cancellation is retried fairly only once its marker is set, since
  that is what `retry_pending_spot_cancellations` selects.
* `PrizeLiveSpec`: the entry period ends, the draw and each settlement worker go on. `ThrottleFairness`
  is strong for offering an unpaid claim and for the clock: the settlement loop offers each claim on
  every pass, though a worker is busy with another one in between, and time goes on between payouts.
* `AuthLiveSpec`, `CleanupSpec`: maintenance runs with every settlement pass; time goes on.
* `AdmissionFairSpec`: the settlement pass refreshes each pending claim of a Spot that is not cancelled
  (`SettleClaim`); that a cancellation finishes is not owed. `LiveSpec` of
  `DraftAdmission`: tasks and threads of a running process go on. `PosterLiveSpec`: the worker is never stopped.

Nothing is assumed of people: no publishing, claiming, cancelling, banning or releasing is owed.
Failures are never owed.

## Proofs

TLC checks small instances; the theorems hold for every value of the constants that satisfies the named
assumption of the module (`OutboxAssumption`, `ThrottleAssumption`, ...) and the hypotheses given here.
Those assumptions type the constants and say what the code's configuration guarantees: windows
and limits are natural numbers, journeys and flights obey the triangle inequality and take the same time both ways,
a model value is not a real one. TLC evaluates them on every run.

Each theorem about a component goes the same way: an inductive invariant holds initially, every action
keeps it, and it implies the property. What the property needs besides itself is said below.

### TransOutbox

`OutboxUnique` and `OutboxLedger` are the invariants of run `outbox`, `OutboxFinal` the action property
`FinalRowsStay`, `OutboxRefinesPaidOnce` the refinement of `PaidOnce`. `OutboxTypes` (`TypeOK`, which run
`spot_money` checks as part of `SpotTypeOK`) and `OutboxPaysAtMostOnce` (`PaidAtMostOnce`, what `PaidOnce`
means in a state) need no run of their own. All are for any
number of rows, any obligations and amounts and any subset of faults.

`PaidAtMostOnce` is not inductive: two executed rows of one obligation are excluded only
because the first was still active when the second was to be inserted. `IInv` adds what links the
three parts of the state: rows beyond `count` are untouched and have no sender and no chain
transaction (`FreshRows`); a sender that has not broadcast yet belongs to a local intent with
nothing on chain, and one that has returned belongs to a local intent, or to one that recovery
has already given its hash (`SendersAreAhead`); and a row whose sender or transaction is live, or
executed, is not FAILED (`LiveRowsHoldTheirSlot`).

### SpotLedger

Hypothesis `Unbounded` (`Nat \subseteq Amounts`): the set of amounts that bounds a run is every natural number.

* `SpotTypes`, and `SpotImplementsOutbox`: a step of whichever coroutine is a step of the outbox or leaves it
  alone. `SpotPaysOnce` carries the outbox theorems over.
* `SpotEndsForGood`: completed and cancelled Spots stay so, markers are not taken back, a banned Spot pays
  no first reward. `Books` adds to the types the outbox's `IInv`, what rows and senders a coroutine
  is at, and which status allows which marker.
* `SpotPublishedIsFunded`. `Funding` says that deposits are missing rather than double, that only what is paid
  for is public, and that fee and claims come after the funds.
* `SpotRefundSentOnce`, with `WholePage` (`MaxRows =< PageLimit`): the run `page_limit` shows why.
  `GuardHeld` ties the guard row to the legs planned under it.
* `SpotNeverOvercommits` and `SpotMoneyIsSquare`, with `WholePage`, for every behaviour of `SpotSpec /\ []NoRace`.
  `NoRace` excludes two states: a ban while a remainder refund stands between its status check and its intent,
  and (`NoLateClaim`) a waiting claim under a planned or finished cancellation. These are the two races listed above as
  `NoCompetingReturns` and `RefundLeavesRewards`, and the code does not exclude them. The invariant `Money` says what is
  left when a leg, fee or remainder is planned and not yet
  sent (`CancelBudget`, `RemainderBudget`), that a Spot with closed books pays and awaits nothing
  (`BooksClosed`), and that its ends meet (`EndsSquare`).
* `SpotImplementsEscrow`: under the same conditions, every step of the Spot, the outbox, the refresher and the chain is a
  deposit, a promise, a payment or a withdrawal of `SpotEscrow`, or none. `received` is `DepositTotal`, `promised`
  `Committed`, `paid` what the chain has executed (`PaidOut`), which a hash answered late or a crash may leave
  behind the ledger but never ahead of it: a row that is executed is not FAILED (`LiveRowsHoldTheirSlot`), so `PaidOut` lies between
  what is confirmed and what is committed. An ended Spot has everything confirmed and nothing left to send (`EndedRests`), so a closed
  account stays as it is.
* What remains true when those races happen. `SpotReturnsFit`, with `NoLateClaim` only, so with bans at any moment:
  `EitherReturnFits`. `Fits` is `Money` with the remainder and the sweep counted one at a time, which is enough because only these
  two are decided by coroutines that do not see each other. `SpotClosedIsSquare`: cancelled and settled Spots are square all the same.
  `SpotCoversRewards`, with no condition and any page limit: the creation fee and the rewards (`DueCovered`) are
  always covered by confirmed deposits, since admission counts waiting and successful claims together; only the creator's and the
  platform's own returns are at risk.
* `SpotMoneyIsSafe` and `SpotSurvivesBans` have no hypothesis about the behaviour, but constants under which the
  races cannot occur: claims have no waiting time or nobody cancels; the first also that no ban is requested.

### Prizedraw and PayoutThrottle

* `PrizeImplements`, `PrizePaysOnce`, `WinnersFixed`, `PoolPaid`, for any entries, pool, winners, page and
  workers. `PrizeInv` holds that prize rows carry shares and nothing else, that the winners
  computed again from claims and rows are those drawn, and that nothing is paid before the draw.
* `ThrottleKeepsLimits`: `PayoutLimitsKept`, for behaviours with two conditions. `InTime`: a permit may be held
  while the clock moves, but its reservation does not run out before the row is inserted.
  `RowsFail => OneEach`: where payouts may fail on chain no two workers are at a payout of one claim. Without either,
  `WindowsHold` is violated (above); run `payouts` checks the property under exactly these. `PromptThrottleKeepsLimits`
  needs no `InTime` where a permit is used before the clock moves (`PermitTicks = 0`). The property
  counts rows, and is not inductive: `ThrottleInv` counts rows and reservations together against every window, so
  that the row inserted for a reservation adds nothing.

### Security

* `AuthTypes`, `AuthorizationOnce`, `PayoutsScreened`: for either `Recorder`, with a hold that is longer than the
  burst window (`AuthAssumption`). `TakenOnce`: what a request took is not usable again and was taken by
  one request; `Screened`: no record before its claim, no payout before the hold, no mark without a review or its
  release; `BurstIsHeld`: a marked claim that is paid was released.
* `SlowVerdictsStand`, from `FreshInv`: a request keeps a clock that is behind the clock.
* `SessionTypes`, `SessionsProven`, `AdmissionBuckets`. `SessionInv`: the challenge that opened a session is gone for
  good, so that no second session can be opened with it. Buckets are sums over ages, shifted by each tick; `BucketInv`
  bounds what was really issued.
* `OneReadingForgiven`: `OneBadReadingForgiven`, with `SwitchInOrder` (it fails without, see above). `GpsInv` names the one wrong
  reading `b`, if there is one yet: all others, stored or under way, form a journey that ends where the user is
  (`Truthful`); `b` is stored at most once (`WrongOnce`); and a contradiction was counted only between `b` and
  the truth, after which either `b` is not the anchor, or the truth is pending and retires it
  (`CountedOnce`). `GpsShape` adds that a pending point is no older than its anchor and from the same network.
* `ClustersStayGrounded`: `ClustersAreGrounded`, which is inductive but for the fact that only an observed origin names a source.
  `ClusterTypes`: `ClusterTypeOK`, with it the bound on the members of a source (`AddStaysSmall`).

### Admission

* `DraftTypesKept`, `KeysStayUnique` (`KeysTaken`: every key held by a Spot, a reservation or a request is below the
  counter and held once), `DraftBudgets` (`DraftsCapped`; `Admitted`: each recent unpaid draft, inserted or about to be, still has
  its charged row, so counting rows is counting drafts).
* `ClaimTypes`, `CodesSpentOnce`, `ClaimRulesHold`: `CodeSpentBySuccess` and `ClaimRulesKept`. `ClaimsInv` is stated of a list of
  claims, because one promotion changes several of its rows; it adds that a waiting claim waits
  for time only, and that limits hold for waiting and successful claims together.
* `TravelTypes`, `JourneysHold`: `JourneysArePlausible`, whatever positions are reported. `HonestStaysUnbanned`: `HonestNeverBanned`, with
  `OneGlitch` (heartbeats from the Spot, one bad reading at most), beside anything forged by others. `Truthful`: every
  anchor of a visit can have been reached and left in time, and a marker means that the glitch has been.

### Reads

* `PosterAnnouncesOnce`: `ShownIsSettled` and `SentOnce` say that a Spot with a Post on X has a durable state from which nothing sends it.
* `PosterTypes`: `PosterTypeOK`, with it that no pass lists a Spot twice (`ListedOnce`: retries come first and are left out of the
  candidates) and that a cursor is stored exactly when a mode is.
* `PosterCursorIsExact`: `CursorIsExact`, both of its parts. `CursorInv` adds `WellPlaced`, of the stored cursor and of the one a
  pass will store: it is between the start of the enabled period and the clock, and one with an id is at a published Spot, so
  that a Spot published later comes after it, by its time or, in the same second, by its id (`InOrder`, as
  in the run). `PassKept`: what the next cursor passes has a state or is on the pass's list. A query's
  ORDER BY and LIMIT are defined by the place of a row among the rows, so that the lemmas about pages (`PageIs`, `SortedIs`)
  need no induction: places are an injection into `1 .. Cardinality(S)`, and so a bijection.
* `CacheIndexHolds`, for overlapping tasks too.
* `CachesAgree`: `SerialReadsAgree`, with and without `Overlap`. `SerialInv`: each row of a snapshot is right, or its kind is dirty,
  or the task at work still owes the notification (`Covered`). Every refresh of users is a full one, so their
  mark is made good by any refresh still to come. A targeted refresh of one Spot clears the mark that
  another Spot left, so each Spot needs an operation of its own. `ReadsInv` holds `SerialInv` while `overlapped` is false; a full
  pass that starts alone restores it because it owes every row (`FullPassCovers`).

### Sums

`SumTheorems` is about `SumFunctionOnSet`, a recursive function on sets. A sum is the cardinality of a set of units, pairs
of an argument and a number up to its value; its facts are proved by induction on finite sets,
stated with a set of sets, because a theorem with an operator parameter cannot be instantiated.

### Only model-checked

* Liveness, `ENABLED` and what needs fairness: `spot_live` (without its refinement) and `progress`.
* `RecordsCleanedUp` of `MetadataCleanup` is a liveness property; the module has no invariant beyond types.
* The four runs that are expected to fail, and the observations listed with them.

## Not modelled

* `location_behavior_guard.py`: its signed-claim episodes (`observe_signed_claim`) are never reached
  (see `ClaimAdmission`). What is left of it (`observe_find_location` and `current_decision`, called
  at `public_html.py:1796`-`1803`) counts observations made outside every claimable Spot and reads a
  `restricted_until` that no reachable code sets, a value migrated from the first format apart. The breadth of a funding source, the amounts of its transfers, and the active days that an account
  needs to be trusted by age.
* `content_moderation.py`: word lists and text masking; registration beyond the bucket in
  `WalletSession`.
* Reports, user bans, login, sessions and audit log of the administration console.
* That the refresher's pass comes round: what it restores when it does is `SerialReadsAgree`.
* Rendering, parsing, image and text formatting, RPC paging, cryptography (signatures, key
  derivation, password hashes), migrations, process supervision, the development spoof and browser code.
* A second process: the deployment starts one worker. SQLite is taken to serialise writers and to
  fail a deferred transaction whose reads went stale.
* Spots in the cache, on X or in the guards are not the Spot of `SpotLedger`: the components meet
  in the database only through status, time and claim counts, which each module lets change freely.

## Plan

Done: every component of the inventory that moves or guards money, and the read side. Left:

1. A composition of `PayoutThrottle` and the claim payouts of `SpotLedger` over one outbox.
2. The decision of `public_claim_decision` as one composition of `FreshClaimGuard`, `GpsAnchor` and
   `FundingClusters`, with a user ban in between.
3. Report handling, user bans and content cooldowns.
