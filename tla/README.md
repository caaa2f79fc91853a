# TLA+ models of the trading core

The repository is a chat agent that trades cryptocurrencies: a language-model
workflow turns a message into a typed order, asks for approval, sends it to a
centralised exchange (Binance, Coinbase) or to a paper venue, and keeps track of
it. This directory models the part whose mistakes cost money: the way of an
order from the user's message, through plan, risk precheck and approval, to the
lock, the venue and its final state in the ledger, and the background engine
that trades armed strategies on the paper venue.

Paths below are relative to `src/packages/plugin-cex/src/` unless they start
with `core/` (= `src/packages/core/src/`), `client-direct/`
(= `src/packages/client-direct/src/`) or `docs/` (= `src/docs/`).

## 1. Inventory

| Component | State it keeps | Operations | Talks to |
|---|---|---|---|
| Plan runner, `core/handlers/cexPlan{Runner,Executor,State,Schema}.ts` | `plans`, `activeByRoom`, sweep timers | a turn per message, `savePlan`, `updatePlan`, `cancelPlan`, modal edits | actions, approval modal |
| Risk engine, `risk/**`, `safety/dependencyHealth.ts` | none (evaluates a context) | fourteen rules, merge of verdicts, health gate | precheck, strategy tick |
| Human approvals, `core/handlers/humanInputState.ts` | pending map with timers | wait, resolve, expire, revoke | workflow, approval and kill-switch endpoints |
| Kill switch, `client-direct/api.ts` | the user's stored preferences | toggle, revoke, halt | approvals, strategy engine |
| Order execution, `core/handlers/cexWorkflowMessageHandler.ts` | the request in flight | precheck, review, quote recheck, dedup gate, lock, venue call, ledger write | all of the others |
| Trade actions, `actions/shared.ts` | none | `createTradeAction`: validate, call the venue, call back | venue adapters |
| Trading lock, `concurrency/tradingLock.ts` | `locks`: key → queue of resolve callbacks, stale timer | acquire, release closure, stale timer | `executeAction` through `acquireOrderLock` |
| Pending orders ledger, `reconciliation/pendingOrdersLedger.ts` | MongoDB rows by `client_order_id` | upsert, guarded update, the poller's query | handler, reconciliation |
| Pre-submit dedup, `idempotency/preSubmitDedup.ts` | none | `checkExistingOrder` | reads the ledger |
| Reconciliation service, `reconciliation/reconciliationService.ts` | streams, poller handle | start, stop, `trackOrder`, `handleTransition` | streams, poller, ledger, event hook |
| REST fallback poller, `reconciliation/reconciliationFallback.ts` | `attempts`, `unresolvedStreaks` | poll cycle, `processStaleOrder` | ledger, venue REST, `handleTransition`, downgrade hook |
| User data streams, `reconciliation/{binanceUserDataStream,coinbaseUserOrderStream}.ts` | socket, listen key, backoff, timers | connect, keep-alive, reconnect, stop | `handleTransition` |
| Strategy engine, `strategy/engine/*.ts` | SQLite rows of instances, `ticking` flag | tick, arm, set status, halt | risk engine, paper venue, notifier |
| Paper venue, `exchanges/services/paperVenue.ts` | balances and orders | create, cancel, edit | order store |
| Retry policy, `exchanges/services/retry.ts` | none | classify, back off, try again | venue adapters |
| Runtime lock writer, `reconciliation/runtimeLockWriter.ts` | a field of the user's preferences | read, write back | nothing under `packages/` reads the field |

What is hard here: requests and messages of one user run concurrently in one
Node process and meet at the plan store, the approval store, the lock and the
ledger; the state they read before an `await` may be old after it (the kill
switch, the dedup probe, the strategy copies); answers, expiries, replacements
and revocations race for one approval; a venue call can be accepted after its
caller gave up; three writers (handler, stream, poller) update one row in no
fixed order; poll cycles overlap; the stream loses messages. What would make each
component correct is in section 3; the list of hazards, each at its line, is in
`PROJECT.json`.

The shipped agent (`src/agent/src/index.ts:922-971`) starts the service without
stream credentials, so in production only the poller feeds the ledger; the
models have streams as a constant and check both.

## 2. Modules

    PlanSteps           the executor's pure helpers, updatePlan
      ^ extended by
    PlanRunner          the plan store and the turns of plan mode
                                                <- PlanRunnerProofs
    HumanInput          the store of pending approvals   RiskVerdicts  merge, gate
      ^ extended by                                        ^
    TradingApprovals    precheck, review, override, kill switch
                                                <- TradingApprovalsProofs
    FifoLock            abstract: a line of callers per key
      ^ implemented by
    TradingLock         acquireTradingLock      <- TradingLockProofs
    PendingOrdersLedger ledger rows, their writes, the dedup probe
    OrderMirror         abstract: a row opens, then settles as the order did
      ^ implemented by
    Reconciliation      EXTENDS PendingOrdersLedger: streams, any poller, events
      ^ implemented by                          <- ReconciliationProofs
    FallbackPoller      the poller in full      <- FallbackPollerProofs
    OrderExecution      EXTENDS Reconciliation, INSTANCE TradingLock: executeAction
                                                <- OrderExecutionProofs
    StrategyEngine      ticks, users' writes, kill switch, restarts
                                                <- StrategyEngineProofs
    MC*                 finite instances for TLC

An order passes `PlanRunner` (if the message makes a plan) or `TradingApprovals`
(if it is a single request), whose `Send` is where `OrderExecution` takes over.
The three are checked apart: what they share is that an action is invoked, or a
request goes on to the lock, at most once, and the properties of each say when.

### PlanSteps, PlanRunner (core/handlers/cexPlan*.ts)

A plan's entry holds status, approval mode, cursor, the steps' statuses,
`clarify_nudges` and its two timers: `sweep` (the TTL) and `grace` (five seconds
after a terminal `updatePlan`). `Keep` is what a stretch of code leaves in the
store, `savePlan`'s replacement of the room's plan and the drop of the room's
index included. A turn is one message; it stops at `decide` and `decompose`
(language model) and at `reads` and `write` (actions), and other turns, timers
and edits run meanwhile. `Continue` looks the plan up and remembers the next
write (`seen`), as the code does before it asks the classifier; `Obey` is
`applyContinuation` with all its branches; `RunWrite`, `DrainReads` and
`PresentPlan` are the pieces it shares with a new plan. What a write or a read
returns, timeouts included, is ok or failed. `EditStep` is the client's edit of
the step that the modal shows: it sends the step's position among the writes, and
`applyPlanStepEdit` takes that as an index among all steps. `edits` records which
step was shown and which was changed.

### HumanInput, RiskVerdicts, TradingApprovals

A wait is a request at one of two gates (`review`, `override`), its promise in
`outcome`, its entry in `pending`, its timer in `timers`. `WaitFor` replaces the
pending entry of the same room, user and level; `Decide` is the approval
endpoint, `Expire` the timer, `Revoke` the kill switch's sweep. All waits are of
confirmation level 1: the graph never reaches the second level.
`PUBLIC_ACCESS_MODE`, which lets any caller approve, is taken as unset.

A request reads the preferences (`ReadPreferences`; a failed read yields the
defaults, with the switch off), is evaluated (`Precheck`, or
`PrecheckUnavailable` when the provider throws), asks its user (`AskForReview`,
`Reviewed`, `Record`), passes quote recheck and dedup gate (`Execute`,
`Overridden`) and is sent. Its trading mode is resolved twice, as in the code: by
`ReadPreferences` for the gate (`gate`) and by `Send` for the action, which reads
the user's `default_mode` anew and, if that fails, takes a cached mode or live.
`StoreKillSwitch`, then `RevokeApprovals` or
`EventFails`, is the kill-switch endpoint, `PutPreferences` the other endpoint
that stores the switch, and the default mode with it. Of the rules the kill switch and the unknown-state
blocker depend on changing state; the others compare the request with limits and
are one verdict. In this caller, daily loss, cooldown, slippage cap,
reconciliation health and market-data freshness get no input and never fire.
`seenOn`, `revoked`, `allowed` and `drifted` are histories.

### TradingLock (concurrency/tradingLock.ts)

`locks` is the module's Map. An entry's `held` is always true, so it is the
entry's presence; `staleTimer` names the call the timer was started for. `timers`
are the timers not yet cleared or fired. `pc` says how far a call has come:
`granted` is the gap between the resolved promise and its continuation. Actions:
`Acquire` (:115-145, both paths), `Resume` (the continuation, where the caller
gets its closure), `ReleaseLock` (:150-163: idempotent per call, but it acts on
whatever entry the key has by then), `StaleTimer` (:60-83). `WakeNextOrDelete` is
the function of that name. Time is one bit per call: a member of `SlowCalls`
keeps the lock for more than the TTL, so that its timer can fire. `expired` and
`breached` are histories: the force-released calls, and the keys on which one of
them has released somebody else's entry since.

### PendingOrdersLedger, Reconciliation

A row is its state, or `absent`. `UpsertPendingOrder` overwrites
unconditionally, `UpdateOrderState` refuses terminal rows, as the MongoDB calls
do. `CheckExistingOrder` has no age branch: `getLedger` hands over rows without
the timestamps `ageMsOf` reads, so the age is always null.

`wire` holds the transitions a stream has passed to `handleTransition`; it is a
set because nobody awaits one before the next. `Deliver` is the whole of
`handleTransition`. A *probe* is one row of one poll cycle's list, in the stages
`query` (selected), `write` (the venue answered), `announce` (its own update
succeeded and `onTransition`, i.e. `handleTransition`, comes next). Cycles may
overlap, so several probes run at once. `announced` records what reached
`onTransitionSettled`. `VenueAccepts` and `VenueMoves` are the exchange. When a
row is due is left open here: any polled row may be.

### FallbackPoller (reconciliation/reconciliationFallback.ts)

`at[k][c]` is where cycle `k` is with row `c`: `listed` by the query, `due`, in
hand (`query`, `write`, `announce`, or `hook` while `onUnresolvedDowngrade` is
awaited). `StartCycle` is the query, `PlanCycle` the synchronous stretch that
brings `attempts` up to date and picks the due rows, the others are
`processStaleOrder` between its awaits; rows of a cycle are taken one at a time,
in any order. `age` counts the rungs of the ladder that a row has passed, which
is all that `thresholdForAttempt` compares. The code's streak is unbounded; it is
capped just above `DowngradeAfter`, where nothing looks at it any more.
`downgraded` is a history: accounts for which the hook was called since their
credentials last resolved. The refinement mapping `probes` makes each (cycle,
row) a probe of `Reconciliation`.

### OrderExecution

One `create_order` request per member of `Reqs`; those of one intent have one
`client_order_id`, as the hash of the intent does. `Probe`, `Decide` (dedup gate
and override), `JoinLock`, `EnterLock`, then `FailBeforeSend` or `Send`, then
`Return`, `LoseAnswer` or `TimeOut`, then `Track`, then `Release` (the finally
block). `VenueAnswers` may come at any time after `Send`, also after a timeout
or a crash. The lock's stale timer and the action's timeout are both five minutes
and the timer is armed first, so a request has lost its lock by the time it times
out: `TimeOut` is for members of `Slow` whose `StaleTimer` has fired (or was cleared
by somebody else's release), and what they do from then on runs beside the next
holder. `Crash` drops the process's memory and keeps ledger and venue.
`LoseAnswer` writes `rejected` because `createTradeAction` (actions/shared.ts:
1368-1419) turns every error of the venue call into a callback with
`success: false`; the handler's own classification into `unknown` sees only the
timeout and what is thrown outside of that catch. `MAX_DEDUP_OVERRIDE_ATTEMPTS`
cannot be reached: an overridden id is new. The four constants `Overlap`,
`LostAnswers`, `LedgerFaults` and `MaxCrashes` switch environment behaviours on.

### StrategyEngine

`store` is `strategy_instances`; `tick.todo` are the copies `listActive` returned
and `tick.copy` the one in `processInstance`. `Evaluate` (rollover and
`computeSignals`) and `Execute` (paper order) end at a network call, so users'
requests fall in between; every other action runs to the next one. A user's read
and put are one step: better-sqlite3 is synchronous and only microtasks separate
them. `Execute` is a market order, which the paper venue executes, or, for an
instance in `LimitInsts`, a limit order, which it only opens; the engine books
either with `Booked`. What signals, rules and the risk engine decide is a choice,
limited by the two things they do depend on: no order once the day's loss is at its
limit, and a pause after `RISK_BLOCK_PAUSE_THRESHOLD` blocks in a row.
`auto_kill_on_loss_limit` has its default. `taken` and `held` are histories: the
position that all orders of an instance amount to, and that of the executed ones. So
are `word` and `heard`: the last status that a user or
the engine decided on, and whether any tick held a copy of the row at that time.

## 3. Properties and runs

Where an instance switches a behaviour of the environment off, section 4 says
what happens when it is on.

| Run | Instance | Checks | States |
|---|---|---|---|
| `plan_turns` | two plans (three writes with a read between; two reads, one of which needs the other, before a write), 4 turns, 1 edit | types; `StepsRunOnce`; `OneWritePerTurn`; `ActivePlanIsLive`; `DependenciesMet`: no step begins before what it depends on has ended well; `FailureStopsWrites`; `EndedPlansRest`; `RoomFreed` (liveness) | 482 688 |
| `plan_skip` | the same | finding: `WritesApproved` fails | |
| `approvals` | 3 requests of 2 users in one room, one with its mode left open, one live, one shadow and composed; 1 write of preferences or kill switch | types; `OpenWaitsAnswerable`; `OneModalPerRoom`; `SentWasApproved`; `RevokedIsOver`; `SwitchSeenStops`; `LiveOrdersAudited`; `RequestsEnd` (liveness) | 500 078 |
| `lock_served` | 3 calls on one key, 2 of them slow; 3 prompt ones on another | types; `TimersMatchEntries`: pending timers are exactly the owners'; `WaitersQueued`: no waiter lost or queued twice; `MutualExclusion`; `FirstComeFirstServed` (refinement of `FifoLock`) on the prompt key; `EveryWaiterServed` (liveness) | 17 748 |
| `recon_poller` | 1 order, 2 overlapping cycles, a stream, a ladder of 2 rungs, downgrade after 2 | `ImplementsReconciliation` and `MirrorsVenue` (refinements); `AnnouncedOutcomesHold`; `PolledRowsMoveOn` and `OutagesDowngrade` (liveness) | 76 194 |
| `recon_announced` | 1 order, 1 probe, no stream | finding: `RestTransitionsAnnounced` fails | |
| `exec_sequential` | 2 requests for one intent, one after the other; stream, probe, timeouts | `AcceptedOnce`, `OrdersTracked`, `RejectedMeansNotLanded`, `NoSubmitOverLiveRow`, `RowsNeverReopen` | 509 343 |
| `exec_faulty` | 3 overlapping requests on a key, one of which outlasts the lock's TTL; lost answers, failing ledger, a crash | types; `SubmitsSerialized`: venue call to ledger write do not overlap, but for a request that lost its lock, and until it releases; `RequestsFinish` (liveness): no path leaves the key locked | 340 247 |
| `exec_toctou` | 2 overlapping requests | finding: `NoSubmitOverLiveRow` fails | |
| `exec_lost_answer` | 1 lost answer | finding: `RejectedMeansNotLanded` fails | |
| `strategy_edits` | 2 strategies, one with limit orders; 2 ticks, three edits at any time, a crash | types; `StatusDecided`: what is decided between ticks stays; `TranchesFillOnce`, `PositionMatchesOrders` (before the crash); `DueInstancesEvaluated` (liveness) | 720 052 |
| `strategy_killswitch` | 1 strategy, edits | finding: `HaltsHold` fails | |

Every property of a passing run has a mutant: a plausible mistake in one
translated operation (`... Mutant:` in the modules) that makes it fail under the
same configuration.

**Bounds.** Three calls on a key give a holder and a queue of two, the least
with which order matters; two slow ones let a forced release follow a forced
release. One order suffices for the ledger's writes, since no operation touches
two rows; two cycles are the least with which cycles overlap. Two rungs let a
row go past the ladder's end, and a streak of two lets it be interrupted. The
poller's streaks are the one place where two rows of an account meet; with two
orders and one cycle, no stream and `Moves = {"FILLED"}`, 44 142 states, the
same properties hold. Two requests with one id are what dedup is about; the
third request of `exec_faulty` has another id and queues behind them, so that
the late release of the slow one lets it in beside the second; the venue's later
moves (`Moves`) change no row there and are left to `exec_sequential`. An
override needs one fresh id per request. One crash at any point covers the lost
row; more crashes repeat it. In `strategy_edits` two ticks and three edits cover
buy, losing sell, halt, resume and pause after two blocks; `MaxQty = 2` lets a
sell leave a part of the position or exceed it. `BlockThreshold = 2` stands for
the code's threshold. Two requests of one user in one room are the least with
which one modal replaces another; the third, of another user, must be left alone
by replacement and revocation; one call of the kill switch may turn it on or
off, and it may be on from the start for the user whose modals it revokes
(`Halted`). Four turns make a plan, approve, and let two answers overlap, or
make a second plan that replaces the first.

**Fairness.** `TradingLock`: Node runs resolved continuations and due timers,
and a prompt caller releases in a finally block; a slow one may never release.
`FallbackPoller`: the interval keeps firing, an await comes back and a row gets
older (weak fairness); a cycle's start, a row's resolution, query and write,
tried again every cycle, eventually work (strong fairness, since failures and
busy cycles disable them again and again). The stream and the user who saves
keys have none; an outage that ends satisfies `OutagesDowngrade` by itself.
`OrderExecution`: the event loop runs what is ready and what is due. The
requests in `Slow` are those that may hear nothing from the venue: their stale
timer fires, and the action timeout ends their wait. The others are those that
the venue does answer. No fairness on the user's answer, so liveness starts
behind the gate. `StrategyEngine`: ticks go on and their calls come back; users
owe nothing. `TradingApprovals`: awaits come back and an armed timer fires; no
user has to answer, nobody has to turn the switch. `PlanRunner`: timers fire,
nothing else: messages, language model and actions may stay away for ever.

`CHECK_DEADLOCK FALSE` stands in the configurations whose system may stop
(orders settled, requests done, bounds reached); the lock's own run
`lock_served` checks for deadlock, as a released call may be released again.

## 4. Where the code departs from what it says

Five runs end in a counterexample and are listed as findings with the quoted
line:

1. `recon_announced` — the poller updates the row, then calls `handleTransition`,
   whose second update finds the row terminal and returns before the event hook.
   Fills found by the poller are never announced.
2. `exec_toctou` — the dedup probe precedes the lock and is not repeated under it.
3. `exec_lost_answer` — an error of the venue call after the request was sent
   ends as `rejected`, not `unknown`.
4. `strategy_killswitch` — a tick under way puts its older copy, status
   included, over the kill switch's halt.
5. `plan_skip` — "skip" marks the next write skipped and executes the one after
   it, which nobody approved.

The passing runs leave out behaviours of the same kind.

- *The lock.* A call that was force-released and releases later frees the entry of
  its successor; the next waiter then runs beside it. `MutualExclusion` excepts the
  keys on which it has happened (`breached`); without the exception one slow call
  of three violates it. This is not remote: the lock's TTL (tradingLock.ts:14) and
  the action timeout (core/core/runtime.ts:250, 419;
  cexWorkflowMessageHandler.ts:5086-5093) are both five minutes and the TTL starts
  first, so *every* request that times out was deprived of its lock before. The
  next waiter's submit may precede its `unknown` row, and its release frees that
  waiter's entry. "Serializes concurrent `create_order` submits" (tradingLock.ts:4)
  does not hold then; `SubmitsSerialized` leaves out the requests that were
  force-released, and a key once one of them has released on it. With
  `Slow = {r1}` TLC refutes it without either exception.
- *Execution.* Changing one constant of `exec_sequential` shows each:
  `LedgerFaults = TRUE` violates `NoSubmitOverLiveRow` (a failing probe is
  ignored, cexWorkflowMessageHandler.ts:4863) and `OrdersTracked`;
  `MaxCrashes = 1` violates `OrdersTracked` (the row is written after the
  answer); `Overlap = TRUE` violates `RowsNeverReopen` (the upsert is
  unconditional).
- *Strategies.* After a crash, or with `Rearms = TRUE`, `TranchesFillOnce` fails
  (the paper venue does not look at the id). A rule's `order_type` may be `limit`
  (strategyDSL.ts:60). The paper venue only opens such an order (paperVenue.ts:202,
  224) and nothing fills it later, but it answers with success, `createOrder`
  (strategyEngineService.ts:178-200) reports its whole quantity, and the tick books
  it (engineTick.ts:162), profit or loss included: the instance holds a position it
  never had, its take-profit and stop-loss sell what was never bought, and its loss
  limit counts losses nobody made. `PositionMatchesOrders` says of such an instance
  only that each order is booked once; without `LimitInsts` in its second half it is
  refuted. A status decided while a tick has a copy may be undone, by users' pause
  and stop as by the kill switch (finding 4); `StatusDecided` is about the others.
- *The trading mode.* It is resolved for the gate
  (cexWorkflowMessageHandler.ts:2841-2866) and again when the action runs
  (actions/shared.ts:1278-1286); the first result is not passed on. Where a request
  names no mode and `PUT /user/trading/preferences` turns `default_mode` from paper
  to live while its modal is open, an order goes out live that bypassed the health
  gate as paper and has no audit record as a live one. The same if the second read
  fails: a cached mode holds, or live. `LiveOrdersAudited` excepts these requests
  (`drifted`); without the exception TLC refutes it. Besides, only paper orders take
  the paper venue (shared.ts:1302-1310): a `shadow` order goes to the exchange, while
  getTradingMode.ts:19 says that "no orders are sent to the venue" and
  setTradingMode.ts:169 that they "are suppressed at submission"; and the health
  gate does not stop it (dependencyHealth.ts:88). `LiveOrdersAudited` says nothing
  of shadow orders.
- *The poller.* Without a stream, an unknown row that the poller finds resting on
  the venue becomes `acked` and is not polled again: `PolledRowsMoveOn` is as
  much as the code promises. Beyond the ladder's end a row is due on every 5 s
  cycle, not "steady at 60 s" (reconciliationFallback.ts:122). The streak counts
  unresolved rows, not "poll cycles" (reconciliationService.ts:66-67): an account
  with three stale rows is downgraded in one cycle. It is compared once, so the
  15-minute lock is not renewed in a longer outage.
- *The kill switch.* It is read once, before the awaits for snapshots and for the
  user. A request that is past its precheck and has no open modal when the switch
  goes on is not in `revoked` and is still sent, against "will refuse all new
  write orders while it is ON" (client/src/content/consent/liveTrading.v1.md:9).
  If `writeKillSwitchEvent` throws, the switch is stored and nothing is revoked
  or halted; `PUT /user/trading/preferences` stores it without either. A
  preference read that fails counts as off. The runtime lock writer writes back
  a whole preferences document it has read before, an older kill switch included.
  `RevokedIsOver` and `SwitchSeenStops` state what holds all the same.
- *Plans.* An edit in the modal sends the step's position among the writes
  (cexPlanRunner.ts:2105), and the store indexes all steps (cexPlanState.ts:247),
  though the order that executes should reflect "exactly what the user reviewed"
  (:228-230). With a
  read before the write shown, as injectValidationStepsIfNeeded
  (cexPlanRunner.ts:1883-1894) puts there, it changes an earlier write, or meets a
  read and is refused. Theorem `EditsReach` says that it hits exactly when no read
  precedes; for plans like read, write, write it fails, so no run states it. A "skip"
  decided on an older view overwrites a step that is done or failed meanwhile. A write in flight when its plan is
  cancelled makes the plan `awaiting_approval` again, out of its room. A new plan
  with a failed first read and no write left is set `completed`
  (cexPlanRunner.ts:480). Plan mode has no risk precheck of its own.

## 5. Proofs

Seven modules, all proofs checked from nothing in about four minutes.

`TradingLockProofs`, for every set of calls, keys, key assignment and slow calls
(assumptions: `KeyAssumption`, `SlowAssumption`): `LockTypes`, `LockTimers`,
`LockWaiters`, and `FreshExclusion`, which is `Spec => []MutualExclusion`.
`LockInv` is the conjunction of the first three properties and inductive: the
types alone do not survive a hand-over (the head of a queue has to be a call
that waits for this key), and the timers alone do not either (the next owner
must have the lock). `WakeNextOrDelete` is shared by releases and forced
releases, so one lemma, `HandOver`, carries both. It rests on two facts about
sequences, `TailElements` and `AppendElements`. Exclusion needs `OwnerInv`
besides: unless its key is breached, a call that has the lock and was not
force-released owns the entry. `ReleaseOwnerInv` is where a late release has to
be told from a timely one. `LockIsFifo` is the refinement of `FifoLock`,
step by step, on the keys without slow callers. `PromptInv` says that these are
never breached; then an entry's owner with the queue behind it is the line, an
acquire appends to it, and the hand-over in a release is its `Tail`
(`ConsElements`). The forced releases and late releases of the other keys stutter.

`ReconciliationProofs`, for every set of orders, probes and venue moves, with and
without a stream (assumptions: `MovesAssumption`, `StreamsAssumption`; the
specification is `Reconciliation`'s own, with its order handler): `LedgerTypes`,
`AnnouncementsHold`, and `LedgerMirrorsVenue`, the refinement of `OrderMirror`.
None of the three is inductive: what a row becomes depends on transitions and
answers already under way. `ReconInv` adds that whatever is on the wire, in a
probe or in a row is, if it is final, the order's outcome (`Settled`). Outcomes
only come into being (`VenueStepInv`), so the order, delay and number of the
writes do not matter (`UpdateStepInv`, `ProbeUpdateInv`). The refinement then
needs one lemma for each kind of step, `RowStepRefines` and `VenueStepRefines`.
It holds of this specification only because `SubmitLands` uses an id once; with
an id sent twice, and the upsert over a settled row, it does not
(`Overlap = TRUE` in section 4).

`FallbackPollerProofs`, for every set of cycles, orders and accounts, every
ladder and streak length: `PollerImplements`, the refinement of `Reconciliation`,
step by step (`StartCycle` is a `Select`, `PlanCycle` a `GiveUp` of the rows that
are not due, a row's steps are its probe's, counters stutter); from it and
`ReconciliationProofs`, `PollerAnnounces` and `PollerMirrorsVenue`; and
`PollerTypes`, whose invariant says besides that a cycle has one row in hand at
most (`OneInHand`).

`OrderExecutionProofs`. `ExecTypes` and `Serialized` need no assumption about the
environment: overlaps, lost answers, failing ledger calls, crashes, and any requests
that outlast the lock's TTL are all allowed. `ExecInv` couples a request to its call of the lock (`StagesMatch`), so
that the lock's `OwnerInv`, taken from `TradingLockProofs` through an INSTANCE,
serializes the requests, as far as it goes: `Serialized` has the exceptions of
`MutualExclusion`. `RequestsCallTheLock` is the refinement behind this: while
the process lives, every step of the execution is one of the lock or leaves it
alone, the slow requests being its slow calls (a crash empties the lock's map, which `TradingLock` has no action for), and
so `LockIsFifo` carries over as `ServedInTurn`, for the keys none of whose requests
is slow. The other theorems are about a
client_order_id and hold for any requests, ids, keys and probes, each under what
it needs of the environment:

| Theorem | `Gated`: a repeated intent starts after the first ended; the ledger works | `Kept`: the ledger works; no crash | `Answered`: no answer is lost before its timeout; the venue keeps what it accepted |
|---|---|---|---|
| `NoLiveRow`, `SettledRowsStay` | x | | |
| `LandedTracked` | | x | |
| `OneOrderPerId` | x | x | |
| `RejectedTrue` | x | x | x |

TLC agrees that the hypotheses are enough and finds a counterexample when any
conjunct is dropped. `FirstOfId` says that a request under way is the
only one with its id and finds no row; `SentHasRow` that what the venue has taken
on is in a row or in the hands of a request; `SentOnce` joins the two. The
first survives a crash, which only ends requests; the second does not, as
the row is written after the answer.

`TradingApprovalsProofs`, for any users, rooms, requests and trading modes (assumption:
`RequestAssumption`): the seven safety properties of the run `approvals`.
`StoreInv` (types, `OpenWaitsAnswerable`, `OneModalPerRoom`) is inductive by
itself; `FlowInv` ties stages to promises (`WaitsFit`, `ReviewPassed`,
`OverridePassed`) and says that a revoked request, or one that saw the switch
on, can only be at a stage from which it ends. `BlockWins` and `LiveNeedsAudit`
are the two facts about verdicts it rests on.

`StrategyEngineProofs`, for any instances, thresholds and bounds (assumptions:
`LimitAssumption`, `BoundAssumption`). `EngineTypes` and `StatusesDecided` hold
with crashes and with instances armed again. That a count of blocks stays in its
range is not inductive by itself: a user may resume a row that sits at the
threshold, and a tick may hold an old copy of it. `TypeInv` adds that a row or a
copy that is armed leaves room for one more block (`RowsRoomy`, `CopiesOK`);
`StatusInv` adds that the copies of a pass have the status last decided
(`CopiesHeard`). `TranchesOnce` and `PositionsMatch` assume `~Rearms`: armed again,
an instance starts from tick 0 and its first id is an old one (the finding of
section 4). So does `CrashRepeatsATranche`, which both follow from: a crash between
the venue's fill and the put loses one tranche's record, the next tick repeats
that id, and this is all, so that no id is executed more often than once plus the
number of crashes (with two crashes TLC finds an id executed three times).
`Fills` says that no id from an instance's tick count on has been executed more
often than there were crashes (`RowsFilled`), except the one in hand (`FillInHand`),
that a row's position is that of the orders taken, and without limit orders of those
executed, while there was no crash, and that copies are as recent as their rows
(`CopiesCurrent`).

`PlanRunnerProofs`, for any plans, any number of turns and edits (assumptions:
`StepsAssumption`, `RunnerAssumption`). The helpers that rewrite an entry compose,
so each has one lemma that says the same of it (`From`): it makes no step pending
again, it gives a turn nothing more to begin, a failure leaves nothing to begin
(`StopsOnFailure`), one of the timers goes on. `Stretch` says what any piece of a
turn between two awaits does; the pieces `RunWrite`, `PresentPlan`, `DrainReads`
are shown to be stretches, every action to be one or to begin nothing, and
`StretchStep` and `CalmStep` preserve `PlanInv`. `StepsRunOnce` alone is not
inductive: `StoreOK` adds that a pending step was never sent. `FailureStopsWrites`
does not hold because turns have different steps in hand (a stale "skip" may even
overwrite `failed`) but because after a failure nothing pending lies at or after
the cursor. `OneWriteATurn` needs that a plan in batch mode has a turn which was
told `APPROVE_BATCH` (`Batched`), and `EndedRest` that a cancelled plan is out of
its room (`EndedOK`).

`DependenciesFirst` is `DependenciesMet`: a step which was handed to its action
found each step it depends on handed over exactly once, answered and not failed.
`FlightOK` is its strengthening: two turns never wait for one step, and `ok` in the
store means that the answer came. "Not failed" is `ok` or `skipped`: a "skip" that
was decided on an older view overwrites a step that is done, and TLC refutes the
property with `ok` alone. `OnlySkipSlipsThrough` is the complement of the finding
`plan_skip`: a turn begins a write on an approval, in a plan whose rest was
approved, or on a skip, and the turn that made the plan never does. The last two
describe the modal's edits as they are, on any plan: `EditsReach`, that an edit
changes the step shown if and only if no read stands before it, and
`EditsNeverAhead`, that one which misses changes an earlier write.

Only model-checked: liveness (`RoomFreed`, `RequestsEnd`, `EveryWaiterServed`,
`PolledRowsMoveOn`, `OutagesDowngrade`, `RequestsFinish`, `DueInstancesEvaluated`),
which is outside of the prover's reach. Every invariant and action property of
the passing runs is the conclusion of a theorem.

## 6. Not modelled

- The user data streams' sockets, listen keys and reconnects: the shipped agent
  starts none; their effect on the ledger is modelled.
- The runtime lock writer: `runtime_lock` is read by nothing under `packages/`
  (docs/AUTOTRADING_SAFETY.md:135-138 says that it pauses live trading).
- Risk rules that compare a request with limits; the retry policy's backoff.
- Other actions than `create_order` behind the lock, edits, cancellations and balances
  of the paper venue, and failures of the engine's SQLite store; MongoDB answers
  lost after the write.
- The language model's part: decomposition, classification and validation of
  plans, parameter extraction.
- Venue adapters, intent hashing, strategy language, compiler, backtest, and the
  agent around the trading core: I/O or pure code.

## 7. What could follow

1. `UserDataStream`: reconnect, backoff and stop; no stream after `stop`.
2. `PaperVenue`: balances against executed orders, edits and cancellations.
