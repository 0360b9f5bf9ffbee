# joker: a verification project in TLA+

joker is a single-process trading assistant for 0DTE options. Market data
becomes snapshots, snapshots become decisions of a multi-agent graph, decisions
become validated order actions, orders go to a broker (a simulated one or
Webull's paper account), and everything that happens to an order is appended to
an event-sourced ledger from which orders and positions are projected. The
process is one asyncio event loop: concurrency means tasks that interleave at
every `await`, plus the thread of the SQLite connection, plus a process that may
die anywhere and is started again on the same database.

## 1. Inventory

| Component | State it keeps | Operations | Talks to |
| --- | --- | --- | --- |
| Ledger projector (`ledger/projector.py`) | none between calls; orders, positions, seen ids inside `project` | fold of ledger events | read by execution runtime, gateway, agent runtime |
| Ledger store (`ledger/store.py`) | one SQLite connection, its open transaction | `append`, `get_by_*` | every writer of ledger events |
| Event bus (`events/bus.py`) | seen event ids, a queue and worker per correlation id | `publish`, `drain`, `close` | all runtimes |
| Execution runtime (`runtime/execution_runtime.py`) | client → broker order map, unresolved reconciliation | submit, cancel, poll, record fill, reconcile, correct | broker adapter, ledger, bus |
| Broker adapters (`broker/`) | PaperBroker: orders, fills, rows; WebullClient: a table of the orders it sent | submit, cancel, get, list | the broker |
| Reconciliation and session supervisor (`ledger/reconciliation.py`, `runtime/session_supervisor.py`, `graph/checkpoints.py`) | report, claim of recovery, graph state and its checkpoints | `reconcile`, `correction_events`, `start`, `shutdown` | execution runtime, ledger, broker, agent runtime |
| Order action gateway (`runtime/order_action_gateway.py`) | none; validates against the projection | `submit` | decision and position worker, execution runtime |
| Cognitive agent runtime (`runtime/cognitive_agent_runtime.py`) | two queues, coalesced snapshot, workers, cycle registry | `on_event`, worker loops, `start` (with resumption), `shutdown` | bus, graphs, gateway |
| Market data runtime (`runtime/market_runtime.py`, `market/`) | open and emitted bars, last cumulative volume; buffered option rows, latest surface, enqueued findings | ingest, close bars, `tick` (surface, quality report, snapshot) | poll loop, its health bridge (`runtime/compatibility.py`), database, bus |
| Decision, position and debate graphs (`graph/`) | the state LangGraph checkpoints after every node | nodes and routes of the decision, position and order-management graphs | agents, gateway, repositories |
| Agents and model router (`agents/`, `models/router.py`, `cognition/`) | the `model_calls` table | choice of a profile, schema repair, escalation, reuse of a recorded answer, validators | graphs, local and remote model |
| Persistence (`persistence/`) | registry of cycles, provenance of orders, theses, actions of the order manager | insert, look up | graphs, agent runtime |
| Risk and exits (`risk/`, `execution/`, `runtime/reactive_engine.py`) | capital budget, engine state | sizing, governor's gates, contract selection, exit rules | market handler |
| Market handler (`runtime/market_handler.py`) | open trade, pending entry, pending exit, reserved capital | entries from rules, proposals and decisions; exits; reconciliation with the ledger | risk, broker, bridge |
| Session runners (`runtime/live_paper_runner.py`, `replay_runner.py`) | remembered proposal, counters of calls, playbook | start-up, poll loop, report | everything above |

What is hard here: tasks that validate against a projection and act some awaits
later; a shared database transaction; a crash between the broker's acceptance
and the ledger's record of it; replies that are lost; repeated submissions and
repeated polls that must be idempotent; corrections that meet late fills;
coalescing, priorities and shutdown of the workers; late, repeated and falling
market data, and saves that fail in the middle of a tick; orders that are
rejected, cancelled or partly filled between two polls, after capital was
reserved for them; cycles that are interrupted between an order, its provenance,
its checkpoint and its registry row, and run again. `PROJECT.json` lists each of
these under `hazards` at the line where it bites, with the properties that cover
it.

What makes each part correct: the projection never overfills an order and its
status, quantity and position agree; an acknowledged append is durable and
inserted once; the bus delivers each correlation id in order, once, and close
ends; a client order id reaches the broker once and the ledger never claims what
the broker does not; a session claims recovery only when ledger and broker
agree; closes do not oversell and a replacement repeats no fill the ledger knew; critical events
are served, and cycles that ordered can be found again;
every interval becomes one bar with everything that came in time, and a snapshot
called usable shows the market of its own poll; capital is reserved exactly for
what is open, every position has a trade that will exit it, nothing is sold
twice; a cycle sends one order, the one it decided on, however often it is
resumed, and ends.

## 2. Modules

| Module | Models | State | Actions |
| --- | --- | --- | --- |
| `LedgerProjector` | `LedgerProjector.project` | the locals of `project` | one `Apply…` per branch of `_apply`, `SkipDuplicate` |
| `LedgerStore` | `SqliteLedgerStore.append` on aiosqlite | each call's position, the thread's queue, ready results, committed and pending rows | `Execute…` (connection thread), `After…` (event loop), `Crash` |
| `OrderedDelivery` | what the bus promises (abstract) | accepted and delivered sequences | `Accept`, `Deliver` |
| `EventBus` | `InProcessAsyncEventBus` | streams, registry, `_seen`, closer | `Publish`, worker steps, `drain`/`close` steps |
| `ExecutionRuntime` | `ExecutionRuntime` and what the adapters let it see | broker's books, adapter's table, ledger, mapping, callers | one action per segment between two awaits, `Restart` |
| `Reconciliation` | `BrokerReconciler`, corrections, the reconciling part of `SessionSupervisor.start` | projection, broker's books and rows, startup phase | `Start…`, trading steps, `Crash` |
| `SessionSupervisor` | the supervisor around it: checkpoints of the graph state, start of the agent, health of the bridge, shutdown | errors, latest checkpoint, agent, shutdown phase | `SupervisorStart`, `StartAgent`, `Ingest…`, `Trade`, `Shutdown…`, `Restart` |
| `OrderActionGateway` | `OrderActionGateway.submit` between two workers | orders, broker positions, workers | `Submit`, `CancelFirst`, `Request`, `Send`, `Fill`, `Poll` |
| `CognitiveAgentRuntime` | routing, coalescing, workers, registry, resumption, shutdown | queues, workers, registry | `…Event`, `RouteSnapshot`, `Decision…`, `Position…`, `Resume…`, `Shutdown…`, `Crash` |
| `BarBuilder` | `BarBuilder` for one symbol | open bars, emitted keys, closed bars, cumulative volume, assigned observations | `Deliver`, `Redeliver`, `CloseReadyBars`, `Tick` |
| `MarketRuntime` | `MarketRuntime` in the poll loop, with the health of the bridge | buffered rows, latest surface, findings, stored snapshot, health | `IngestUnderlying`, `Fetch…`, `Tick…`, `Save…`, `Evaluate`, `Announce`, `Crash` |
| `CapitalBudget` | `risk/capital.py` | none: operators on the budget record | – |
| `TradeRules` | freshness, option selector, exit manager, governor, gates of propose and confirm | none: operators | – |
| `MarketHandler` | `MarketEventHandler` with the reactive engine and the broker behind the bridge | engine, trade, pending entry and exit, budget, orders, positions | the steps of a call (`at` names the next one), `BrokerStep` between any two |
| `LivePaperRunner` | `LivePaperRunner.run` and the replay runner, around the handler | phase, stage of the loop, quotes to hand over, remembered proposal, counters | start-up, `Loop` with its ways to enter (rules, agent, council), `Replay`, `Report` |
| `ModelRouter` | `ModelRouter` and `model_calls` | none: operators on the table | – |
| `DecisionGraph` | the decision graph with its perception, discovery, strategy and debate subgraphs | none: a cycle is its checkpoint | one operator per node and route |
| `PositionGraph` | the position graph and the decisions of the order manager | none | one operator per node |
| `CognitiveCycles` | the three kinds of cycle over their stores, in two workers | cycles, model calls, orders, provenance, theses, workers | one action per node, the steps of a submission, timeouts, `Crash`, `Recovery` |
| `CycleLifecycle` | what registry, broker and checkpoint promise of a cycle; implemented by `CognitiveCycles` | of every cycle its status, its orders and whether the checkpoint has them | `Begin`, `Place`, `Record`, `Complete` |
| `LedgerProofs`, `EventAndMarketProofs`, `RuntimeProofs`, `SessionSupervisorProofs`, `OrderActionGatewayProofs`, `TradingSessionProofs`, `CognitiveCyclesProofs` | theorems about the modules they extend; `LedgerProofs` is about `LedgerProjector` and `LedgerStore`, `EventAndMarketProofs` about `EventBus`, `BarBuilder` and `MarketRuntime`, `RuntimeProofs` about `ExecutionRuntime` and `CognitiveAgentRuntime`, `TradingSessionProofs` about `LivePaperRunner` and `CognitiveCyclesProofs` about `CognitiveCycles`, each with what it extends | – | – |
| `FiniteSums` | lemmas about sums over finite sets, used by the proofs of the projector, the gateway and the bars | – | – |

`MC…` modules give the constants their values. The models are layered rather
than multiplied: what one module establishes is an assumption-free abstraction
in the next. `LedgerStore` justifies treating `append` as one step in
`ExecutionRuntime`; `LedgerProjector` justifies representing the ledger by the
projected quantities in `Reconciliation` and `OrderActionGateway`;
`ExecutionRuntime` justifies the broker steps of both, and the one step in which
ledger and broker agree in `MarketHandler` and `CognitiveCycles`;
`OrderActionGateway` is the origin of the checks a submission passes in
`CognitiveCycles`, which runs what `CognitiveAgentRuntime` starts; `BarBuilder`
justifies the bars that close again and again in `MarketRuntime`.

`CapitalBudget`, `TradeRules`, `MarketHandler` and `LivePaperRunner` extend each
other in this order, as do `ModelRouter`, `DecisionGraph`, `PositionGraph` and
`CognitiveCycles`: the first ones are the pure part, checked through the state
machine at the end of the chain.

Data are abstracted to what the properties tell apart: a price is present or
absent (in the trading session it is a small number, because exits and P&L
depend on it), market data permit an action or are degraded, the answer of a
model is the part of it that a route or a validator reads. Every state change, guard, early return and the order of the awaits is
kept. Definitions whose comment begins with `Mutant:` are the plausible mistakes
each property has been shown to detect; they are used nowhere else. Every module
with variables declares its types in `TypeOK` (`StoreTypeOK` in `LedgerStore`, `BusTypeOK`
in `EventBus`, `BarTypeOK` in `BarBuilder` and `AgentTypeOK` in `CognitiveAgentRuntime`, whose
names differ so that one module of proofs can extend several machines). The module of proofs
proves it, that of `MarketRuntime` as part of an invariant; only the types of `CognitiveCycles`
are a definition for the reader.

## 3. Runs

Passing runs:

| Run | Instance | What it shows |
| --- | --- | --- |
| `ledger_projector` | an opening and a closing order of one contract, 18 events of every kind, duplicated, late and contradictory, applied in every order in which requests come first | `NoOverfill`, `StatusMatchesFills`, `FullyFilledIsFinal`, `PositionIsNetOfFills`, `CapitalIsCounted` |
| `ledger_store` | four calls with two keys, up to three at once, one fault, one crash | `SerialAppendIsDurable`, `AppendReturns` |
| `event_bus` | four events on two correlation ids, two handlers, one of which publishes, duplicates, close at any moment | the bus implements `OrderedDelivery`; `ClosedIsQuiet`, `CloseEnds` |
| `execution_runtime` | an entry and an exit, two callers, three calls, one restart, one lost reply, both adapters | `RememberedOncePerClient`, `LedgerIsTrue`, `AnnouncementMatches` |
| `reconciliation` | an entry of two contracts and an exit of one, both adapters, foreign orders and rows, an outage of the market data, shutdown, one restart anywhere | `RecoveryIsHonest`, `FillsAreReal`, `AuditIsKept`, `LifecycleEnds` |
| `order_action_gateway` | two workers, two contracts, three requests, three orders of up to three contracts, partial fills, refusals and lost replies | `NotOversoldAtOnce`, `OnlyUnknownFillsRepeat`, `OneWorkingEntry` |
| `cognitive_agent` | three snapshots, two order events, a registry that raises, one crash or shutdown and a restart | `CriticalKept`, `SnapshotDecidesOnce`, `CriticalServed`, `PendingServed` |
| `bar_builder` | three observations, 1m = two ticks, 5m = four, tolerance one tick, arriving at once, at the end of the tolerance, too late or ahead of the clock, with and without price and cumulative volume, redelivered | `EmittedOnce`, `InToleranceIsCounted`, `VolumeIsAdvance` |
| `market_runtime` | with and without an options provider; complete, partial, thin and malformed chains; three faults among failed fetches, failed saves, bad rows and crashes | `UsableIsCurrent`, `FindingsKept`, `Recovers` |
| `trading_session` | eight kinds of session (rules, propose/confirm agent, agent without confirmation, cognitive, replay, shadow) over a PaperBroker with and without slippage, an asynchronous broker and Webull; a call and a put, four ticks, partial sells, one fault | `CapitalFollowsTrades`, `NoUnmanagedPosition`, `NeverShort`, `BudgetPnlIsRealized`, `EngineAgrees`, `OneEntryPerProposal` |
| `cognitive_cycles` | a decision cycle, position and order-management cycles, two inventors, one role in each other swarm, one strategy switch; failing calls, escalations, rejections, timeouts, unusable data and crashes, three in all with the cycles | `EntryIsDecided`, `CheckpointAgreesWithCalls`, `CyclesEnd`; the cycles implement `CycleLifecycle` (`FollowsLifecycle`), so that a cycle has one order and a completed one knows it |

`dual_authority` is expected to fail: it checks the code against a sentence of its
own tests ("Ensure legacy and cognitive agents never dual-submit", quoted under
`findings`). Under cognitive authority `agent_led` is set to False, which is the
condition of the intraday council's branch; TLC shows the council convene and its
proposal become an entry order.

### Seen while modelling

The properties are stated around these behaviours, each of which follows from the
code and is part of the models. Hazards refer to them.

Ledger and broker
- The rollback of one `append` discards the row another one has inserted and not
  yet committed; that one returns True (`store.py:104`).
- After a restart `WebullClient` knows none of its orders, and a repeated client
  order id reaches the broker twice (`execution_runtime.py:289`).
- After a crash between acceptance and fill the correction at start-up and the late
  fill both count the position (`session_supervisor.py:243`).
- Two resting closes, each within the open quantity, together oversell
  (`order_action_gateway.py:470`).
- Nothing calls `record_verified_fill` before an order is filled whole, so
  `remaining_quantity` (`order_action_gateway.py:150`) of a working order is all of
  it: what an order had filled in part when it was cancelled for a replacement is
  filled again by the replacement.
- An entry whose reply was lost is rejected in the ledger and works at the broker;
  the gateway does not see it, and another entry passes
  (`execution_runtime.py:204`).
- An order that was rejected and is accepted when sent again stays rejected in the
  projection (`projector.py:151`).
- A surface whose save failed is referred to by a later snapshot.
- An error in a restored checkpoint (unresolved reconciliation, degraded market
  data) stays in the graph state although the session that restored it is sound;
  SESSION_ENDED reports a reconciliation made before the agent was stopped.

Trading session
- `DailyState` is built once and never written: the governor's daily limits compare
  constants (`governor.py:136`).
- PaperBroker's slippage puts every limit order out of reach of its own limit; a
  Webull fill has no verified price, so an entry stays pending. Both are kinds of
  broker in `trading_session`.
- The exit rules see the mid of whichever contract was quoted; an entry decided by
  the agent buys the setup's direction.
- A submission that raises after the reservation leaves the engine in ENTERING and
  the capital reserved; an exit call that raises although the broker took the order
  is repeated; a partly filled order that is cancelled leaves a trade of the wrong
  quantity. `Awkward` names the last two, and the properties say what holds outside
  them. The replay has no bridge and never books an exit.
- An entry that is filled in part becomes the trade with what is filled, and its order
  goes on working with nobody watching it (`market_handler.py`,
  `_reconcile_pending_entry`): what it fills after the exit belongs to nobody, and an
  exit that leaves a rest is forgotten together with its profit. `trading_session`
  has partial fills on the selling side (`PartialSides`), and `NoUnmanagedPosition` and
  `BudgetPnlIsRealized` hold under this bound; `NeverShort` is proved without it.

Cognition
- The idempotency key of a model call leaves out the extra payload: every strategy of
  a debate gets the reviews of the first, and after a switch the meta decision is the
  recorded SWITCH_STRATEGY again. Only the counter of switches ends the cycle.
- A call that failed once, or was left in progress, is never marked completed by a
  later request and is asked again on every resumption.
- A resumed cycle whose order still works is blocked by it, stays running and is
  resumed at every start.
- An answer that is valid for the schema but not for its validator is recorded as
  completed, so that the resumed cycle fails every time.
- The provenance is recorded after the order, so a position cycle may find none; the
  prior thesis it loads is the oldest one; an unresolved strategy is a new uuid on
  every run of the node, which then conflicts with its stored artifact.
- Order-management actions carry a fresh decision id in their key, so the durable
  check never finds one; the order they see has no side, and the replacement of a
  sell is refused.

### Bounds and why they are enough

Bounds are named constants in the guards (`MaxCalls`, `MaxCrashes`, …). They are
chosen so that every property's interesting case happens: two actors are enough
for a race on shared state and three for a race whose loser is observed by a
third; one crash reaches every await because it may fall between any two steps,
and because `reconciliation` begins with orders and rows of an earlier session, its
first start is a recovery that the restart may fall into;
three snapshots are one in flight, one coalesced and one that replaces it, two order
events can be in the wrong order;
three observations are a bar, a late one for it and one for the next interval,
and the clock runs one tick past the end of the first 5m interval, to the end of
its tolerance; three faults are a failed save, a failed fetch after it and a
crash; quantities 1 and 2 distinguish partial from whole fills, three of them leave something to
fill on either side of a cancellation, and `MaxQty + 1` passes
the cap. In `trading_session` four ticks are an entry, a poll, the time stop and
the end of the day; premiums 1, 3 and 4 hit the stop, nothing and the target; a
proposal lives two ticks, so it expires within the session; three calls are a
proposal, a confirmation and one more confirmation that must not enter again. In
`cognitive_cycles` `MaxWork` counts cycles and faults together: three are two
cycles and a fault in either, or one cycle with two faults, such as a crash in the
recovery from a crash; `MaxOrders` leaves room for the second order each property
excludes. The second cycle, and the second one a restart has to resume, is a position
cycle: only one decision cycle works at a time, and a further one gets its calls,
its order ids and its checkpoint under keys of its own. That the safety properties hold for
any number of decision cycles is proved. For each property a mutated definition violates it within the same
bounds.

What must happen again and again is stated as such (`[]<>`) where that says the same as, or
more than, a leads-to: `LifecycleEnds` also excludes that start or shutdown stops halfway, and
`CriticalServed` that an event which was taken from the queue is never done with. TLC then
needs no product of the state graph with a tableau, which the larger instances depend on.

`CHECK_DEADLOCK FALSE` stands where the bounds let the system run out of inputs.

### Fairness and why the code justifies it

- `LedgerStore`: the aiosqlite thread executes what is queued, the event loop
  resumes what is ready, and a task that was created is started.
- `EventBus`: a handler ends by itself or by `handler_timeout_seconds`, so a
  worker step is always taken; the closer's polling loop is scheduled.
- `SessionSupervisor`: `start` and `shutdown` are coroutines that the runner waits
  for; broker calls are synchronous and either return or raise, and the agent is
  given five seconds.
- `CognitiveAgentRuntime`: the shutdown wait has a limit of five seconds;
  decision cycles are limited by `max_cycle_seconds`; resumed and position
  cycles have no limit in the code, and are *assumed* to end while the runtime
  is up. Nothing is assumed of position cycles during shutdown, and nothing keeps the
  registry from raising.
- `CognitiveCycles`: a worker whose coroutine is runnable is run, and a model call
  has a timeout, so every node comes to its end (an answer, an escalation or an
  exception); the recovery at start is a loop over a finite list. Nothing is assumed
  of the market, of new events or of the broker's fills.
- `BarBuilder` and `LivePaperRunner` state no fairness: what is checked of them is
  safety.
- `MarketRuntime`: the poll loop goes on after every exception, since each is
  caught and logged; and a bar is closed again and again, because time passes and
  every poll ingests a quote. The latter is strong fairness:
  whether a tick closes a bar depends on the clock, not on the loop.

## 4. Proofs

`LedgerProofs` proves of `LedgerProjector`, for every set of orders, contracts and keys
and for every stream of ledger events:

- `ProjectorTypeCorrect`, `CapitalAlwaysCounted`, `PositionsNeverFlip` for
  streams in any order whatsoever (`Spec`). The inductive invariant is
  `PositionInv == TypeOK /\ CapitalIsCounted`: the sign of the quantity, the open
  flag and the cost basis have to be carried together, because a closing fill
  decides by the quantity whether to drop the basis.
- `PositionAlwaysNets`, also for `Spec`: the position of a contract is what its buys
  have filled less what its sells have, as the projected orders show it. `NetInv` adds
  `Linked` (a known order keeps the contract and the side of its events) and `Netted`,
  the equation itself as a sum over orders. It sums over the orders that are known:
  the placeholder of an order whose request has not come yet has a contract too.
- `CausalNoOverfill`, `CausalStatusMatchesFills`, `CausalFullyFilledIsFinal` for
  streams in which an order's request comes first (`CausalSpec`), which is how
  `submit_execution_command` writes them. `NoOverfill` alone is not inductive:
  a request that arrived twice would reset the submitted quantity. `OrderInv`
  adds that a known order's request key has been seen, that the submitted
  quantity is positive, and what each status says about the filled quantity.

Assumptions: `StreamAssumption` (the stream consists of ledger events;
identifiers are disjoint), `RequestAssumption` (a request is for at least one
contract and its key is a function of the client order id, as
`submit_execution_command` builds it) and, for `PositionAlwaysNets`,
`OrderAssumption` (there are finitely many orders, and the events of one agree on its
contract and side). TLC evaluates them in `ledger_projector`.

`EventAndMarketProofs` proves of `BarBuilder`, for every interval width, tolerance, set of lags and
stream of observations, under `BarAssumption` alone:

- `BarTypeCorrect`: no bar starts before the clock or has a negative volume. `BarTyped` adds
  that no observation is from before the clock began, which is where an interval
  would start too early, and that every bar is a record of its key.
- `BarsEmittedOnce`: no interval is emitted twice or opened again. The emitted
  keys, the closed bars and the open bars have to be carried together: a closed
  bar's key is in `_emitted`, and an open one's is not.
- `InToleranceCounted`: what has a price and came before the end of the tolerance
  is in its 1m and its 5m bar. The strengthening is that an interval is in
  `_emitted` only when its tolerance has passed, so that an observation received
  before that moment finds it open.
- `VolumeAlwaysAdvances`: while cumulative volumes do not fall and nothing is delivered
  twice, the bars of a timeframe and what came too late add up to the advance of the
  cumulative volume. `VolumeInv` says that some table of volumes by key describes every
  bar, open or closed, and adds up to the advance; that an observation to come was
  neither applied nor dropped before; and that the cumulative volume is known from the
  first delivery on. A sum over bars is the sum over their keys, because no two
  bars share one (`EmittedOnce` again).

Of `MarketRuntime` it proves, for any number of faults, from `NoneAssumption` and
`MaxFaultsAssumption`: `UsableAlwaysCurrent`, `FindingsAlwaysKept` and
`SnapshotsAlwaysGrounded`. `UsableIsCurrent` alone is not inductive: what makes
a snapshot usable is settled several awaits earlier. `Evidence` carries it from
the fetch to the snapshot: current rows or an enqueued finding, then a current
surface or that finding, then a report with a finding or a complete surface.
The lemmas follow the tick's parts (`FromProviderRows`, `CheckUnderlying`,
`CheckOptionSurface`).

Of `LedgerStore` it proves, for every set of calls, keys and business fields and any
number of faults and crashes, from `StoreAssumption` and `NoRowAssumption`
(the answer of a SELECT that found nothing is not a row): `StoreTypeCorrect` and
`SerialAppendAlwaysDurable`. What `append` returned says nothing about the open
transaction, so the invariant adds that a call has one operation under way
(`OneTicket`), who will end an open transaction (`Owned`), that a call no other has
overlapped is alone (`Solo`), and what such a call knows of its row at each await
(`Noted`).

Of `EventBus` it proves, for every set of events and correlation ids, any number of
handlers and whatever they publish, from `BusAssumption` and `SentinelAssumption`
(the stop signal and the mark of an idle worker are not events): `BusTypeCorrect`,
`ClosedAlwaysQuiet`, and `DeliveryIsOrdered`, the refinement
`BusSpec => Delivery!Safety` of the safety part of `OrderedDelivery`. The invariant has
two phases: until the workers are told to stop, the accepted events of a
correlation id are the completed ones, the one in the worker's hands and its queue,
in this order (`Flowing`); afterwards everything accepted is completed and only stop
signals are queued (`Stopping`).

`RuntimeProofs` proves of `ExecutionRuntime`, for any clients, callers, orders, calls, lost
replies and restarts, from `RuntimeAssumption`: `RuntimeTypeCorrect`,
`AlwaysOncePerClient`, `LedgerAlwaysTrue` and `AnnouncementAlwaysMatches`. An event is appended an await or
more after the broker's status was read; the invariant carries the evidence across
it: an order id is passed on together with the client the broker took it for, and a
caller about to record a fill or a cancellation holds an order in that state, which
the broker never leaves. `AnnouncedOK` follows what a fill will announce from the
append to the event on the bus.

Of `CognitiveAgentRuntime` it proves, for any numbers of snapshots, order events,
shutdowns and crashes, `AgentTypeCorrect`, `CriticalAlwaysKept` (no order event is
dropped, worked on twice or overtaken by a later one while the process lives) and
`SnapshotAlwaysDecidesOnce`. The first needs the queue and not only the events in
it: `InOrder` says that sequence numbers are unique and rise with the order events,
so that the first of the queue is the oldest. The second needs the handler, which reads
the projection in two awaits while the worker goes on: `Routing` says that the snapshot
it holds is the newest and in nobody else's hands. `Known` says that what the worker
runs, and what start resumes, has its cycle already.

`SessionSupervisorProofs` proves, for any clients, quantities, foreign orders,
outages and restarts, from `ReconciliationAssumption` and `OutagesAssumption`:
`SupervisorTypeCorrect`, `FillsAlwaysReal`, `AuditAlwaysKept` and the action property
`RecoveryAlwaysHonest`. `Credit` says that the projected quantity of an order is the
broker's or less and that this also holds of the quantities a report is about to
write back; `Audit` says what a start has found and not yet claimed.

`OrderActionGatewayProofs` proves, for any contracts, order cap, number of orders and
requests, from `GatewayAssumption`: `GatewayTypeCorrect`, `OneEntryAlways`,
`NeverOversoldAtOnce` and `ReplacingRepeatsOnlyUnknown`. None of them is inductive:

- the working-entry check is made at validation and the order is requested a step
  later, so `EntryOK` says that a validated entry still finds no entry at work: only
  the decision worker adds one, and it is in one call at a time;
- `HeldOK` says, while nothing rests, that the broker's position is the projected one
  plus what the two workers have bought or sold and not yet recorded, and that a sell
  under way is covered by the projected position: between its validation and its fill
  only the other worker, which never sells, can change it;
- `ReplacedOK` says that only a cancelled order is replaced, once, and for no more
  than its quantity: the order may fill between the validation of the replacement
  and its cancellation, which then raises and ends the call, so that a call comes to
  request a replacement only of an order it has cancelled. With `Stages` (what of a cancelled order the ledger has recorded is
  nothing) the fills of an order and its replacement exceed the order by what it had
  filled when it was cancelled, at most.

`TradingSessionProofs` proves, for every plan, set of contracts and setups, option chain,
decision, proposal, playbook patch and number of faults: `SessionTypeCorrect`,
`CapitalAlwaysFollows`, `EngineAlwaysAgrees`, `ProposalsUsedOnce` and `NeverSellsShort`; and, where
the broker does not fill purchases in part, `NothingUnmanaged` and `ProfitAlwaysRealized`. The
properties speak of
the session between two calls of the handler, but a call may end at any of its steps
(an exception passes through it, or the broker answers between two of them), so what
holds between calls does not imply itself. `SessionInv` says for each state of the
reactive engine what the call, the entry and the trade are and what the budget holds:

- `EngineInv`: RISK_CHECK is an entry between its reservation and its submission,
  OPEN_POSITION a pending entry, MANAGING_EXIT an open trade, and nothing leads out
  of ENTERING, the state in which a submission that raised leaves the engine. An
  attempt is made only from WATCHING, hence with nothing open or pending.
- `CapitalInv`: outside ENTERING the budget has reserved the allocation of the entry,
  which is positive exactly in RISK_CHECK and OPEN_POSITION, and the share of the
  open trade. That the allocation passes to the trade at the fill, and is given back
  at a rejection or at the exit, keeps the sum; that it is bounded by what was
  available keeps it below the authorized capital (`Reserves`). Since `release`
  cuts off at zero, that nothing is cut off has to be part of the argument.
- `ProposalInv`: the proposal an attempt confirms is older than the call, unexpired and
  still remembered; no order carries its number before it is sent, and once one
  does, the same call drops it.
- `CallOK` and `DataOK` type the call under way (what the runner handed over) and what
  the handler keeps.

The books of broker and ledger need two invariants more, both outside the awkward
sessions (`Awkward`, which no step ends) and both stated of values, so that the two halves
of a step that books what a poll has found and then moves the trade are lemmas of
their own:

- `BooksInv`: the ledger is behind the broker by the fills of the entry or the exit that
  are not booked, and of these by no more (`Covered`). What the exit has still to sell is
  in the ledger, and what the ledger has is held once the exit's fills are booked, so
  that even an exit filled to the end leaves no short position. While nothing is
  pending or open no sale works, and an entry is submitted while nothing is held
  (`Clear`). Its second part is for brokers that fill entries as a whole (`EntryWhole`,
  `TradeWhole`): the two inequalities are then equations, the trade is for all that is
  held, and what is over leaves nothing behind.
- `ProfitInv`: the ledger's profit over all contracts is the budget's and what the exit
  under way has realised since its baseline (`Settling`); that is nothing before the first
  of its fills is booked, so that forgetting a cancelled exit loses none. It needs the
  second part of `BooksInv`: an exit that is filled has sold all of the trade.

Every step of a call is first reduced to its effect on engine, entry, trade and capital
(`EntryEffect`, `ExitEffect`, `AttemptEffect`, `SubmitEffect`), each of which is then one case
of the invariant. The proof rests on `PlanAssumption` (the plan passes the checks of
`CapitalBudget` and its fields are numbers), `TicksAssumption`, `HandlerAssumption` (the
configurations are kinds of session, prices in the chains are numbers, and finitely many
contracts are quoted) and
`SessionAssumption` (decisions and proposals name a direction, as their validators demand).

`CognitiveCyclesProofs` proves, for any swarms, list of inventors and bounds, any answers
and any number of interruptions, timeouts, crashes and resumptions: `OneOrderAlways`,
`EntryAlwaysDecided`, `CheckpointAlwaysAgrees`, `CompletedAlwaysKnows`, and that the cycles
implement `CycleLifecycle` (`LifecycleFollowed`). `OneOrderAlways` and
`CompletedAlwaysKnows` are what the refinement rests on and implies; no run repeats
them, nor `PositionsNeverFlip`. The one
assumption is the part of `DecisionAssumption` which says that the roles that decide and
propose are in no swarm, as the role tuples of `agents/cognitive` have it: the context
hash is shared, so a swarm with such a role would write the row that the decision is
read from. None of the four invariants is inductive. `IInv` adds:

- `Sound`, what a checkpoint says at each node: a cycle is on its way to an order only
  after a meta decision to execute, whose strategy is one of the cycle's own, and the
  proposal is for that strategy (`Reasoned`); a position cycle has no decision before
  the node that routes it (`Watched`). `Answered` says that what the checkpoint took for the
  answer of a call has a row on record, and the same one if completed. As rows are only
  added (`Extends`), it stays so, and a node that runs again after its row was written
  and its checkpoint was not reads the same answer.
- `Backed`, what an order has to do with its cycle: its id is the cycle's own (`OwnId`),
  and the checkpoint has the id, or is still at the node that submits, or has ended with
  an error that keeps it running in the registry. So an order that the broker took
  before its node was interrupted is never that of a completed cycle, and the resumed
  node asks for the same id. That no two orders share an id makes them one.
- `AtWork`, what a worker has under way: the request is its own cycle's (`Requested`),
  the snapshot's fitness is that of the cycle, and the cycle is running and not still to be
  resumed (`Resuming`), so that no two runs of a cycle overlap.

A node is first shown to leave a sound checkpoint and only to add rows (`Advances`), the
routes and swarms included; an action then has one of two shapes, a change of a worker's
cycle (`CycleChange`) or of the worker alone (`WorkerChange`), each of which is shown
to keep the invariant once.

The refinement maps every cycle to what is `Seen` of it: its registry row, the number of
orders the broker has taken for it, and whether its checkpoint has the id of one. `StepSeen`
goes through the actions. Most are stutters, because they leave the rows alone and no order
goes to or from those the broker never took (`SameTaken`), or because the cycle they
checkpoint has no order yet. `Send` is `Place`: were the cycle to have an order already, the
id would be its own and the order would have been found. `RecordOrder` is `Record`, and
`Settle` is `Complete` or nothing; that the order is recorded by then follows from `Backed`
in the state after. A cycle that resumes and submits again therefore finds its order, and
one that is interrupted anywhere else is seen as it was. No action leads from `completed`
back to `running`, nor from a recorded order to one that is not.

The projected position, `PositionIsNetOfFills`, the volume of the bars and the ledger's profit are sums
(`MapThenSumSet`). The library's induction theorems cannot be instantiated here, so the
lemmas of `FiniteSums` (`SumsExist`, `SumRemove`, `SumAdd`, `SumChange`, `SumGrows`,
`SumImage`, `SumZero`) are proved by a smallest counterexample: the sets for which the statement
fails have one of least cardinality, and taking an element out of it gives a smaller
one.

In each module the invariant was an invariant of a TLC run on the instance of section
3 before it was proved. The proofs changed how the models say things, not what they do: alternatives
of the code's `if` / `elif` chains whose guards overlap are now nested `IF`s, since
the alternatives of a TLA+ `CASE` are not ordered (`RowsAfter`, `Transition`,
`CorrectedOrder`, `ManagedQty`); and the position of `ExecutionRuntime` counts the fills
of the ledger by side, as the projection adds them up, instead of folding over them.
The table of model calls is extended by `Inserting`, which says what becomes of each key,
rather than by `TLC`'s merge of functions, and `PanelReviews` has become an operator of its own.

Every safety invariant and action property of a passing run is thus stated by a theorem.
Only model-checked, because out of the prover's reach, is liveness: `AppendReturns`,
`CloseEnds`, `LifecycleEnds`, `CriticalServed`, `PendingServed`, `Recovers`, `CyclesEnd`
and the liveness part of `Ordered`.

## 5. Not modelled, and the plan

Not modelled: HTTP clients and normalisers, prompts, parsing of model output,
report formatting, CLI and TUI, settings, the compliance scanners: I/O or pure
data without protocol state. The watch runner only reports. Premarket planning is
left out; no action of the models depends on how a playbook came about. `agents/cognitive/runner.py`, `graph/decision_graph.py` and the
conflict checks of `graph/reducers.py` are called by nothing.

Of the quality rules only the outcome is modelled, so that quote ages are absent
from `MarketRuntime` (they are in `TradeRules`). Prices are absent from the ledger
and execution modules. The death of a PaperBroker together with its process
leaves nothing to reconcile with and is left out. `CognitiveCycles` has one
contract and lets ledger and broker agree at once; where they do not is the subject
of `ExecutionRuntime`. `persist_stale` is left out of the decision graph: the
proposal's snapshot is the one it is validated against.

What the plan leaves are the types of `CognitiveCycles` as a theorem, the bound on the
strategy switches among them. The rows of its model calls stand in the way: their status is
the outcome of a fold over the attempts (`CompleteWithRetries`), which needs an induction.
