# Dream Arena in TLA+

Dream Arena runs an automated trader (MIRA), a counterparty market maker (ECHO) and a
forecasting game on DreamDEX binary markets. This directory holds TLA+ models of its
core, TLC configurations that check them on small instances, and proofs that TLAPS
checks for every value of the constants. All paths below are relative to the repository.

## 1. Inventory

`P/` stands for `packages/`. The state listed is what survives between two operations.

| Component | State | Operations | What makes it correct |
|---|---|---|---|
| Transaction queue, nonce manager (`P/venue/src/txqueue.ts`) | promise tail, results by id, next nonce, pending nonces | submit, execute, attempt, retry, timeout, reserve/confirm/release/resync | one execution at a time in order, one answer each, no nonce used twice or skipped, a hung task stops nobody |
| Concurrency gate (`P/venue/src/gate.ts`) | count in flight, waiters | run | never more than the limit, nobody stranded |
| Hunt service, scoring, round driver (`P/api/src/hunt.ts`, `brier.ts`, `roundDriver.ts`) | current round, rollover pot, settlements | open, closeForScoring, settle, tick | each round settled once with its own data, money conserved, every round ends |
| Arena server (`P/ops/src/server.ts`) | forecasts, sockets | takeForecast, settleRound, outcome reads, HTTP and WebSocket shell | forecasts only for the open round, manual and timed closes agree |
| Risk guard (`P/core/src/risk.ts`) | kill flag, net and gross per market, fill times, placement times | check, onFill, kill/release | caps, rate, cooldown and switch hold whatever the callers interleave |
| Signal engine (`P/core/src/signal.ts`) | a latch and a fill time per market | evaluate, noteFill | one entry per crossing of the threshold |
| Engine (`P/core/src/engine.ts`) | caches, own net | onTick, evaluateMarket, place, onFill | what the guard allowed is still allowed when it happens |
| Venue (`P/venue/src/dreamdex.ts`, `sdkClient.ts`) | own order ids, seen fill ids | placeOrder, cancel, cancelAll, claim, pollMakerFills, positions | each fill reported once, no order forgotten |
| Position reconciler (`P/venue/src/reconciler.ts`) | the position book it corrects | reconcile | the book converges to the chain, a failed read changes nothing |
| Claim loop (`P/venue/src/claim.ts`) | last sweep | sweep | each settled position claimed once, a failure retried |
| Simulated venue (`P/venue/src/simulated.ts`, `scenarios.ts`) | books, balances, clock | the venue interface, scripted scenarios | matches and settles like the chain |
| ECHO (`P/core/src/echo.ts`, `P/ops/src/echoMain.ts`) | open quote ids, inventory | cycle, cancelFor, cancelAll | no stale quote is forgotten, inventory bounded |
| Event bus, journal, state store (`P/data/src`) | subscribers, buffered records, snapshot | publish, append/flush, fold | order, isolation, no lost or doubled record |
| Broadcaster and web feed (`P/api/src/ws.ts`, `apps/web/lib`) | clients, last snapshot, tape | subscribe, broadcast, reconnect, fold | the client converges to the server's state |
| Supervisor (`P/ops/src/boot.ts`), process wiring and shutdown (`P/ops/src/main.ts`) | crash counts, timers | restart, give up, shutdown | a crash loop gives up, shutdown leaves nothing on the book |
| Ingester (`P/data/src/ingester.ts`) | running flag, poll timer, last tick per symbol, failures in a row | start, poll, ingest, schedule | polling never stops by itself, ticks in order of their times |
| Sign-in (`P/api/src/auth.ts`, `apps/web/lib/session.ts`, `wallets.ts`) | challenges, sessions; session and wallet of a page | challenge, verify, addressFor; connect, disconnect, reload | a forecast belongs to who signed in, a challenge is used once |
| Listings and caches (`P/venue/src/dreamdex.ts`, `boundary.ts`) | cached listings, quotes, statuses, settled markets, opening prices | getMarkets, getQuote, onchain, settledMarkets, resolve | answers no older than their cache may serve, a boundary found stays found |
| Decision (`P/core/src/pricer.ts`, `sizer.ts`) and MIRROR (`P/api/src/mirror.ts`) | none | priceMarket, sizeOrder, buildOrder, build | sizes within every limit and on the grids, offers within their budget |
| Calibration (`P/api/src/calibration.ts`) | none | murphy, calibrationBuckets, headToHead | scores mean what they say |
| Other pure parts: volatility and option formulas, persona's lines, REST routing | none | | their formulas |

How they interact. `main.ts` wires everything in one Node process. A price tick from the
ingester starts `engine.onTick` without waiting for the previous one. The engine values each
market, asks the signal engine and then the guard, and awaits `venue.placeOrder`, which reads
through the gate and writes through the transaction queue. Fills come back by two paths, the
receipt of the order and a poll of the chain, and both call the engine's fill handler, which
tells the guard and the signals. The reconciler, the claim loop, the round driver and the fill
poll run on intervals of their own. The console (HTTP) flips the kill switch and force-closes
rounds. Users send forecasts and watch the feed.

What is hard is therefore: interleavings at every `await` (single thread, no locks), work that
a timeout abandons but does not stop, answers applied out of the order of what they report,
timers that overlap slow work, state copied into several places (four copies of a position),
and failures swallowed half-way. `PROJECT.json` lists each of them at its line under
`hazards`, with the property that would catch it or the part of the plan that will.

## 2. Modules

| Module | Models | Role |
|---|---|---|
| `SerialExecutor` | what the queue promises | abstract specification |
| `TxQueue` | `TxQueue` and `NonceManager`, the chain's transaction count | detailed specification |
| `TxQueueProofs` | `TxQueue`, and `Ops` with its journal | theorems |
| `ConcurrentGate` | `ConcurrentGate.run` and the microtask order of its wake-ups | detailed specification |
| `PotLedger` | what rounds promise about money | abstract specification |
| `Hunt` | `HuntService`, scoring | state and operations, composed by `Rounds` |
| `Rounds` | `RoundDriver`, the server's closes, reads and forecasts over `Hunt` | composition |
| `RoundsProofs` | `Rounds`, and `Feed` | theorems |
| `RiskConfig`, `RiskGuard` | limits; `RiskGuard` | constants; state and operations |
| `SignalEngine` | `SignalEngine` | state and operations |
| `HaltSwitch` | what the kill switch promises | abstract specification |
| `Engine` | `onTick` to the answer of an order, fills, chain, switch, over `RiskGuard` and `SignalEngine` | composition |
| `EngineProofs` | `Engine`, `Decision`, and the two together (`MCEngine`) | theorems |
| `Positions` | `Reconciler`, the venue's `positions()`, the copies `main.ts` wires | detailed specification |
| `PositionsProofs` | `Positions`, and `Scenario` | theorems |
| `Decision` | the pure stretch from a quote to an order; the guard's size rules; MIRROR's intents | operators with their properties |
| `DecisionChecks` | | bounded checks |
| `VenueOrders` | `cancel`, `cancelAll`, `reclaimExpired`, and the pool under them | detailed specification |
| `OrdersProofs` | `VenueOrders`, and `Echo` | theorems |
| `Claims` | `ClaimLoop`, `claimable`, `claim`, the queue's memory of claims | detailed specification |
| `AccountProofs` | `Claims`, and `SignIn` | theorems |
| `Listing` | `getMarkets`, `getQuote`, `onchain`, `settledMarkets`, `boundary.ts`, over `ConcurrentGate` | composition |
| `ListingProofs` | `Listing` with its gate | theorems |
| `VirtualClock` | `VirtualClock` | state and operations |
| `SimVenue` | `SimulatedVenue`, over `VirtualClock` | state and operations |
| `Scenario` | `ScenarioRunner` and its scripts, over `SimVenue` | composition |
| `Echo` | `EchoAgent`, the wiring and shutdown of `echoMain.ts` | detailed specification |
| `Feed` | `EventBus`, `Store`, `Persona`'s quips, `Broadcaster`, the page's socket and store | composition |
| `Journal` | `Journal` and its reader | state and operations |
| `Ops` | `boot.ts`, `restart.ts`, `edge.ts`, the start, price loop and shutdown of `main.ts`, over `Journal` | composition |
| `SignIn` | `AuthService`, the server's resolution of callers, the page's wallet and session | detailed specification |
| `Calibration` | `murphy`, `calibrationBuckets`, `headToHead` | operators |
| `CalibrationChecks` | | bounded checks |
| `FoldTheorems` | | lemmas about sums over finite sets and folds over sequences |
| `MCTxQueue`, `MCListing`, `MCRounds`, `MCEngine`, `MCPositions`, `MCVenueOrders`, `MCSim`, `MCFeed`, `MCOps`, `MCSignIn` | | instances for TLC |

**One action is what runs between two awaits.** JavaScript runs to completion, so an action is
the code from the settlement of one awaited promise to the next await (or the return), and
everything else may happen between two actions. That is the whole model of concurrency.

### Transaction queue

`line` is the chain of promises hanging off `tail` (and, as it keeps answered ids, the dedupe
map); `phase` says which await of `execute`/`attempt` a submission stands at; `retried` is
`isRetry`; `next` and `pending` are the nonce manager's fields. `run` is the state of the
promise `task.run(nonce)` returned, which belongs to the world: it may land and lose its
receipt, be rejected, or land after `Timeout` has answered the submission. `count` is the
signer's transaction count. `Submit`, `Execute`, `Reserve`, `ReserveFails`, `Complete`,
`RunRejects`, `RunClashes`, `Timeout`, `Resync`, `ResyncFails` are the queue's steps; `Land`,
`LateAnswer`, `ForeignWrite` (writes that go round the queue, as `cancelAll` does) the
environment's. The adapter does not put the reserved nonce on the transaction, so a landing is
not tied to it.

### Gate (run as part of `Listing`)

`active` and `queue` are the fields. `woken` is the order of the scheduled continuations of
woken waiters: resolving a waiter's promise only schedules it. `ahead` remembers which
continuations were scheduled before a call's own completion could be, since microtasks run in
order. `RunStarts` and `RunWaits` are the two branches of `run`, `Resume` the code after the
await, `Finish` the finally block. `overtakers` is history.

### Rounds

`Hunt` has the service's fields and one operator per method; each is synchronous, so `Rounds`
makes it part of its caller's step. `reads` holds what a closer has in hand while it awaits the
outcomes: the driver only its round, the console also the forecasts, which it collects first.
`Answer` ends that read, settles and calls `onSettle`. `due`, `resolved`, `curve` are the clock,
the chain's resolutions and the last point of MIRA's PnL. Dollars are integers. Brier scores are
reduced to whether any forecast of the round scored, which is what decides between paying and
rolling over; how a pot is split among forecasters is not modelled. `Stamped` says whether the
outcomes carry the round's id: the tests' do, the server's do not (see findings).

### Engine

`RiskGuard` and `SignalEngine` have the fields and methods of those classes. `tick[t]` is where
an `onTick` stands (listing markets, awaiting a quote, awaiting an order) with the timestamp it
came with; `order[t, m]` is the order it made. `Place` is one step from the quote's arrival to
the call of `placeOrder`, as the code has no await in it; `NoOrder` is the same stretch when it
ends without an order; `Sign` is the write leaving the queue; `Answer` the receipt with its
fills; `Poll` one match seen by `pollMakerFills`; `Land`, `Taken`, `Expire` the chain; `Switch`
the operator. Sizes and edges are open: any size up to `MaxSize`, any band of the thresholds.
`entered`, `told`, `blind`, `checked` and `outOfOrder` are history variables, read by properties
only. The session-loss stop is left out, because nothing in production reports a realised PnL to
the guard; the notional cap is in `Decision`.

### Decision

What lies between a quote's arrival and the guard is pure, so `Decision` has it as operators: the
gates of `priceMarket` (`Priced`), the side (`Sides`), `SizeOrder` with its five limits,
`BuildOrder`, and as `Decisions` the set of the orders an evaluation may come to (one or none).
`SizeAllowed` is what the guard says of an order's size, `Intents` what MIRROR offers. Prices and
money are integers, a contract pays `Unit`; the code computes with doubles and a tolerance of 1e-9
before it rounds down, which the integers do not need. What the formulas answer is an input: the
probability of YES, and whether some volatility explains the quote (`Belief`). `MCEngine` composes
it with the guard's state: in every position the guard reaches, an order sized by the sizer for that
position passes the guard's caps. In the program sizer and guard keep separate copies of the
position, and after an adoption by the reconciler they differ (see findings).

### Positions

`chain` is the truth, `known` the map `main.ts` keeps for the reconciler, `engineNet` the
engine's own map; the guard's copy is `net` in `RiskGuard`, which nothing corrects. A pass lists
the markets (`List`), reads their balances one after the other (`ReadBalance`, `SkipBalance`) and
compares in one synchronous stretch (`Reconcile`). The quote awaited after a balance only sets the
mark, so it is part of the same action, with any mark. Passes overlap as the interval does not
wait; `Passes` are the ones under way. A match leaves one or two `reports` that reach the engine
late or never. `matches`, `asOf` and `overtaken` (with `missed` and `dates` in a pass) are history:
they date balances.

### Orders after placement

`pool` is the chain's truth about an order. `tracked` stands for `venueOrderIds` and
`ownOrderMarkets`, `dead` for `deadOrders`, `seen` for the acknowledgements. `memo` is what the
queue keeps under the fixed id of an order's cancel: the first submission's outcome answers every
later one, a failure too. `Placed` has the three answers of `placeOrder`: with the order's id, without
it (`NAMELESS`: acknowledged and not tracked), and refused. `CancelUntracked`, `CancelTracked`, `StartCancel`,
`RunCancel` and `CancelAnswered` are `cancel()` around its await, `CancelReentrant` the queue's refusal of an
id that is executing; a sweep is `SweepBegin`, `SweepList`, then `SweepSign` and
`SweepAnswered` for each order, then `Reclaim` per market. Sweeps sign past the queue, so they may
overlap with everything. The client's and the pool's id of an order are one name.

### Claims

`memo` is again the queue's memory, here one claim per market for the life of the process. A sweep
is at its list, between two claims, at a market's status or at the queue. The timer does not wait,
so `Sweeps` may be under way together. `done`, `booked` and `unclaimed` are the loop's fields;
amounts are left out. `shared` is history: markets two sweeps were at.

### Listings

`Listing` extends `ConcurrentGate`: `Calls` are calls of the venue that reads through the indexer's
lane, and what a call does when its turn comes, its read ends or fails is a conjunct of the lane's
step. A cached value carries the moment its call was made; no two calls share a read. `knownAt` is
the cache of opening prices, which a failing feed leaves as it is. Values are the moments they were
read, so that freshness can be stated.

### Simulation

`VirtualClock` keeps timers in the order they were armed; `AdvanceTo` fixes a target and every timer
that is due fires before anything else happens, as the advance is synchronous. `SimVenue` is one
market and one agent: `Acceptable`, `PlaceInline` or `PlaceQueued` with `FireOrder` after the
latency, `Matched` with `Walk`, a fold of `Trade` over the levels, `Netted`, `Mint`, `Cancel`,
settlement and `Claim`. A level has a number, below zero if it is synthetic and its place in the book if it
is an order's, and `Better` is the order of the stable sort: by price, then by number. `Consume` gives
what a trade takes off each order in closed form: what is left of the trade after the older ones at its price.
Averages are exact fractions. `Scenario` arms a script's steps on the same clock and clears those of the
script before.

### ECHO

`cycle` says where in `requote()` the agent stands: markets and sides still to do, the ids being
cancelled, the await it is at. `limbo` are placements that were answered REJECTED and may still
land; a placement that is accepted without its id is remembered by ECHO and unknown to its venue.
`Poll` counts a fill twice, as two subscriptions do. `Signal`, the two sweeps and `Exit` are
the shutdown, which goes on beside a cycle. `lost` and `late` are history.

### Feed

`publish()` is synchronous, so `Publish` delivers a whole batch: the event and, before it, what
subscribers published in reaction (`Batches`). A round is closed and settled in two events; in between the
next one may open (`scoring` has those closed and not settled), and its settlement then comes without a round
event (`Settling`). `server` is what `Store` holds, `wire` the frames under way to the page, `page` what its
store holds. The two fold alike but for two things: a settlement takes the round off the page and not off
`Store` (`cleared` remembers it), and the page cuts its valuations to `ValCap` when one arrives (`Fronted`),
while `Store` keeps one per market at the place of its first (`Put`). `Break` loses a socket in any phase with its frames,
`Crash` restarts the agent with nothing remembered; `Closed` and `Reconnect` are the page's.

### Journal and operations

`Journal` is a value with the methods of the class: what is buffered, what is on disk, which sequence
number is next, with torn lines after failed writes; `Died` is a death at any point of a write; `ReadLine`
is the reader at one line, `Replayed` at a whole file. `Ops` runs MIRA's process around it: starting, the
poll of each symbol with its failures, records, orders from the price that causes them to their landing, and
the shutdown, under the supervisor that counts crashes, restarts, gives up, forgives, and stops on a signal
after the edge. `tracked` are the orders whose receipts MIRA has; a death forgets it. The sweep takes those
(`Targets`) and what the indexer lists (`SweepList`: anything that has been on the chain, or nothing), and
each of its cancels may fail. `owed` and `missed` are history: what was tracked when MIRA was told to stop,
and what the sweep failed to cancel.

### Sign-in

A sign-in is challenge, signature, check and answer, each its own step, and its message may be
delivered twice. A tab has a wallet and a session, the browser's storage is shared by the tabs, and
a call carries what its tab had when it was made. `pendingAuthAddr` is the server's one variable for the caller
of the request in hand. `opened` is history.

### Calibration

Operators on exact fractions: every score times `Scale(n)`, a common multiple of the denominators.
`CalibrationChecks` compares them with what they are for, on every record of up to three forecasts.

## 3. Runs

Deadlock is not checked (`CHECK_DEADLOCK FALSE`): ids, calls, ticks, clicks, rounds and time are
bounded, so every bounded instance ends in a state with nothing left to do.

| Run | Bounds | Checks |
|---|---|---|
| `txqueue` | 3 ids, foreign writes up to count 2 | `SucceededNoncesDistinct`, `NoNonceGap`, `OnlyAbandonedRunsOverlap`, `ImplementsSerialExecutor` (with its liveness) |
| `listing` | 3 calls in a lane of 1, 1 reference market, time 0..3, listings served for 2, quotes and statuses for 1 | `AnswersFresh`, `KnownBoundaryPosted`, `OverrunOnlyByOvertaking`, `EveryWaiterRuns` |
| `rounds` | 2 markets, 2 rounds, 1 click, PnL of 0, -1, 2, outcomes stamped; records of up to 3 forecasts | `PotConserved`, `DisplayMatchesSettlement`, `NoForecastLeftOut`, `ImplementsPotLedger`, `EveryRoundSettles`; the assumptions of `CalibrationChecks` |
| `engine` | 1 market, 3 ticks, net cap 1, gross cap 2, 1 order per 2 time units, cooldown 1, sizes up to 2, time 0..2 | `OneEntryPerCrossing`, `CapHeldWhenKnown`, `RateHeld`, `SizerAgreesWithGuard`, `ImplementsHaltSwitch` |
| `positions` | 1 market, 2 passes under way, 2 marks, 2 matches, 1 failed read | `NeverOlder`, `KnownConverges`, `EngineFollows`; the assumptions of `DecisionChecks` |
| `orders` | 1 order and 1 of an earlier run, in 2 markets, 2 cancels, 2 sweeps | `OpenStaysTracked`, `CancelledIsTrue`, `SweepLeavesNothing` |
| `claims` | 2 markets, 2 sweeps under way, interval of 2 | `BookedOnce`, `WonIsTried` |
| `echo` | 1 market, 3 cycles, 3 quotes | `StackedOnlyIfLost`, `StoppedLeavesOnlyLate`, `CycleReturns` |
| `sim` | 5 kinds of order, 3 orders, latency 0 or 2 s, 2 synthetic levels, 2 scripts, 2 starts | `BooksBalance`, `UncrossedBook`, `SupersededSilent` |
| `feed` | 2 markets, 1 valuation kept by the page, 1 quip kept, 4 events, 2 sockets, 1 crash | `ViewFollows`, `PageRecovers`, `DeadViewersLeave` |
| `ops` | MIRA and ECHO, 2 deaths, 2 symbols, 2 timestamps, 2 records in batches of 2, 1 failed write, 1 order | `JournalFaithful`, `OrderlyStopSweeps`, `PricesKeepComing` |
| `signin` | 2 tabs, 2 wallets, 2 sign-ins, 1 call, time 0..2, 1 restart | `OwnForecasts`, `OneSessionPerChallenge` |

Why the bounds are enough to be interesting. Three submissions let one be abandoned, a second
run beside it and a third inherit whatever nonce the two leave; a foreign write is what makes
the chain's count run ahead. Three calls in a lane of one are one that runs, one that waits and one
that overtakes, and four instants outlast every cache; the market is still listed at the third, when a
boundary found at the first has to be posted, and has left the listing at the last. Two rounds and a click let
the timer and the console close the same round with the next one opening during the read; a losing and a winning PnL separate carrying from
paying. Three ticks are the least for an entry, a second tick that re-arms the latch and a third
that enters again while the first order is still out; a size above the cap makes the cap bite;
three instants let a placement leave the rate window and a fill be reported with an old time.
One market is enough in `engine` as the guard keeps everything per market except the rate and the
gross total; the proofs below hold for any number. A pass treats markets separately, so one market
with two passes, two matches (a position that goes from long through flat to short) and a failure
shows every overlap. Two cancels and two sweeps of one order meet in every order, at the pool, in
the queue's memory and in the records; the order of an earlier run is one nothing tracks. Two claim
sweeps are the least that share a claim. A two-sided cycle and the requotes after it need three
quotes, and one fill, counted twice, puts ECHO past half its cap. Four events are a whole
round, or one that is settled after the next has opened; two markets and a page that keeps one valuation show the
cut. Two sockets are one that dies before it opens, while it is open or with the agent, and one that recovers;
each way of losing a socket ends in the same state of the page, so a third meets nothing new. Two deaths are
one child's limit; one order is enough to be sent, to land, to be acknowledged and to be swept in every order
with the stop, and two records are one batch, torn or whole. Two tabs and two wallets are what lets one wallet meet the other's session.

The text of `OneWriteInFlight`, `WithinLimit`, `ResolvedForecastsScored`, `SettlementUsesOwnPnl`,
`NothingSignedAfterKill`, `CooldownHeld` and `FailedReadKeepsPosition` is what documents, comments or
tests promise and the code does not keep. They are in the modules and in no run. To see a
counterexample, list one in the cfg of its module's run: `OneWriteInFlight` in `MCTxQueue.cfg`,
`WithinLimit` in `MCListing.cfg`, `SettlementUsesOwnPnl` in `MCRounds.cfg`, `ResolvedForecastsScored` there with
`Stamped = FALSE`, `NothingSignedAfterKill` and `CooldownHeld` in `MCEngine.cfg` (the latter with caps
of 2), `FailedReadKeepsPosition` in `MCPositions.cfg` with two markets and one pass.

Every property of a run has a mutant in `PROJECT.json`: a plausible bug in a definition
of the model (a dropped guard, a missing wait, a wrong reset) under which the same run finds the
property violated. The operators marked "Mutant of" in the modules are these.

### Fairness

* `TxQueue`: weak fairness of the queue's own steps (`QueueStep`). Chain reads settle because the
  transport times out after 8 s, and a run settles for the queue because its own timer fires.
  Nothing is assumed of the task. With the timer off (`TimeoutOn = FALSE`) the liveness would not
  hold and is not claimed.
* `Listing`: scheduled microtasks run, and every read of the lane settles. For the reads this is an
  assumption on the SDK: the configured `indexerTimeoutMs` is used by nobody (see findings).
* `Rounds`: the driver's interval keeps ticking, the clock reaches a round's close, and reads of
  the outcomes settle. Nobody has to click, trade or forecast.
* `Engine`: an order that waits is signed or refused (the queue's timeouts), and a signed order
  expires. Ticks, polls and fills carry no fairness.
* `Positions`: the interval keeps starting passes, and the reads of a pass settle (transport
  timeout). Reports of fills, matches and unlisting carry none. `KnownConverges` holds once the
  bounded matches and failures are over; `EngineFollows` assumes, in the property itself, that
  passes keep adopting, which moving prices bring about.
* `Claims`: time passes, the timer fires, calls settle and the queue runs what it holds (its timeout);
  a read that may fail does not fail for ever (strong fairness of the successful read).
* `Echo`: the await a cycle stands at settles, one way or the other (transport timeout, or the queue's).
* `Feed`: a connection that was asked for is accepted or lost, frames on a live socket arrive, and the
  page's events and timers fire. Nothing has to be published, and the network may be bad until the
  bounds of sockets are used up.
* `Ops`: timers fire, a start completes, a read of a price ends with an answer or an error.
* `orders`, `sim` and `signin` check safety only and state no fairness.

## 4. Proofs

Every theorem holds for all values of the constants that meet the named assumptions of the
modules: `TxQueueAssumption`, `HuntAssumption`, `RoundsAssumption`, `RiskConfigAssumption`,
`EngineAssumption`, `PositionsAssumption`, `OrdersAssumption`, `ClaimsAssumption`, `DecisionAssumption`,
`EchoAssumption`, `FeedAssumption`, `GateAssumption`, `ListingAssumption`, `StopsAssumption`,
`VenueAssumption`, `ScenarioAssumption`, `SizingAssumption`. They say no more than that limits are naturals, sizes and
holdings integers, an order asked of the venue of at least one contract, latencies naturals, prices and
noise of any sign, sets of markets and orders finite, a quote or a whole contract is not nothing, `None`
is no nonce, the driver is no click, an order of this process none of an earlier one, the scripts
started are scripts that exist, and (`SizingAssumption`) that sizer and guard are configured with the
same caps, which `main.ts` reads from one configuration. TLC evaluates them in every run of their module.

A proof module holds the theorems of one to three components, as the module table says; the names of a
component that is not the module's first carry its own prefix (`FeedInductive`, `OpsSpec`).

**`FoldTheorems`.** What the other modules need of sums and folds. tlapm cannot instantiate the
induction theorems of the library, so `NatSetInduction` states induction over a *set* of naturals
(0 is in it, and with n also n + 1), and each proof names its set. `SumEmpty`, `SumAdd`, `SumInt`, `SumNat`
are about `SumFunctionOnSet`. A fold over a sequence is the end of its run (`IsRun`, `Folding`):
`FoldingType`, `FoldingAppend`, `FoldingTail` and `FoldingConcat` say how it goes on at either end, and
`FoldsExist` with `FoldReached` that the library's `FoldLeft`, which folds over a set of indices by the
highest, reaches the same value. `FoldingWithin` is the invariant of a loop: what each step keeps, the fold
keeps. For sorting, a strict total order of a finite set has a last member (`LastExists`), and the number of
members before a member is a rank: distinct, increasing, and each from 0 on taken (`RanksIncrease`,
`RanksReached`).

**`TxQueueProofs`.** `Inductive` is the conjunction of three parts. `ChainInv`: the line has no
repeats, contains exactly the submitted ids, and only one submission executes, everything before
it being settled and everything after it queued; it is what the promise chain means, and neither
the order nor the single execution is inductive without it. `RunInv`: a run is outstanding only
while its submission awaits it or after the submission has failed. `NonceInv`: the counter stands
one above the nonce of the attempt that is awaited and above every nonce that succeeded, and it
is no higher than the chain's count once that attempt has landed, so a nonce that is handed back
is never one that succeeded. From these follow
`TypeCorrect`, `DistinctNonces`, `NoGap`, `OverlapOnlyAbandoned`, `OneInFlightWithoutTimeout` (with
the timer off the documented "one in flight" does hold) and `RefinesSerialExecutor` (the safety
part of the refinement).

For `Ops` it proves the journal. `JInv` is a conjunction on one journal value, so that it can be
carried through any of its methods: the buffer holds the last records in order, the file none of those and,
until a write fails, all before them; lines never run backwards. `ReplayFaithful` takes the reader through
any such file as a fold, line by line: what it yields is on disk, in order, each record at most once, and
it warns of nothing while no write has failed. `DiedKeeps` is the death: it writes a beginning of the buffer, so a
whole file stays whole but for a piece at its end (`Dead`). From these `JournalAlwaysFaithful`.

MIRA's shutdown has `SweepInv`: an order that is owed and still on the chain is on MIRA's records while it waits
for the viewers, to be swept or missed while it sweeps, and missed when it has closed; `StopSweeps` follows, and
does not need anything of the indexer. `StopInv` says that a MIRA told to stop has its ingester off and no poll
armed, which is what `StopsForGood` needs (a stop is final: no child comes back and no poll begins; `StopIsFinal` is
proved and in no run). `OpsInductive` is all of them together.

**`RoundsProofs`.** `RoundInv` ties every read under way to a round that is closed and every
settlement to a round that has been opened, and says that what a closer considers is all there is
for its round: nothing arrives for a round that is not open. From it: `TypeCorrect`,
`DisplayCorrect`, `ForecastsFrozen`, `RefinesPotLedger` (for any number of closers: money is paid
or carried whole and a round is settled once).

`PotAlwaysConserved` adds the sum: a settlement on record is never overwritten, so each adds its own
earnings once to the sum and once to what is paid or rolls forward (`PotStep`, by `SumAdd`; there are
finitely many settlements because ids are at most `index`).

For `Feed`, `StreamInv`: while the socket is open the page, *once it has folded the frames still on
its wire*, is what the server holds (`Shown`, `Alike`). What the page shows now is in no fixed relation to
the server, so the frames in flight have to be in the invariant; and so has what the page may lack (`Same`: a round
only after a settlement, and by `Told` and `ToldStep` a valuation only when there are more than the cap, as what is
not cut off is always the store's). A frame that arrives takes the fold on at its head
(`FoldingTail`), a publication extends it at its end (`FoldingConcat`), by the frames of the batch the event
becomes; `StepAlike` says that server and page take one event alike, `BatchAlike` a whole batch, and
`AcceptStep` that a greeting makes the page the server's. From these `FeedInductive` and `ViewAlwaysFollows`.

**`EngineProofs`.** `EntryInv`: the number of entries since the latch opened is 1 only while it is
latched. `CapInv`: for a market never ordered in blindly, the chain's position plus what its one
live order can still match stays within the cap; the cap alone is not inductive, as a partial
match leaves a remainder. It also says that such a market has at most one live order.
`FreshInv`: a market that a tick has yet to evaluate has no order of that tick, so an order is
made only once. From these: `TypeCorrect`, `OneEntry`, `CapHolds`, `RefinesHaltSwitch`.

`RateHolds` needs `RateInv`: as long as checks come in order, no order is later than the last check, whatever
is checked next still counts every order it must (the guard prunes its list as it goes, and what it has
dropped was out of every later window: `PruneTwice`), and no window, wherever it ends, has too many.

For `Decision` there is no state, so no invariant: `FloorToGrid`, `LeastOfFive` and `KellyStakeType` say what
the operators return, `SizeWithinLimits` that a size is on the lot grid and within each limit. From
these, for all inputs: `SizedPassesGuard` (the guard's size rules allow what the sizer makes of the same
position), `DecidedIsTradable`, `OfferIsAffordable`. `SizerAgrees` puts both together: in every reachable
position an order the sizer makes of it passes the guard's caps, as the gross exposure is the
market's own plus a natural number (`GrossSplits`, by `SumAdd` and `SumNat`).

**`PositionsProofs`.** `DateInv`: no balance is newer than the chain, and what a pass has read is no
older than what is known as long as no other pass has ended since it began. From it: `TypeCorrect`
and the action property `KnownNeverOlder`.

For `Scenario`, `SupersededAlwaysSilent`: what `cancel()` leaves of the timers is a sequence of timers that
are no script's (`ClearedOthers`, a fold), so the steps armed behind them are the only ones.

`SimInv` is the inductive invariant of the simulation: types, `ClockOK`, the uncrossed book, and until the
claim the ledgers. An order is matched when its timer fires, so the book has to stay uncrossed until that
instant: orders expire as time passes and never come back, which takes a clock that does not go back, which
takes that no timer is passed over (`ClockOK`; `NextExists` names the timer that is next, `AdvanceEndClock` and
`FiredClock` the two ways time moves). From it `NoTimerOverdue`, `ClockNeverBack`.

`BookNeverCrossed` is about one match. The levels are listed best first, each once (`LevelsAre`, from the
ranks). `SweptStep` is the invariant of the walk: while the order has something left, every resting order it
crosses at a level already passed is empty. The trade at a level takes from the *oldest* order at its price,
which need not be the level's own, so the step needs that the older ones at that price come earlier in the
walk and are empty by then. So what is left to rest crosses nothing that is left (`MatchedUncrossed`).

`BooksAlwaysBalance` is an identity of reduced fractions. `Is(a, n, d)` says that the fraction a equals n / d,
whatever it was reduced to; `PlusIs`, `TimesIs`, `OverIs` carry that through the operators, and `PlusWhole`
that a sum which is a whole number is reduced to it. `Valued` is the balance over a common denominator of
average and profit: that form is inductive (`ExtendedValued` for a trade that opens or extends, `NettedAway` for one
that closes or flips), `TradeCost` joins what a trade pays to the tokens it moves, and `WalkLedgers` takes it
through all trades of an order. It is proved for every price, size and sign, over the integers: the code
has doubles, and what rounding does to them is not in the model.

**`OrdersProofs`.** `RecordInv`: what is tracked was acknowledged and is on the chain, what was
acknowledged and may still be matched is tracked, and the one cancel the queue remembers tells the
truth about the pool: `ok` means cancelled, `refused` means over. `CallInv` carries that to the
answers. `SweepInv`: what a sweep has in hand is on the chain, and what it is about to reclaim is over.
`CoverInv`: every order a sweep knew is still to be cancelled, being cancelled, to be reclaimed, among
its failures, or over with nothing in escrow. None of the three properties is inductive without
them, because a cancel's answer is acted on some awaits after the pool gave it; what makes it still
true is that an order only moves forward in the pool (`Forward`). An order acknowledged without its id is in
none of this: the records never had it. From these: `OpenIsTracked`,
`CancelledAnswersAreTrue`, `SweepsLeaveNothing`.

For `Echo`, `RoundsInOrder`: no quote belongs to a cycle still to come, and once the shutdown has begun
the only cycle under way is the one it found. `QuotesCovered`: every quote that rests is still to be
cancelled by the next cycle, by this one or by the sweep, unless its cancel failed or the shutdown's cycle placed
it after the sweep had looked. `LimboInv`: a placement given up may land, but under no later quote. From
these `EchoInductive`, `NoStacking`, `StopLeavesLate`.

**`AccountProofs`.** `BookInv`: a market that is booked was paid out by the queue's one claim and is
done. `TogetherInv`: two sweeps are at one market, or one is at a market already done, only if they
were at it together. From these `ClaimsBookedOnce`.

For `SignIn`, `NonceInv`: a challenge that is still issued has been checked by no delivery and has opened
nothing, and of the two deliveries of a message at most one is past the check; it is what the deletion before
the await buys. `SessionInv`: a session of this life of the server was opened by the owner of its address.
`CallersNamed`: a call at the server names its wallet, so the check against the caller is never passed by
leaving the wallet out. From these `SignInInductive`, `SingleUse`, `ForecastsOwned`.

**`ListingProofs`.** `GateInv`: those who run are counted, a waiter is in the queue or woken and never in
both or twice, and the lane is over its limit only by overtakers. `CallsGood` and `CacheGood` date everything a
call has in hand and everything a cache holds: no older than the cache may serve, and listed only if it had
time left at that moment. `LaneInv`: who is in the lane is at its listing. From these `Inductive`,
`LimitKept`, `AnswersAlwaysFresh`, `BoundariesStay`.

`TypeOK` of `TxQueue`, `Rounds`, `Engine`, `Positions`, `VenueOrders` and `Claims` is proved with these invariants
and is in no run.

Some definitions were changed for the proofs, to the same effect: the alternatives of a CASE in `Listing`
exclude one another now, where the first that held was meant; `Cleared` and the arming of a script in
`Scenario` are a fold and a concatenation; and in `SimVenue` the levels are sorted by rank (`InOrder`), `Consume`
is in closed form, and `Cancel` takes an entry out by its place. The run `sim` has the same states
as before.

Every safety property of every run is proved. Only model-checked: every liveness property and the
liveness of the refinements (fairness is out of the prover's reach), and the scores of `Calibration`, which
TLC evaluates over bounded records.

## 5. Findings

`PROJECT.json` quotes the text each of these contradicts, with its line. The first seven are formulas
of the modules whose counterexamples TLC finds (see section 3).

1. **The queue does not keep one write in flight** (`OneWriteInFlight`, `txqueue.ts:255`). A timeout
   answers the submission and runs the next task while the first is outstanding.
2. **The gate can overrun its limit** (`WithinLimit`, `gate.ts:22`). The slot is freed before the woken
   waiter has run, and the waiter does not look again.
3. **No forecast is ever scored in production** (`ResolvedForecastsScored`, `server.ts:151`). Outcomes
   carry no round id, and the scoring drops outcomes of other rounds.
4. **A round can be settled with the next round's PnL** (`SettlementUsesOwnPnl`, `hunt.ts:161`).
5. **An order can be signed after the kill switch** (`NothingSignedAfterKill`, `main.ts:177`).
6. **The cooldown can be cut short** (`CooldownHeld`, `risk.ts:96`). A fill reported late, with its
   older time, overwrites a newer one.
7. **A failed read wipes a position** (`FailedReadKeepsPosition`, `dreamdex.ts:848`). `positions()` leaves
   the market out, and the reconciler drops it as a ghost.

Seen while modelling. *Rounds*: settlements journaled twice (`server.ts:208`); a manual close that takes
another path than the driver (`server.ts:201`); a due round settled before its markets resolve
(`roundDriver.ts:54`). *Decision path*: placements assumed to be in time order (`risk.ts:206`); matches
reported by the receipt and again by the poll (`sdkClient.ts:228`); a guard the reconciler never corrects
(`main.ts:125`); an engine copy corrected only by the next adoption (`reconciler.ts:113`); positions
dropped when their market is no longer listed (`dreamdex.ts:840`). *Orders and claims*: a cancel or a claim
that failed once is never sent again (`dreamdex.ts:619`, `914`); an order accepted without its id is open and on
no record, and its cancel answers ALREADY_FILLED (`dreamdex.ts:579`); claims counted by every sweep that waited
(`claim.ts:92`); an order that timed out and landed is tracked by nobody (`dreamdex.ts:586`). *ECHO*: fills
counted twice (`echoMain.ts:63`), ids forgotten whose cancel failed (`echo.ts:300`), a cycle that goes on
placing after the shutdown's sweep (`echoMain.ts:126`). *Simulation*: a POST_ONLY order that crosses rests
at its crossing price (`simulated.ts:488`), resting orders reduced without a fill (`simulated.ts:501`), PnL
and cash that disagree after a claim (`simulated.ts:700`), an outcome dated by the first look
(`simulated.ts:113`), what a replaced script leaves behind (`scenarios.ts:185`). *Feed*: nothing publishes
fills or quotes to the store, so tape and curve stay empty and MIRROR has no trade to copy (`store.ts:158`);
a budget for slow viewers that never triggers (`ws.ts:216`); a settlement that takes whatever round is on show
off the page, an open one too (`store.ts:101` of the web application); valuations cut off on the page only, and
only from the first that arrives after a snapshot (`store.ts:91` there). *Operations*: a shutdown that waits for viewers before it cancels
(`boot.ts:148`), an agent without markets that idles for good (`main.ts:83`), a torn line that takes the
next record with it (`journal.ts:129`), ticks that place after the sweep (`main.ts:259`). *Sign-in*: a console
token the server does not read (`server.ts:297`), a page that shows a lost session (`page.tsx:250`), a
sign-in answered after Disconnect (`page.tsx:243`), forecasts over the WebSocket (`server.ts:113`).
*Listings*: an older listing that replaces a newer (`dreamdex.ts:399`), a timeout nobody uses
(`config.ts:40`). *Calibration*: the three parts of the Brier score add up only when a bin holds one
confidence (`calibration.ts:62`).

## 6. Plan and what is not modelled

Done: everything that keeps state, and the proof of every safety invariant and action property of the runs.
Nothing of the plan is open; what is left is to follow the code as it changes.

Not modelled: the volatility estimator and the option formulas, which are floating-point arithmetic without
control (`Decision` takes their answers as inputs); the decoding of units and the parsing of symbols at
the boundary; which line the persona says; the routes that only read; what the React pages draw; the
tabling of metrics and health reports; one-shot scripts against a live network. Left out of
modelled components because nothing in production calls it: the guard's session-loss stop,
`setMiraPnl`, `panic`, the `reset` methods, `signOut`, and `stop` followed by `start` of the ingester. The
backoff of a failing poll only sets when the next one comes, and time is not modelled there. A `RUN_ID` fixed in
the environment (`config.ts:277`) would make a restarted agent append to the file of the one before, with its
numbers starting again behind a torn line of that one's death; the journal is modelled as one process's, as it
is without that variable.
