# A verification of the BYX trading research code

This directory holds TLA+ models of the `adaptive_trader` package
(`src/src/adaptive_trader/`), the TLC configurations that check them on small
instances, and theorems about them that TLAPS checks. Paths below are relative
to `src/src/adaptive_trader/` unless they start with `src/`.

The program never sends an order. It records public Binance data (Spot and
USD-M Futures), rebuilds local order books from it, stores the recordings in
campaigns, downloads candle histories, and simulates strategies, orders and risk
control on them; experiments then select and judge strategies. What can be wrong
is therefore *what it believes*: a book that differs from the exchange's, a fill
that could not have happened, a risk state that approves when it should block, a
recording that claims a completeness it does not have, a verdict that has seen
the data it is tested on.

## 1. Inventory

| Component | State it keeps | Operations | Meets | Hard behaviour | Correct when |
|---|---|---|---|---|---|
| **Local order book** `microstructure/order_book.py`, `sequence.py` | status, update id, two sides, buffer, dedup set | `buffer_update`, `apply_update`, `apply_snapshot`, `begin_resync`, `mark_stale` | recorders, foundation service | lost, repeated, reordered updates; snapshots older or newer than the buffer | what it shows is a true state of the exchange; no false desynchronization |
| **USD-M recorder** `microstructure/live.py` (routed), `connection.py`, `routing.py` | per connection an attempt; merge loop: queue, snapshot task | connect, receive, drop, batch, snapshot, resync, retry, finish | exchange, book, storage, monitors | tasks of one event loop, cancellation, reconnects, a full queue | always recovers or gives up |
| **Spot recorder** `microstructure/live.py` (one connection) | the same in one loop | receive, inline snapshot, resync | the same | snapshot awaited inside the receive loop | the same |
| **Liveness and runtime health** `microstructure/health.py`, `runtime_health.py`, `connection.py` | per stream: state, last event, incident; counters, downtime | connected, observed, evaluate, restarted, finalize | recorder | evaluations that race late events; two connections, one downtime | every incident ends in one true verdict; counters add up |
| **Session storage and recovery** `microstructure/storage.py`, `recovery.py` | open part, event files, manifest | open, append, rotate, finalize, recover, inspect | recorder, campaign | a crash between rename and manifest | no claim of completeness without it |
| **Campaign and admission** `microstructure/campaign.py`, `scientific_admission.py`, `cli/main.py`, `src/scripts/continuous_capture.sh` | list of sessions, seconds captured | record, admit, resume, stop | storage | a kill anywhere, a restart loop | whole sessions only, each once, none lost |
| **Features and alpha** `microstructure/features.py`, `alpha.py`, `foundation.py`, ... | rolling windows, last signal | trade, book, features, decide | book | warm-up, gaps, events at equal times | features and signals use the past only |
| **Elastic exit** `microstructure/elastic_exit.py`, `multi_minute_runner.py`, `execution/elastic.py` | peak, deadline, pending reversal | observe, submit | venue | timers, an exit order that fails | exits for a reason, in time, once |
| **Intraday edge discovery** `research/microstructure_edge_*.py`, `executable_forward_labels.py` | anchors, labels, tables | sample, label, partition, tabulate | features, elastic exit | labels that look ahead, cut points | tables add up, holdout unseen |
| **Multi-day execution economics** `research/multi_day_execution*.py` | eligible sessions, episodes | admit, qualify, weigh, answer | campaign | duplicates, a consumed campaign | a campaign is new; an answer is earned |
| **Execution venue** `execution/engine.py`, `models.py`, `queue.py`, `ledger.py` | orders, queue, two ledgers | `submit`, `execute_policy`, `process_aggressive_trade`, `request_cancel`, `advance` | book, governor, elastic exit | fills racing cancels and expiry; a ledger that raises in a walk | quantities reconcile, each order ends once |
| **Risk governor** `execution/risk.py` | state, streak, daily result, gaps, cooldown, day | `record_trade`, `observe_slippage`, `observe_data_gap`, `kill`, `reset_boundary` | venue, scenarios | any order of reports over day changes | approves only when it should |
| **Futures backtest** `futures/engine.py`, `accounting.py`, `risk.py` | account, position, pending signal, day limits | one candle | analyzers | order of events within a candle | money reconciles, no lookahead |
| **Spot backtest** `backtest/engine.py`, `risk/manager.py`, `execution/backtest.py` | portfolio, pending entry and exit | one candle | analyzers | the same, partial exits | the same |
| **Strategies** `strategy/`, `futures/pullback.py` | setup, persistence | one candle | backtests | setups that outlive their reason | an entry answers a dip in a trend |
| **Trend following** `research/trend_following_engine.py`, `..._risk.py`, `strategy/trend_following.py` | position, waiting action, defensive state | hour, day close | histories | hysteresis of the defensive state | exposure follows the log of trades |
| **Market data clients, SQLite candles** `market_data/`, `storage/sqlite.py` | candle table, page cursor, retries | download, retry, abort | experiments | pages, an open last candle, a clock that moves | the table is true |
| **Research experiments, parameter research** `research/*_experiment.py`, `splits.py`, `service.py`, ... | catalog, lock, selection, frozen version | prepare, develop, lock, validate, publish, freeze | histories, backtests | files and table that change under a run | validation is blind, verdicts need both periods |
| **Futures research and reports** `futures/research.py`, `temporal_robustness.py`, `real_validation.py` | studies | fold, break down, classify | backtests | windows, warm-up, concentration | breakdowns add up, classes mean what they say |
| **Execution reports, research reports, domain, settings, CLI, panel** | none that outlives a call | rendering, arguments | all | - | - |

`PROJECT.json` lists every component with what is modelled of it, and the
hazards at their lines with the properties that cover them.

## 2. Modules

```
LocalOrderBook ── OrderBookFeed ─┬──────────────── MCOrderBook      run OrderBook
                  implements     ├─ FuturesRecorder ─ MCRecorder    run Recorder
                  MirrorBook     └─ SpotRecorder ─ MCSpotRecorder   run SpotRecorder
                                    OrderBookProofs is about all three
LivenessMonitor ── CaptureHealth ─── MCCaptureHealth    run CaptureHealth    ┐
SessionStore ───── CaptureCampaign ─ MCCaptureCampaign  run CaptureCampaign  ┴ CaptureProofs
ExecutionVenue ───────────────────── MCVenue            run Venue            ┐
RiskGovernor                                            run Governor         ┴ ExecutionProofs,
                                                        also about ElasticExit
FuturesBacktest                                         run FuturesBacktest    FuturesBacktestProofs
SpotBacktest ─────────────────────── MCSpotBacktest     run SpotBacktest       SpotBacktestProofs
DefensiveRisk ──── TrendFollowing ── MCTrendFollowing   run TrendFollowing     TrendFollowingProofs
PullbackContinuation ─────────────── MCPullback         run Pullback           PullbackProofs
CandleHistory ──── ResearchProtocol ─┐
ResearchData ───── ResearchWindows ──┤
ResearchStatistics ┬ ResearchVerdicts┤
                   ├ ResearchTemporal┤
                   ├ IntradayAlpha ──┼─ Research ─ MCResearch  run Research    ResearchProofs
ElasticExit ───────┼ EdgeLabels ─────┤
                   └ ExecutionEconomics
```

Operators whose comment starts with "Mutant of" are not part of any
specification: they are bugs the code could plausibly have, and each property
is known to catch the one `PROJECT.json` pairs it with.

### Order book
**LocalOrderBook** holds the class `LocalOrderBook` and the two policies of
`sequence.py` as operators from the book before a call to the book after it. The
market and `retained_levels` are fields of the book, as in the code; its counters
and the read-only liquidity views are left out. A side is a function from price
levels to quantities with 0 for "no level"; a diff sets quantities of some
levels. Statuses, the early returns of each method, the bootstrap rule
(`awaiting`), the six gap classes, which rejections are ignored and which
invalidate, trimming, the sorted insertion into the buffer and the drain of the
buffer by `apply_snapshot` are as in the code. `seen` holds the update itself in
place of its `event_id`; `copy` tells two deliveries of one update apart, since a
parsed delivery gets an id of its own.

**OrderBookFeed** puts the book under the worst network: anything the exchange
published can be delivered late, again, reordered or never, a snapshot can answer
with any past state, and the methods are called in any order. What holds here
holds for every caller. The exchange is external; `MarketAt` is its true book at
each update id, one depth update covers everything since the previous one.

**MirrorBook** is what a book promises: it shows nothing, or levels of the
exchange's book at one update id the exchange has reached, and all of them unless
something trims them. `OrderBookFeed` and both recorders implement it under
`view <- ShownView`: it is a theorem about all three, and TLC checks it on the run of
the USD-M recorder, whose tasks and drops are what could break it; on the feed
`BookConsistent` already says as much.

### Recorders and their health
**FuturesRecorder** extends OrderBookFeed: the exchange and the book are those of the
feed, but the book is called only by what follows. `_route_worker` (Connect, Break,
Receive, and Eof: an exception it does not catch, which ends it), the merge loop of
the routed capture with `_apply_routed_depth` and the routed snapshot handling
(Turn), the REST request (Answer), and the exchange. Everything runs on one asyncio
loop, so a turn of the merge loop between two awaits is one action. The await inside
a turn (the end of a canceled task) lets the worker add to the queue for the next
turn only. The MARKET connection shares the queue, so an update may find it full at
any time; the connection itself, the metrics and the stop are in CaptureHealth.

**SpotRecorder** puts the same book and exchange under `_run_single_connection` and
`_bootstrap_book`, one coroutine whose `phase` is the await it is in. BOOTSTRAP receives and buffers while the
snapshot is on its way (`Buffer`, `Bootstrapped`), STREAM applies update by update
(`Stream`), RESYNC awaits a snapshot without receiving (`Resynced`), every
exception the capture survives is a `Disconnect`, and one it does not is `Eof`.
The book survives a reconnect as it is. `Serve` is the instant the exchange
answers; the answer may arrive much later.

**LivenessMonitor** holds `StreamLivenessMonitor` as operators;
**CaptureHealth** runs it inside the routed capture: a worker per connection, the
bounded queue, the merge loop that hands events to the monitor, to the
`ConnectionSupervisor` and to the runtime counters, and the end of the capture at its
deadline. The loop is modelled from await to await: it waits for the queue (`Take`,
`TimedOut`), handles its batch item by item (`Handle`), and, where a depth message
invalidates the book, awaits the end of the snapshot task in the middle of the batch
(`CANCELING`, `Canceled`); only there and while it closes does time pass and do the
workers go on. At the top of the loop it evaluates the streams before it drains the
queue (`Evaluate`), as the code does, so what came in during that await is not seen yet.
Which message invalidates the book is left open (any of the streams in `Depth`). History
variables remember when a stream really delivered, how long a connection was really
broken and which part of that the shared start of downtime hides, so that the verdicts
can be compared with what happened.

### Sessions and campaigns
**SessionStore** is the directory of one recording: events go to a part, the part
is closed, renamed and listed, the manifest is written last; every write is an
action. **CaptureCampaign** is the command `campaign-record` with
`continuous_capture.sh` around it: sessions, their admission, the campaign
manifest, resuming, the stop signal. The process may be killed between any two
steps, and files of a finished session may be damaged; only the disk survives.

### Simulation
**ExecutionVenue**: `SimulatedOrderBookVenue` with both ledgers and the queue
approximation, one market and one symbol. The arrival book of an order is reduced
to what the order can use: whether it crosses, the quantities inside its limit and
slippage cap, and what is queued at its limit. A unit of quantity costs a unit of
cash; fees, funding and the event list are left out. `CallExecutePolicy` is the
maker-then-taker path of `execute_policy`; its taker path is `CallSubmit` with a
MARKETABLE_LIMIT order. A `ValueError` of a ledger leaves the venue in the middle
of the walk, as in the code, and ends the simulation (`raised`).

**RiskGovernor**: `PortfolioRiskGovernor` with integer time. The depth fraction of
`approve_liquidity` is read-only and left out.

**FuturesBacktest** and **SpotBacktest**: one action per candle, and in it one
operator for each step the engine takes, in its order: the day rolls, funding is
settled, the pending order is filled, the position is liquidated, stopped,
trailed, partly or wholly closed, and the analyzer decides. What an analyzer
returns is chosen freely among the signals its contract allows, so the accounts
are checked under every strategy. The trace of SpotBacktest has a row for every
decision, those included that the engine appends as PENDING while an earlier order
waits (`NoOrder`), which nothing settles afterwards. Money is in integers and a rate is an amount
per unit of quantity; the properties are about sums of these and do not depend on
how a rate is rounded.

**TrendFollowing** with **DefensiveRisk**: hours settle funding and liquidation
and execute the waiting action, the close of the day decides; a position open at the end
of the last day is closed at its last price, or at the price it was entered for if that
day has no candles (`FinalPrice`); the defensive state machine reduces the risk after a
streak of losses or a liquidation.

**PullbackContinuation**: the core with both analyzers. A candle is what the core
derives from it: the distances of close and short average from the long average
in units of ATR, whether the regime is a trend, whether volume and volatility
pass. Exits by stop and target are those of the engines and may come at any
candle.

### Research
**CandleHistory**: the candle table and the two downloaders, page by page, with
retries, aborts and a clock that moves while a command runs, so that the last
candle of a page may still be open. **ResearchProtocol** runs an experiment on
that table while downloads go on and somebody edits the catalog or the lock:
fingerprint, develop, select, lock, validate, compare, publish; and the freezes of
a Spot candidate, each a look for the files of its version and then one write per file,
without a lock between them: several run at once, on one version too, and each may die
anywhere.

The operators of an experiment are pure; each module states what they promise of
every input, as an operator over one input:
- **ResearchData**: validation, integrity and daily aggregation of a history with
  missing and open hours. **ResearchWindows**: periods, walk-forward folds of every
  command with the refusals of a segment that is empty or that the warm-up uses up, of
  missing marks and of missing funding, calendar windows, segments with their warm-up.
- **ResearchStatistics**: medians, concentration, bootstrap status, funnels,
  ablations. **ResearchVerdicts**: what each of the six experiments selects, locks and
  concludes. **ResearchTemporal**: the temporal diagnostics of Futures.
- **IntradayAlpha**: feature engine, gate, both V0 models, each with its own limits
  (the short one is no negation of the long one), their persistence, coordinator, and a
  pass of the foundation service over a session.
  **ElasticExit**: both controllers and the adapter. **EdgeLabels**: anchors, round
  trips, excursions, the elastic comparison, the partition and the tables, of a USD-M
  session. The excursions are the best and the worst value the position could have been
  left for; what the code charges on them differs from what it charges on the label (§5,
  23).
  **ExecutionEconomics**: which sessions a campaign may use, what it suffices for,
  episodes and the answer.

**Research** composes them: it is the protocol over the table and, in the same
initial state, the choice of one task (`Undertake`) and then of one input
(`Prepare`, `Choose`, `Assess`, `Diagnose`, `Describe`, `Measure`, `Trace`,
`Replay`, `Follow`, `Label`, `Tabulate`, `Qualify`, `Weigh`, `Separate`). Each pure
operator reads its input alone, so one state per input is enough, and TLC
examines every input of the sets that `MCResearch` names. These are evaluations
of one state each, not behaviours. What they show of `VerdictsAreSound` is bounded by
those sets; `DataIsHonest` is also proved, for every horizon and history, and so is what
`VerdictsAreSound` says of exits, labels and answers (§4).

## 3. What TLC checks

Every run passes; every property has a mutant of the code that violates it.

| Run | States | Instance | Shows |
|---|---|---|---|
| OrderBook | 47 487 | a Spot book, a Futures book, a Futures book that keeps one level; 4 prices, 4 states of the exchange of which the last has no asks, all splits into updates, two deliveries of each, any call order | `BookConsistent`: no wrong level, all levels if nothing trims, usable when synchronized. `CompleteBufferAligns`: a snapshot with a gapless buffer always aligns. `OnlySnapshotsRestore` |
| Recorder | 70 687 | 1 reconnect and snapshot retry, 2 faults, 1 drop, 4 states of the exchange | `RecorderConsistent`: no touched book without a recovery under way, a counted gap is a loss. `MirrorSpec`: it implements MirrorBook. `EndsSynchronized`: it ends in sync with the exchange, or its worker ended, or its retries ran out |
| SpotRecorder | 8 128 | 2 reconnects, 3 faults | `StreamConsistent`: the receive loop works on a synchronized book that is true at its id, or the exchange's book is one-sided. `StreamEndsSynchronized`: it ends in sync or gave up, or the exchange's book is one-sided |
| CaptureHealth | 6 555 396 | 3 streams on 2 connections, one of them depth, queue of 2, 2 events, 2 broken connections, 1 reconnect, instants 0..3, a deadline at 2 | `IncidentsAccounted`: each incident is open, recovered or judged at the end. `VerdictsAreTrue`: an invented silence is taken back, none is held against the session, none overlooked. `CountersAddUp`: events, and exactly which downtime is counted |
| CaptureCampaign | 1 353 916 | 2 campaigns, 3 sessions of 2 events, parts of 2 events, 1 kill, 1 damaged session | `ManifestSealsSession`. `CampaignIsTrue`: exactly the whole clean sessions, once and in order, no second beyond them. `CampaignKeepsFaith`: no step drops a session, rewrites a completed campaign or reports a success that is not on the disk. `StopEnds` |
| Venue | 2 732 070 | Spot, and Futures with REJECT_REMAINDER; 2 orders of all types, quantities 1 and 3, cash 2, books with and without liquidity, times 0..2 | `QuantitiesReconcile`: orders, queue and fills agree, FIFO. `PositionMatchesFills`. `EveryOrderEnds`. `EndsAreFinal`: once and for good, a cancel is kept |
| Governor | 195 318 | limits 2, streak 2, days of 3, 7 instants | `GateConsistent`: ACTIVE means clean, a cooldown has a deadline. `OnlyNewDayReactivates` |
| FuturesBacktest | 109 925 | 8 candles, 3 a day, prices 6 and 8 with spikes of 5, latency 2, funding 0 or 1 | `BooksReconcile`: wallet, trades and funding. `CandleIsHonest`: no lookahead, liquidation before stops. `EntriesRespectRisk`: pause after a liquidation, limits of a day |
| SpotBacktest | 145 471 | 8 candles, 4 a day, 3 prices with spikes, latency 2, partial take profit or strategy exit | `BooksReconcile`: holdings and cash over partial exits. `TraceIsHonest`: executed rows, waiting orders and the rows that stay PENDING. `ProtectionHolds`: a stop is never lowered, limits of a day |
| TrendFollowing | 1 399 087 | 8 days; futures both sides, futures short only, spot | `BooksReconcile`. `RiskFollowsTheLog`: the defensive mode is what the log of trades says. `DayIsHonest`: executed on the next day, liquidation first |
| Pullback | 222 443 | 8 candles, persistence 2, setups of 2 or 3 candles | `SetupsConsistent`: expiry, one side. `SetupNeedsTrend`. `EntryAnswersDip`: across positions and exits |
| Research | 645 524 | 3 candles, pages of 2, 1 retry, 2 commands, 1 edit, 2 freezes; every history of 6 hours; the inputs of `MCResearch` | `HistoryIsTrue`: what is stored as closed is final, and a command that succeeded left no hole. `ResearchIsBlind`: in the trend experiment validation stays unseen until the choice is locked (the others read both periods at once), only what was chosen is validated, nothing is published after a disturbance that was seen, what was read is final and unbroken. `DataIsHonest`: the promises of ResearchData and ResearchWindows. `VerdictsAreSound`: daily candles and the promises of the other pure modules. `KeptForGood`: what is stored stays, and a frozen version once no freeze is writing it. `DownloadsEnd` |

### Why the bounds are enough
The book: misalignment, gaps, overlap, repetition and regress all need two or
three consecutive updates around one snapshot id; three updates with every split
give every relation between them, on four prices a level appears, vanishes,
changes its quantity and changes side, and one retained level is enough to trim.
The code asks for at least 20 retained levels: the number matters only in that it
is smaller than what the exchange lists. The recorders: with two faults a
connection can fail for good, fail while a snapshot runs and fail after one; one
drop desynchronizes a live book. Capture health: two streams on one connection
and one on the other give related and unrelated streams; two breaks overlap or
follow each other; four instants separate first event, silence, an await and the verdict,
and the deadline comes before the last of them, so that a capture ends with the loop
late.
The campaign: a session of two events fills exactly one part or leaves one open;
a kill in each of its phases leads to the restart that must find what is there;
three sessions are one before, one cut short and one after; one kill and one
damage are independent, as each leads to one decision at the next start.
The venue: two orders are the fewest that share a ledger, a queue of one unit
ahead and quantity 3 give partial and full fills, three instants separate expiry,
cancel request and cancel effect. The governor: over two days and the start of a
third, with streak and loss limits reachable within one. The backtests: eight
candles hold an entry with its latency, a partial and a whole exit, a second
entry, a change of day and a pause; prices with a spike reach stop, target and
liquidation in one candle. Trend following: eight days are enough for three
losses, the defensive mode and the way out of it. The pullback: eight candles hold
a trend, a setup that expires, a second one that enters, and an exit. Research:
three candles are a full page and a last one with a single candle, of which one
may be open; two commands are a download and its repetition or an overlap; two
freezes race on one version, overlap in any order of their writes and die in between.
The entries of a day in the futures backtest: `MaxEntries = 2` hardly binds with a
latency of 2 and three candles a day. Evidence is one variant that every experiment
approves, changed in at most two respects each to the other side of a threshold;
thresholds of the code are kept, except minimum samples that are named where they
are smaller.

### Deadlock
OrderBook and Governor check it. The others do not, because the system really
stops: the exchange stops at `MaxId` and a recorder in sync with it waits; a
capture is over at its deadline; a campaign process that succeeded is not started
again; a raised ledger ends a simulation and ended orders leave nothing to do; a
backtest ends with its last candle, a strategy with the last candle it is fed, a
research command with its result.

### Fairness
*Recorder, SpotRecorder.* The event loop runs every task that can run: the worker
connects (its backoff ends) and receives what is on the wire, the merge loop takes
its turn whenever the queue holds something or the snapshot task is done, and a
request ends because it has a timeout. Nothing is assumed of the exchange, of
faults or of drops. Weak fairness is enough, as each of these stays enabled until
it is taken. The fairness of `Turn` is written with `TurnReady`, which is when
`Turn` is enabled, in place of `WF_recorderVars`, because evaluating ENABLED of a turn
costs TLC more than the rest of the run. The coroutine of the Spot recorder takes
each of its steps when the await it is in is over; `Buffer` needs no fairness of
its own. *CaptureCampaign*: the process goes on between kills (`WF_vars(Process)`);
nothing is assumed of kills, of damage or of a new start. *Research*: the running
command takes its next turn (`Turn`), since every request has a timeout and
retries are bounded; nothing is assumed of the clock or of other commands.

## 4. What is proved

Each theorem is for all values of the constants. What it assumes of them is the
named assumption of its module, which says what kind of value each constant has:
counts and bounds are naturals, prices positive integers, the constant sets hold
records of the right shape. A few say more: the book of the exchange at each id is
a ladder, and one copy of each message arrives (`FeedAssumption`,
`RecorderAssumption`); a file that is absent or torn holds no campaign
(`StoreAssumption`, `CampaignAssumption`); a cost is less than every price in the
futures backtest and in trend following, as in the code it is a fraction of the price:
the settings of the latter refuse a spread and slippage that reach 10000 bps
(`FuturesAssumption`, `TrendAssumption`). TLC evaluates every assumption on the runs. A hypothesis a
theorem states beyond these is explained below.

None of the invariants the runs check is inductive as it stands. Each module below
defines the inductive one and lays the proof out as one step per action of Next.
The library's induction theorems take an operator as a parameter, which the
installed provers cannot instantiate; where a walk over a sequence or a sum is a
recursive function, the proofs show that it is well defined and argue by the least
counterexample (`LeastElement`, `LeastNatural`).

**OrderBookProofs**, the book: `TypeCorrect`, `NoPhantom`, `Mirrors`,
`UsableWhenSynchronized`, `FailsClosed`, `NeverRegresses`, `BookIsConsistent`,
`SnapshotsRestore`, `CompleteAligns`, `ImplementsMirror`.
- *Argument.* That the book is true after a diff depends on what is in the buffer
  and on the exchange. `IInv` adds that published ranges are consecutive parts of
  the exchange's history (`ExchangeOK`), that everything in the buffer and the dedup
  set was published, and that the book is true at its id (`Good`).
- *Key step.* `UpdateMeaning`: a diff over `(p, n]` applied to a ladder that is
  true at any id between p and n yields the true ladder at n. `AcceptedCovers`:
  what either policy accepts does cover the book's id. Together
  `ApplySequencedGood`: one sequenced update preserves `Good`.
- *The drain.* `apply_snapshot` walks the buffer: `DrainRunDef`, and `DrainGood`,
  each prefix preserves `Good`.
- *No false alarm.* `CompleteAligns` needs to know in which order the walk meets the
  updates. `FullInv` adds that published ranges form a chain and that the buffer is
  sorted; along the drain the book then stands at the end of the last update that
  lies before the walk, or still at the snapshot.

**OrderBookProofs**, the recorder: `RecorderIsConsistent`,
`RecorderImplementsMirror`. FuturesRecorder extends the feed, so the book's
lemmas hold for the recorder's calls. `RecorderInv` adds the types of the tasks
(`RecorderType`), what the merge loop holds between two turns (`Fit`), that a
recovery which is needed has been begun (`Begun`, `Asked`), and `Lossless`: as long
as there were no faults and no drops there is an id up to which everything published
was handled, and everything after it waits in the queue and on the wire, in order. A
gap can therefore be counted only after a loss.

**OrderBookProofs**, the Spot recorder: `StreamIsConsistent`,
`StreamImplementsMirror`. It repeats nothing of the book. `StreamInv` adds the types of
the coroutine and `StreamBook`: a book that waits for the snapshot of a resync has an
empty buffer, as nothing is received meanwhile, so its drain is empty and the snapshot
decides alone (`SnapshotAlone`); and the book under the receive loop is synchronized unless the exchange's
own is one-sided. Snapshots here are of a finite depth: `BestKept` shows that trimming
keeps the best level of a side, hence `TrimUsable`.

**PullbackProofs**: `TypeCorrect`, `SetupsExpire`, `OneSide`, `SetupsAreConsistent`,
`SetupsNeedTrend`, `EntriesAnswerDips`.
- `IInv` adds the position of the candle (`index < fed`), without which the age of a
  setup is unbounded. `OneSide` rests on `OneFoundation`: the averages stand in one
  order only, so a candle can carry the foundation of one side.
- `TrendInv` relates the persistence counters to the candles since the averages took
  their side, `DipInv` an active setup to the dip it was created from.
- `EntriesAnswerDips` assumes `SpotRegimeExit => market = "FUTURES"`: with the regime
  exit on Spot it is false (§5, 8).

**FuturesBacktestProofs**: `BooksAreReconciled`, `CandlesAreHonest`,
`EntriesRespectLimits`. A candle is a chain of steps on one record (roll the day,
funding, entry, exits, decision), and each step has a lemma: what it keeps, and that
it keeps `AccountOK`, the books with the types and the plan of the open position.
`EntriesRespectLimits` assumes `DailyLossPercent <= 100`: the code does not compare
the loss on a day that starts with nothing or in debt, and only a limit that is a
percentage of at most 100 then holds all the same.

**SpotBacktestProofs**: `TracesAreHonest`, `BooksAreReconciled`, `CashStaysPositive`,
`ProtectionIsKept`.
- *Argument.* `IInv` has four parts: the order that waits is due once, at its candle,
  and fits the position (`WaitingOK`); the trace tells what was executed and what waits
  (`TraceOK`); holdings and cash follow from the trades (`Account`); no sale the
  position can make costs more than it brings in (`Solvent`). The relation `Sound`
  between the state before and after is carried through the steps of a candle.
- *Hypotheses.* `BooksAreReconciled` assumes `OneWayOut`: no configuration has both
  partial profits and strategy exits. Without it the property is false (§5, 7).
  `CashStaysPositive` does without it, but both assume `CostsAreCovered`: a unit
  sold at a price of the market, or at a stop below one, brings in more than it
  costs. In the code a cost is a fraction of the price; in the model it is an amount
  per unit, so this must be said. The other two theorems assume neither.

**ExecutionProofs**, the venue: `VenueReconciles`, `PositionIsTheFills`, `NoOrderStuck`,
`EndsStay`.
- `IInv`: the clock is bounded, the venue is `Sound` (`Reconciled`, the quantities of
  each order and ledger add up; `QueueSound`, what an order in the queue waited for
  is what was traded before it) and no order is left ACKNOWLEDGED between two calls
  (`Standing`), which is what makes an order's end depend on its deadline alone.
- Each handler walks the orders, the book or the queue, and stops in the middle when a
  ledger raises; the lemmas are about every prefix of the walk, so the theorems
  hold after a failed call too. `Follows`, the action property between two states of
  the venue, is transitive and so holds over a whole walk.

**ExecutionProofs**, the governor: `GovernorTypes`, `CleanWhenActive`, `CooldownEnds`,
`GateIsConsistent`, `ReactivatesByDay`. The types and the two invariants are inductive
together, for any limits, cooldown and day length.

**ExecutionProofs**, the elastic exit: `ExitsAlwaysForAReason`, `ExitsAlwaysTimely`,
`ElasticAlwaysLeavesFirst`, `OneExitOrderAlways`, for any sequence of observations.
- A course is a recursive function over the observations; `Courses` shows that it is well
  defined, and `Walks` that every state of it is as it should be: a first one that is not
  would follow one that is.
- What a controller remembers is stated from the observations alone (`Tracks`): its peak
  is the greatest result since it was armed, its deadline counts from the observation
  that reached it, and a pending reversal began with the run of observations against the
  position that is not over yet. `Outcome` then says for which reason, of those that
  hold at an observation, each controller leaves (`ElasticStep`, `RunnerStep`).
- The first three assume observations in order of time (`InTime`). `ElasticAlwaysLeavesFirst`
  compares with a runner that may hold for 1000 and so assumes that the market is not shown
  for longer: a runner that leaves because its time is up may well leave first.
  `OneExitOrderAlways` assumes nothing of the times.

**TrendFollowingProofs**: `TrendBooksReconcile`, `StreaksReduceRisk`, `RiskIsTheLog`,
`DaysAreHonest`.
- The books are sums over the log of trades: `RealizedDef` and `RealizedAppended` show that
  the running equity is well defined and grows by one trade. `Account` is what every
  step of an hour keeps: types, the checks the risk state makes of itself, the wallet as
  what the log and the open position make of the capital (`Booked`), and how the risk
  state follows the log.
- `Streak` says that in normal mode the counted losses are the last trades of the log and
  the remembered equity is the one before them. `Followed` is what makes three losses at
  full risk impossible to overlook: the mode a position was entered in and the number of
  losses at the end of the log are related through its whole life.
- `RiskIsTheLog` assumes, inside the box, `LiquidationsLose`: no liquidated trade of the
  log made money. A liquidation outside a losing streak is taken for the first loss of
  one, and funding that was received before could in principle have paid for it. TLC checks `RiskFollowsTheLog` without the hypothesis on its instance.
- `DayInv` adds `Timely`: a waiting decision is the one of the day before, so a day
  executes it or drops it.

**CaptureProofs**, the health of a capture: `IncidentsStayAccounted`, `VerdictsStayTrue`,
`CountersStayRight`.
- `HealthInv` says of the monitor between two calls which states of a stream go with an
  open incident (`Watching`, `Opened`) and which events the batch and the queue still owe
  it (`Owed`), and of the counters what was received, processed, dropped and waits
  (`QueueOK`, `NothingLostUncounted`). One lemma per call of the monitor keeps them, and
  the loop hands it one item at a time.
- `Owed` is why an invented incident is taken back: the last message a stream delivered is
  the one the monitor knows or is still in the batch or the queue, in order. A capture
  closes with both empty only, so what is judged at its end is what was delivered.
- `DowntimeOK`: the shared start of downtime is set exactly while no connection has come up
  since the last break, so what is charged is all the broken time but what `masked` counts.

**CaptureProofs**, the campaign: `ManifestIsTheSeal`, `CampaignTrue`, `FaithKept`.
- `SealInv` adds to the first property what the running writer knows (`WriterInv`):
  its session has no whole manifest yet, as many event files as it has counted, and
  no part left once it is closed. `OneSession` reduces a step to the one session it
  touches, and `NextSeals` shows that only the steps of the writer, the recovery and
  the kill touch the store.
- `CampaignInv` adds what the campaign file lists (`ListedInv`) and what the running
  process has in memory at each of its program points (`ProcessInv`). The seconds of
  a campaign are a sum over its sessions.

**ResearchProofs**, the table and the protocol: `ClosedFinal`, `NothingIsUnlearned`, `ReadDataFinal`,
`FrozenFinal`, `StoredAndFrozenStay`, `FinishedComplete`, `UpdatesUnbroken`,
`TrueHistory`, `BlindResearch`.
- `TableInv` says that a closed row is of a candle that is over and final, and, what
  makes it inductive, that an answer is received at the instant it was given (unless
  `LateAnswers`). `ReadInv` does the same for what an experiment has read.
- `FreezeInv` is about the freezes that are running, which may overlap on one version and
  then replace each other's files. `FreezeStep`: a version with a file that none of them is
  writing (`Sealed`) stays as it is, since a freeze begins on a version without files only;
  and no step takes a file away.
- `RequestInv` says what the running download has stored up to its cursor, whatever
  was retried; `HistoryInv` that the closed candles have no hole between commands.
- `ExpInv` and `EndInv` say, for each step an experiment can be in, which data it has
  read, what it has chosen and what it may have written.
- Where a property is about final values it holds only without `LateAnswers`; the
  hypothesis stands inside the box (§5, end).

**ResearchProofs**, the data: `DataStaysHonest`, and of any finite history, not only those
of a run, `SegmentsAlwaysHold`, `MarksAlwaysHold`, `HoldoutsAlwaysHold`,
`NamedSplitsAlwaysHold`, `SpotFoldsAlwaysWhole`, `ReadyAlwaysValid`; of any periods and
sizes `WindowsAlwaysHold` and `OneFoldIsAlwaysMissed`. `StudiesAreCommands`: a study
takes only steps of the protocol.
- The state of a study needs little of an invariant (`StudyInv`: data is a history that
  is not empty); all the work is about the operators.
- *Positions.* The code slices lists; the modules speak of the n-th hour of a set
  (`Nth`) and of the hours before one. `NthOfRank`, `RanksCount` and `LastOfMany` relate
  them through cardinalities: an hour is evaluated exactly when as many hours as the warm-up come
  before it, whatever is missing between.
- *Marks.* A candle is priced with the last mark up to it. A cut keeps the marks within
  it, so only one from before the cut can be lost, and `SliceDataset` carries that one
  (`MarkOfHour`).
- *Plans.* Windows are sets `{first + k * step}`; that no further one fits is an argument
  about the greatest k, and the two loops that miss a fold are compared with the plan
  that does not. `OneFoldIsAlwaysMissed` is exact about the warm-up: the Spot command
  plans nothing unless it trains for longer than that.
- The ranges over which `DataIsHonest` quantifies (warm-ups of 1 and 2, and so on) are the
  run's; the theorems named above do not have them.

**ResearchProofs**, labels and the answer: `LabelsAlwaysHonest`, `AnswersAlwaysEarned`.
- `LabelsAlwaysHonest` is about any recorded session (`Recorded`: in order of time, bid
  below ask, something to trade at each price), any decision, horizon, size and side; the
  latency, the fee and the longest horizon are those of the module.
- `FirstFrom` is the state an order meets, and `LabelOfPrefix` that nothing after the exit
  changes a label. `IsRoundTrip` says what a label is from two states alone, in units
  filled at the first and at the second price; what is left is arithmetic that is not
  linear (`RoundTripCosts`, `LargerIsNoBetter`) and that the best and the worst of a set
  lie on either side of each of its members (`Extremes`, `Reached`).
- Short is long with the two sides exchanged, so that the two together pay the spread of
  both states, and each pays fees besides: they never both win.
- `AnswersAlwaysEarned` reduces the answer to three set inclusions (`AnswerCases`).

Only model-checked:
- `VerdictsAreSound` as a whole. What it says of the two controllers of the elastic exit, of
  their adapter, of a single label and of the answer is proved for every input, as above.
  Selections, medians, funnels, features, the sampling of anchors, tables and the elastic
  rows of a session are computed by sorting, selecting and folding sequences; what such a
  fold yields for every input is an induction over data.
- `RiskFollowsTheLog` where a liquidation made money by its funding.
- `EntryAnswersDip` on Spot with the regime exit and `BooksReconcile` of SpotBacktest with
  both ways out are false (§5, 8 and 7); final values with `LateAnswers` as well.
- `EndsSynchronized`, `StreamEndsSynchronized`, `StopEnds` and `DownloadsEnd`: liveness is
  beyond the prover.

## 5. Where the code differs from its documentation, and bugs

The quotes are in `PROJECT.json`. Definitions kept in the modules show each of
the first eight when they are put in a configuration as a property (or the named
constant is changed); they are not in the configurations, which all pass.

1. `microstructure/live.py:577`. A snapshot that leaves the book INVALID asks for
   the next one at once, without bound or delay. `NoEndlessRetry` of
   FuturesRecorder, with `MarketAt <- MCNoAsks`.
2. `microstructure/live.py:691`. A peer that ends the connection without a close
   frame raises an `EOFError` that no except clause names; the worker ends without a
   reconnect. `WorkerEndsExhausted` of FuturesRecorder.
3. `microstructure/live.py:358`. The Spot recorder counts every invalidation as a
   sequence gap. `OnlyRealGapsCount` of SpotRecorder.
4. `execution/engine.py:527`. A LIMIT order that crosses and is partly filled is in
   no queue afterwards and can only expire. `RemainderWorksAtLimit` of ExecutionVenue.
5. `execution/engine.py:409`. The status lags the cancel until the next `advance`,
   so a later trade still fills the order. `NoFillAfterCancelEffective`.
6. `execution/risk.py:115`. An abnormal slippage or a small loss overwrites a kill by
   REDUCED, which approves; a kill reported before the first boundary call of its day
   is erased by it. `KillBlocksTheDay` of RiskGovernor.
7. `backtest/engine.py:347`. A strategy exit that was decided before a partial take
   profit sells, when it fills, more than is held. `Configs <- BothConfigs` violates
   `BooksReconcile` of SpotBacktest.
8. `strategy/pullback.py:779`. The Spot analyzer that exits by regime loss hides the
   candle from the core, so persistence is counted over it. `SpotRegimeExit = TRUE`
   violates `EntryAnswersDip`.
9. `research/splits.py:39`, `futures/research.py:66`. A last fold that is complete is
   dropped. `CommandsMissOneFold` says exactly which, and when there is no plan at all.
10. `research/daily_aggregation.py:458`. A day of which every hour is missing leaves no
    audit record.
11. `microstructure/elastic_exit.py:155`. A pending reversal postpones the deadline;
    `ExitsAreTimely` states the bound that holds.
12. `microstructure/foundation.py:223`. One gap blocks the gate for the whole session.
13. `research/microstructure_edge_dataset.py:44`. `feed_health` is never computed.
14. `research/microstructure_edge_service.py:340`. Labels of the last confirmation
    anchors read states of the holdout.
15. `research/microstructure_edge_service.py:528`. An elastic profit of zero is taken
    for a missing one, and failsafe exits count as rows.
16. `research/microstructure_edge_service.py:437`. The elastic exit is shown states from
    before its entry has arrived.
17. `research/multi_day_execution.py:389`. The hashes of the new and the consumed
    campaign are of different things and can never be equal.
18. `microstructure/scientific_admission.py:149`. A rejected session blocks a later
    session with the same events.
19. `research/multi_day_execution_service.py:207`. A limitation is written whatever the
    status is.
20. `microstructure/live.py:540`. The streams are evaluated after an await in the middle of
    a batch and before the messages that came in meanwhile are seen: an incident is opened
    for a stream that was not silent. The message takes it back. `SilenceIsReal`, without
    its last disjunct, is violated.
21. `microstructure/connection.py:91`. The first connection to come up ends the downtime of
    both; the rest is lost. `DowntimeIsReal` says exactly how much.
22. `backtest/engine.py:495`. The rows written while an order waits stay PENDING for good.
23. `research/executable_forward_labels.py:350`. The excursions of a label take another fee
    (on Spot) and another denominator (of a short) than its net.
24. `research/candidate_freeze.py:131`. Freezes of one version that overlap write its files
    twice. `FrozenNeverChanges` holds of versions no freeze is writing.

One more assumption is explicit: with `LateAnswers = TRUE` a candle may close
between the answer of the exchange and its receipt, and `HistoryIsTrue` fails: a
row is marked closed whose values are not the last ones. The clients compare the
close time with their own clock after the answer, so the window is the travel
time of an answer.

## 6. Not modelled, and why

- **Execution reports** (`execution/reporting.py`) and the **report writers** of every
  experiment: fixed scenarios and finished results rendered to files; nothing reads
  them back to decide anything. That reports are written before the catalog is
  compared is a step of ResearchProtocol.
- **Domain, settings, CLI, panel**: value types, argument parsing and calls of the
  parts above. The CLI commands with control of their own (`campaign-record`, the
  downloads) are modelled.
- **Wire**: TLS, HTTP, websocket frames, JSON and gzip encoding, and the replay that
  decodes them. The recorders model what comes out of them and how they fail.
- **Real-data validation and dataset integrity of Futures**
  (`futures/real_validation.py`, most of `futures/integrity.py`): one pass over fixed
  files; the fold summaries, the assessment and the gap rules are modelled.
- **Sensitivity grids, regimes after the event, benchmarks, synthetic scenarios**:
  they repeat a backtest with other constants and compare nothing that a decision
  rests on.
- **Indicators**: averages, ATR, channels. Their values are abstracted to what a
  decision can tell apart; that they look back only is not checked, except for the
  features, contexts and daily candles, where it is.
- **Other SQLite tables**: written and read by one process inside transactions.
- **The offline liveness qualification** and percentiles of delays: statistics over a
  finished recording.
- **Prices, fees and slippage of the venue**: quantities decide what the
  properties say; a cost changes amounts and no control.

Hazards without a property, each with its reason in `PROJECT.json`: `execute_policy`
advancing all orders of the venue ahead of the replay (`execution/engine.py:367`;
divergence 5 is its consequence); a worker that ends for good (`live.py:691`), which the
recorder's liveness counts as given up (2); the sessions a torn campaign manifest listed
(`campaign.py:180`); the decision a failed experiment leaves (`spot_experiment.py:246`); late
answers (`binance_public.py:187`), which are configured away; and an end still to come
(`history.py:95`), after which `UpdatesLeaveNoHole` promises nothing. The hazards at
`backtest/engine.py:347` and `strategy/pullback.py:484` are covered but for one case each,
which is configured away because the property is false there (7 and 8).
