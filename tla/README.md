# Verification of the Binance AI Bot backend

TLA+ specifications of the paper-trading backend under `src/app`, the TLC
configurations that check them on small instances, and proofs that TLAPS checks
for every value of the constants.

The program is a FastAPI backend that listens to Binance market data, decides
with a fixed trend-following strategy, and trades on a simulated ("paper")
account kept in memory and saved to SQLite. Around it are scans over many
symbols that run in threads of their own, and a large body of read-only
analysis. What can go wrong without a unit test noticing is in the account, in
the order of its persistence, in the life of the background tasks, and in the
state they share with the requests.

## Inventory

| Part | State | Operations | Hard behaviour | What makes it correct |
|---|---|---|---|---|
| Paper broker (`paper/broker.py`) | balances, positions, realised profit, order counter | `execute_order` | rounding over long sequences of orders | solvent; money conserved; a closed position leaves nothing |
| Rules (`strategies/`, `risk/`, `features/regime.py`) | none | `evaluate` (twice), sizing | missing data, order of the filters, boundaries | entries within limits, exits never refused |
| Runner (`runner/`, `execution/`) | last prices, candle history, day-start equity, the broker | `process_snapshot`, `ingest_snapshot`, `execute_manual_trade` | manual and automatic orders on one account, several symbols | position, loss and risk limits hold for all of them |
| Bot runtime (`bot/runtime.py`) | task, status, runner, last candle; SQLite rows | start, stop, pause, resume, reset, manual trades, the task's loop, restore | crash between writes, failing writes, cancellation, repeated klines | no unasked trade, honest status, recovery loses nothing |
| Market stream (`market_data/`, `exchange/binance_ws.py`) | merged snapshot per symbol | `normalize_payload`, `stream` | reconnects, repeats, reordering, bad payloads | no candle traded twice |
| Spot and Futures scans (`api/bot_api.py`) | job object shared by two threads, earlier runs | scan thread, cancel, status | cancel against late results, deadlines, reads without the lock, fallbacks | every scan ends; a cancelled one for good; "ready" means complete |
| Scan candles (`api/bot_api.py`) | stored candles, a cache per scan | load or fetch | old rows taken for new ones | a scan judges prices of its own time |
| Backfill (`services/`, `storage/candle_repository.py`) | tasks and states per key, job table, candles | `ensure_recent_history`, `_run_backfill` | racing requests, pages, fallback, failing handler, reset | one task per key, no gap, candles catch up |
| Price stream (`monitoring/futures_scanner_ws_heartbeat.py`) | subscribed symbols, task, prices, warning | update, read, close | a dead task behind a live subscription, reconnects | serves what is subscribed, or warns |
| Liquidation feed (`data/binance_liquidation_feed.py`) | task, events per symbol | start, stop, read | late and disordered events against pruning by two clocks | no event inside the window is lost |
| Symbol cache (`exchange/symbol_service.py`) | symbols, refresh time, lock | `list_symbols` | double-checked lock across an await | no answer older than the time to live |
| Tuning (`profile_calibration.py`, its tables, `bot/runtime.py`) | sets pending, applied, superseded; session rows | recommend, apply, start of a session, compare | requests and starts that interleave, failing starts | one pending set, a session runs the set marked as its own |
| Signal outcomes (`signal_outcomes.py`, `scanner_validation_report.py`) | snapshots, outcomes, candles | evaluate what is due | evaluators that overlap and write what they read earlier | verdicts from closed candles after the horizon; all settled |
| Scoring (`spot_` and `futures_opportunity_scanner.py`, `liquidity_*.py`, `crowd_positioning.py`) | none | one signal per symbol, ranking | thresholds, missing data, rounding of levels | no shown candidate is unfit |
| Reports (`metrics.py`, `trade_quality.py`, `outcome_review.py`, `signal_validation.py`, `similar_setups.py`, ...) | none | each replays stored rows its own way | which rows an endpoint selects | reports on the same history agree |
| Technical analysis, AI, sentiment, fusion | none | functions of candles | none | inputs of the above |

The requests and the bot's task run on one event loop; the runtime's operations
hold an `asyncio.Lock` and do not await between their steps, except `stop`,
alone or as the first part of a reset, which awaits the task it has cancelled. A scan has a thread and an event loop of
its own and meets the API only in the job object. The dashboard's `def`
endpoints run in worker threads, so that they interleave with the background
outcome service and with starts at every access to SQLite. The runtime calls
the runner, the runner calls strategy, risk engine, execution engine and broker
in turn, and both write to SQLite, each repository call in a transaction of its
own.

## Modules

| Module | Models | Notes |
|---|---|---|
| `Ledger` | what an account promises | abstract specification of the broker |
| `PaperBroker` | `paper/broker.py` | one action per outcome of `execute_order`; refines `Ledger` |
| `TradingRules` | `trend_following.py`, `risk/` | operators only |
| `StrategyRunner` | `strategy_runner.py`, `execution_engine.py` | extends the broker, instantiates the rules |
| `TradingDay` | the runner over midnight | adds the calendar, which the code never reads |
| `PaperRuntime` | `bot/runtime.py`, the recovery tables, the klines that reach it | requests, the task's loop, failures, restarts |
| `ScanJob` | the skeleton of both background scans | thread, batches, cancel and status requests |
| `MarketScan` | the Spot and the Futures scan | extends `ScanJob` with universe, signals, filters, reports and earlier runs; refines it |
| `ScanCandles` | the loaders of both scans | stored rows or Binance, and the scan's cache |
| `Clock` | wall-clock time | shared by the services and the outcomes |
| `CandleHistory` | `backfill_service.py`, `candle_repository.py`, aggregation | tasks, pages, fallback, reset |
| `SymbolCache` | `symbol_service.py` | callers that pass the check, wait for the lock, look again |
| `PriceStream` | `futures_scanner_ws_heartbeat.py` | subscriptions and the stream's task |
| `LiquidationFeed` | `binance_liquidation_feed.py` | events, two clocks, answers |
| `Calibration` | `profile_calibration.py` | what trades recommend; comparison metrics |
| `TuningSets` | the life of a tuning set | every access to storage of a request and of a start is a step |
| `OutcomeRules` | how one signal is judged | the operators of both evaluators |
| `Outcomes` | signals, candles, overlapping evaluators | reads once, then judges and writes one by one |
| `Rounding`, `Candlesticks`, `Liquidity` | `quantize`; what analyses read off candles; positioning, zones, bias, sensitivity | operators |
| `FuturesScoring`, `SpotScoring`, `Eligibility` | the scanners' decisions; what the evidence allows | operators |
| `TradeReports`, `SignalReports` | the reports with the rows their endpoints select | operators |
| `MC...` | instances for TLC | `MCServices` and `MCResearch` compose modules, see below |
| `DataLemmas`, `...Proofs` | theorems | see Proofs |

How state and actions correspond to the code:

* **Money.** `cash` is `_balances["USDT"]`, and a position is its quantity, its
  `avg_entry_price` (`entry`) and its booked profit. As in the code the average is
  a quotient that is rounded at every purchase, from a basis that is the rounded
  product of the average before and the quantity held (`Basis`), and a sale releases
  average times quantity sold, rounded (`Released`). `Decimal` rounds these at 28
  digits, half to even; here they are rounded half to even (`HalfEven`) to units of
  money and, the average, to 1/`EntryDen` of one. The grid is so coarse that rounding
  happens in every trace, and money really is created and lost by it: exact
  conservation is false of this model, as it is of the code, and `MoneyConserved`
  bounds the drift by the roundings the orders so far have made.
* **Features** (EMAs, ATR, order book) are an input of the cycle, chosen from a
  set of snapshots that covers each filter, missing book, missing ATR and
  missing slow EMA (the short history after a restart).
* **`PaperRuntime`** keeps of the account the number of its fills and the
  symbols it holds: recovery is about whether a fill is known, not about its
  amount. `seen` is the candle history, `shown` the candle of the stream
  manager's snapshot, which a tick repeats. `diskRun`, `diskBroker`, `diskFills`
  and `rows` are the tables. A write whose failure is swallowed is an
  `Attempt`; one whose failure is let through cuts the action short. A crash
  between two writes leaves the same disk as a failure of the later ones, so
  with `StorageFails` a `Restart` after an action is a crash inside it. Stop and
  reset take several steps: `CancelTask` takes the lock and cancels,
  `TaskIsCancelled` is the `finally` block of the task, which finishes the session
  by itself, and `Stop`, `Reset` or `ResetFails` the rest. In between other requests
  wait for the lock (`LockIsFree`) and the backend may die. `ResetMayFail` lets the
  clears of a reset fail where every other write works.
* **`ScanJob`** has the coroutine's place in `pc`; `half` is an update whose
  first field is written and whose others are not, during which the lock is
  held. `Cancel` needs the lock, the status requests do not and read the status
  before the response, as the code does. Symbols go through `waiting`,
  `fetching` and an outcome; the semaphore limits those fetching.
  **`MarketScan`** gives each of these steps its data: which universe the
  symbols come from (live, cached, fallback), what each symbol was read as, what
  the request filters, the report that is built, and the earlier run that is
  shown when a scan yields nothing; looking that up may raise, for either market.
  The look at the cancel flag after a batch (`CollectBatch`) and the update of the
  count (`CountScanned`) are two steps, as a cancel may come between them.
* **`ScanCandles`** asks Binance for as many candles as the loader of the market does
  (`Limit`; four more than the lookback for Futures). A scan looks back seven days in
  candles of 15m and 1h, so the cap of 1000 a request never binds.
* **Services.** Time is in candles or ticks of the component. A backfill is a
  record of its place in the code, its window and its cursor; a page is a choice
  of Binance of what is closed by now; `finished` is a history variable that
  remembers the windows of those that came to their end. In `SymbolCache` an
  answer carries the time at which the exchange was asked, so that its age can
  be compared with the call. In `PriceStream` the task is a place (`pc`) and the
  symbols it was started for; `Running` is what `task.done()` negates.
* **Tuning** and **outcomes** split a request at every access to storage:
  another request, a start or an evaluator may come between any two.
* **Scoring.** Prices are in units of 0.0001 of the quote asset, the step that
  the suggested levels are rounded to, scores and percentages are integers
  scaled as the head of each module says, and `HalfUp` is `ROUND_HALF_UP`.
  Technical analysis and regime are inputs.

`MCServices` puts five services that share nothing but the clock into one
specification, and `MCResearch` the outcomes, the tuning, the decisions and the
reports: `focus` says which of them a behaviour looks at while the others rest,
so that their states add up and do not multiply. A decision or a report is a
state of its own (`question`), and its invariant is the comparison with what it
must satisfy.

## Runs

| Run | Module, cfg | Distinct states | Checks |
|---|---|---|---|
| `broker` | `MCPaperBroker` | 47,479 | `BrokerTypeOK`, `MoneyConserved`, `FlatIsEmpty`, `RefinesLedger` |
| `runner` | `MCStrategyRunner` | 19,928 | `OpenPositionLimit`, `ExitsAlwaysGoThrough`, `StopLossHonoured`, `NoEntryAfterLossLimit`, `RiskPerTradeBounded`, `AutoNeverPyramids` |
| `runtime` | `MCPaperRuntime` | 1,456,661 | `TypeOK`, `LiveTaskIsAnnounced`, `TradesOnlyWhenAsked`, `InOrderWithinSession` |
| `recovery` | `MCPaperRuntime`, `MCRecovery.cfg` | 944,678 | `StatusIsHonest`, `MemoryIsSaved`, `RowsBeforeAccount`, `SessionsAreFinished` |
| `scan` | `MCScanJob` | 238,607 | `TypeOK`, `CancelledForGood`, `ProgressIsBacked`, `ReadyIsComplete`, `CancelKeepsResults`, `EveryScanEnds` |
| `services` | `MCServices` | 66,362 | `OneBackfillPerKey`, `FinishedBackfillHasNoGap`, `AnswersAreFresh`, `StreamServesOrWarns`, `PressureIsComplete`, `FuturesScanIsFresh`, `BackfillCatchesUp`, `PricesArrive` |
| `research` | `MCResearch` | 341,132 | `OutcomeJudgesItsHorizon`, `OnePendingTuning`, `SessionRunsItsTuning`, `ThresholdsNeverDrift`, `ComparisonAddsUp`, `CandidatesAreSound`, `ReportsAgree`, `SignalsGetSettled` |
| `trading_day` | `MCTradingDay` | violation | the loss limit is not a daily one |
| `resume_after_recovery` | `MCPaperRuntime`, `MCResume.cfg` | violation | the resume that recovery asks for is refused |
| `account_recovery` | `MCPaperRuntime`, `MCSafeRecovery.cfg` | violation | a fill is recorded that the recovered account does not have |
| `completed_poll` | `MCScanJob`, `MCScanPoll.cfg` | violation | a poll says completed and carries the partial report |

The four violations are disagreements between the code and what its comments,
tests or `PROGRESS.md` say; `PROJECT.json` quotes both sides.

Bounds, all named as CONSTANTS:

* `broker`: two symbols, two prices, quantities up to 3, six orders. Two buys, a
  partial sale, a full one and a new entry fit, at prices where the fee, the average
  and the released basis round, on a grid of averages of a quarter of a unit, and the opening cash pays for one to three units, so
  refusals happen at every balance.
* `runner`: three symbols for a limit of two positions, so that the limit binds;
  two prices more than a stop apart, so that one fall hits both the stop and
  the loss limit; four orders are enough for two entries, a refused third and
  an exit.
* `runtime`: two sessions and a restart, two candle times (order and repeats
  need two), all faults on. `recovery`: two symbols, so that a position can be
  left behind by a session in the other, two restarts, two fills; only reads,
  payloads and the clears of a reset may fail there, since a failed write of the
  state itself is a lost state by definition.
* `scan`: both markets, up to three symbols, batches of two and one permit: a
  full batch, a short one, and a symbol that waits while another is fetched;
  every source of the universe, every outcome of a symbol, storage that fails
  at each stage, and an earlier run to fall back to, or none. The real limits
  (100 symbols, batches of 5 to 10) add no other case. A symbol has one or two
  readings, chosen so that each filter of the request keeps one and drops one.
* `services`: the backfill has a window of three candles, pages of two (a full
  page, a short one, an empty one), one permit for two keys, two faults (an HTTP
  error in the request and one in the fallback) and one more tick of the clock.
  The cache has two callers and three ticks for a time to live of two: fresh,
  just expired, and expired while waiting for the lock. The stream takes five
  lists (none, one, repeated, too many, with a name Binance refuses). The feed
  has three events, which may be late by two ticks or early by one, against a
  retention of two.
* `research`: one signal of three kinds with one horizon, two grains of candles,
  two paths of the market, two evaluators and one that raises; two tuning sets
  and two sessions, and observations that recommend raising, lowering and
  nothing; 768 markets for the decisions (eight shapes of sixty candles times
  analyses, positionings and liquidations); the histories of trades are every
  legal sequence of up to four orders over three days of ten units
  (`DayLength`), among the trades of another symbol, and are asked for by symbol
  and without one, over every range of days; those of signals two
  signals of a symbol and one of another over every way the price may move. The
  second signal falls at the first, inside a minute, or ten hours later with the
  last candles, so that the queries that load more candles do so.

`CHECK_DEADLOCK FALSE` is said where the bounds, or the end of a scan, stop the
system.

**Fairness**, and why the code justifies it:

* `EveryScanEnds`: `WF` of `ScanAdvances`; the scan's thread is scheduled and its
  own timers fire (`asyncio.wait_for` per symbol, `asyncio.wait` with the
  remaining time per batch). Answers from Binance, cancellations and status
  requests are not fair: they need never come. Storage that cannot be opened
  ends the thread before its `try` and is excluded by name (`pc = "dead"`).
* `BackfillCatchesUp`: `WF`, per key, of the request and of the steps of its
  task. The dashboard polls the endpoint that calls `ensure_recent_history`, and
  the event loop starves no task. Without polling nothing is promised: a failed
  backfill is only retried by the next request. Faults are bounded in number.
* `PricesArrive`: `WF` of `Reconnect` (a sleep that ends), `SF` of `Connect` and,
  per symbol, of receiving a price: connections may fail for long and messages
  may be of other symbols, so weak fairness would promise nothing. That a
  connection succeeds now and then is assumed of Binance, and of nothing else.
* `SignalsGetSettled`: `WF` of time and, per evaluator, of beginning, judging and
  writing. The service wakes up every minute of its life.

## Proofs

TLAPS checks every theorem for all values of the constants that satisfy the
named assumptions of the modules (`BrokerAssumption`, `RunnerAssumption`,
`RuntimeAssumption`, `ScanAssumption`, `PastRunsAssumption`, `CacheAssumption`,
...): any finite set of symbols, any prices, quantities, windows, limits and
bounds. The runs evaluate the same assumptions on their instances.

| Module | Theorems | Of |
|---|---|---|
| `PaperBrokerProofs` | `BrokerTypes`, `ClosedPositionsAreEmpty`, `MoneyIsConserved`, `BrokerRefinesLedger` | all properties of `broker` |
| `StrategyRunnerProofs` | `RunnerTypes`, `RunnerRefinesLedger`, `PositionLimitHolds`, `ExitsGoThrough`, `StopIsHonoured`, `NoEntryOnceLost`, `RiskStaysBounded`, `NeverPyramids` | all properties of `runner` |
| `PaperRuntimeProofs` | `RuntimeTypes`, `AnnouncedTask`, `OnlyWhenAsked`, `InOrder`; with `~StorageFails` also `RowsComeFirst`, `HonestStatus`, `SavedMemory`, `FinishedSessions` | all properties of `runtime` and `recovery` |
| `ScanJobProofs` | `ScanTypes`, `CancelIsFinal`, `CancelKeepsShown`, `ProgressBacked`; `MarketScanImplementsScanJob`, and through it `MarketScanTypes`, `MarketCancelIsFinal`, `MarketCancelKeepsShown`, `MarketProgressBacked`; `ReadyMeansComplete` | the skeleton of the scans, and the safety of `scan` |
| `ServicesProofs` | `FreshAnswers`, `ServesOrWarns`, `NoSecondBackfill`, `BackfillLeavesNoGap`, `FuturesLoadsFresh`, `NothingAskedForIsPruned` | the safety of `services` |
| `ResearchProofs` | `OneWaits`, `RunsItsTuning`, `NoDrift`, `ComparisonIsFair`, `VerdictsRestOnTheirHorizon`; `FuturesCandidatesAreSound`, `FuturesVerdictsAgree`, `SpotPurchasesAreSound`, `NoCandidateIsUnsound` | tunings, outcomes and decisions in `research` |
| `ReportProofs` | `SignalReportsAlwaysAgree`, `TradeReportsAlwaysAgree`; `ReportsAlwaysAgree` | the reports in `research` |
| `DataLemmas` | lemmas only | least elements, extremes, sums and their parts |

**Broker.** `BrokerInv` is `BrokerTypeOK /\ FlatIsEmpty`. That a sale releases a
basis no larger than the position's comes from the monotony of the rounding
(`HalfEvenMono`); that it releases all of it when the whole quantity is sold keeps
a flat position empty. `MoneyConserved` is a bound on the drift: a purchase
moves it by half a grid step for each unit then held and half a unit of money
(`HalfEven` is within half of the quotient), a sale by the difference between one
rounded product and the sum of two, and no more than `LargestOrder` units are bought
by each order, so that the bound grows with the square of their number. That every
single order keeps to the ledger's tighter bound is `BrokerRefinesLedger`, and
`RunnerRefinesLedger` carries it over to automatic and manual trading on one account.
The sum is over any finite set of symbols: `DataLemmas` shows that the library's
`SumFunction` is the sum it should be (`SumsExist` builds the sums of all subsets from
those of smaller ones), and that changing one value changes the sum by as much
(`SumOfUpdate`). The library's induction theorems take operators, so induction is done
with sets of naturals (`NaturalsByStep`), from the least element of a set.

**Runner.** `RunnerInv` adds to `BrokerInv`: the day-start equity is not taken or
is the opening balance, since the first cycle takes it before anything is
bought; an account opened with nothing holds nothing; the position limit. The
exits need all of it: a sale the strategy asks for is refused by the risk engine
without a positive equity and day-start equity, and the invariant is what
excludes that. `Growth` says once what any step in which a position grew has
passed, and the three theorems on entries follow from it.

**Runtime.** `RuntimeInv` adds to the types and to `LiveTaskIsAnnounced`: a live
task was started since the boot under a session of its own (`LiveWasStarted`,
why a recovered session cannot trade); the live session has handled no candle
later than `_last_processed_candle_open_time`, and sessions to come have handled
none (`HandledUpToLast`). `RowsInv` needs that the account in memory has its
rows too, since that is the one saved next. `SavedInv` says what is saved at the
end of every action, and has an exception for each failure that is not one of a
write; with failing writes these statements are false and are not claimed. A reset whose clears
fail is one of the steps they hold through (`ResetFailsSaved`).

**Scans.** An update writes its fields one after the other, so `ScanInv` adds what
is left of it (`UpdateIsLive`): while it holds the lock, the job is not
cancelled, or the update is the cancellation's own. `MarketScan` is shown to
implement `ScanJob` step by step, which carries over its theorems; for
`ReadyIsComplete` the data the report was built from must still be that of the
scan when it is shown, through the update that writes it in two parts.

**Services.** For the cache: whoever holds the lock stamped the time before it
asked, and a caller that finds the list fresh under the lock finds it less than
the time to live older than its own call. For the backfill: what is stored up to
the cursor of a task has no hole, a page that is not full is the last one
(`FirstOnes`), and the window is aligned to the interval (`NextMultiple`). For the
scans: a request is never for a window that ended before the scan began, and the
page it fills, oldest first, reaches the end of that window (`AnswerIsRecent`).
For the liquidation feed the queue is compared with a history of all that arrived:
`FeedInv` says that the queue is an end of it, and that every event that was cut off
is older than any answer looks back to (`OlderHead`). Pruning stops at the first
event that is young enough, so a late event behind a younger one stays and is
filtered out when it is read; nothing that is asked
for is lost as long as the lookback and the farthest an event may be ahead of the
clock fit into the retention (`FeedAssumption`; in the code at most 15 minutes of 60).

**Tunings.** The observations stay arbitrary: of a recommendation only what it may
suggest is used (`Suggested`: the loss accepted is never changed, the profit taken
only goes up, and the rest is one step from a built-in threshold). `TuningInv` says
so of every stored set and of the one a request holds between its reads and its
write, and that a start under way has read a set of its own symbol and profile,
whatever became of that set since. This is what makes marking it applied, without
a look at its status, safe.

The comparison of the sessions before and after a set needs more (`CompareInv`):
sessions have identifiers of their own, and a set looks back only at an older one,
whatever was cleared in between; hence no session is on both sides. The drawdown of
a side is the largest fall of the running sum of its results from its peak, both
read as maxima over the beginnings of the history, so that no recursion over a
sequence is left: the whole loss is one such fall (`DrawdownCoversLoss`), and the
expectancy, rounded, can tell at most half a unit per trade more.

**Outcomes.** A verdict is written long after it was made: by then the candles, the
signals and even the table may have changed. `OutcomesInv` says that signals with
the same identifier are the same, those included that an evaluator read and that
have been deleted since (`OneEach`), that a verdict in the hands of an evaluator
fits the signal and the horizon it will be written for (`VerdictOK`), and that only
candles that have closed are stored. The rest is arithmetic on one window: what
is said to be touched agrees with how far the price went. Percentages are rounded,
so it is only beyond 1 per cent, and not at it, that a purchase must have lost: a
fall from 20001 to 19801 is reported as -1.0000 per cent and touches no stop.

**Decisions.** The theorems are about any symbol whatever: candles of any number,
with any highs, lows and volumes, any analysis with a strength, any positioning,
liquidations, regime and validation. Scores stay numbers through every term
(`MarketScoresAre`, `SideScoresAre`), and are cut to 0 to 100 before the opportunity
is compared with the thresholds; the levels differ from the price by more than half
the step they are rounded to (`LevelsAreOutside`, from `HalfUpSides`); a verdict is a
function of the market alone (`SameMarket`, `AnalysesAgree`), and a bad regime or a
falling trend forces the high risk or the low trend score that excludes a purchase.
There is one hypothesis: no close is below 0.0084 (`Traded`). It is exact, see below.
The markets that the run enumerates satisfy it (`MarketsAreTraded`).

**Reports on signals.** `SignalReportsAlwaysAgree` is about any finite sets of stored
signals and candles, with any prices, times, groups and blockers; that they have
times, positive prices and integer levels is all it assumes (`StoredSignals`,
`StoredCandles`), and the questions of the run satisfy it (`QuestionsAreStored`). It
has four parts.

* What two reports say of a group is decided by rates that are rounded separately:
  no group wins 45 per cent and fails 60 (`RatesExclude`, by the bounds of rounding),
  so what is useful is not restricted and what is preferred is not avoided; a
  negative edge is a reason for both reports, and five outcomes are more than three.
* A grouping is a partition, and a sum over a set is the sum of the sums of its
  parts (`SumByGroup`); horizons without an outcome add nothing (`ReportAddsUp`).
* The candles of a single signal are among those of all the selected ones. Those
  that are added open before the signal or more than 25 hours after it, so the one
  that decides is the same (`SameCandleDecides`), and a window can only gain the
  candle the signal falls into (`MoreCandlesSeeMore`). This is where the statement
  is weaker than one might expect, see below.
* If some horizon of similar setups gains, the best one does, though an expectancy
  of zero is ranked below every loss (`BestIsBest`); and if the whole gains, some
  horizon must (`SomeHorizonGains`), as rounding to the nearest keeps the sign of a
  mean of at least half a unit.

**Reports on trades.** `TradeReportsAlwaysAgree` is about any history of trades, with
any ids, prices, quantities and profits, any candles and equity, any number of days
and any range of them. `StoredHistory` is all it assumes: rows have ids of their own,
of which there are finitely many, in the order of time; a sale has a quantity, and
nothing is sold that was not bought before (`Covered`), which is what the broker
guarantees. The questions of the run are such histories (`HistoriesAreStored`), and
with that `ReportsAlwaysAgree` states `ReportsAgree` for the whole specification.

* The code replays the trades with a queue of lots. `LeftOf` is a recursive function
  on the sets of trades; that it exists and goes trade by trade (`LeftsExist`,
  `LeftTradeByTrade`) is an induction over the finite sets of rows.
* A sale takes what it wants or all that is left, oldest lots first, so that the parts
  add up (`TakenAddsUp`); hence what is left after any trades is what was bought and
  not sold (`LeftAddsUp`), and every sale is matched as a whole (`MatchedWhole`). For
  the query without a symbol, what each symbol covers all of them cover
  (`AllIsCovered`).
* The trades up to a day are a prefix of the table (`DaysArePrefix`), so every page
  that reads the past matches a sale with the same lots (`MatchedFromThePast`): this
  is why a position opened before the range counts, and what the mutant of the run
  breaks. All pages then have the same sales (`ClosedIn`), and the rest are sums over
  them: adjoining ranges are disjoint, groups and symbols are partitions
  (`RangesAlwaysAddUp`, `GroupsAlwaysAddUp`, `SymbolsAlwaysAddUp`). The peak of a
  shorter range is no higher (`ShorterFalls`).
* The shares of a described trade are rounded separately: those kept and given back
  miss the whole by 0.01 at most (`SharesOfAWhole`), and when nothing is given back of
  the favourable part, nothing is of the wider span of prices (`NothingGivenBack`).

**Only model-checked**: liveness (`EveryScanEnds`, `BackfillCatchesUp`,
`PricesArrive`, `SignalsGetSettled`) is out of the prover's reach. Every safety
property and every action property of the passing runs, and the refinements, are
stated by a theorem. The statements that a violating run refutes are not proved,
being false (one of them, `RecoveredCanResume`, uses ENABLED besides).

## What the models show that a reader of the code should know

Beyond the four findings, these follow from the models, and no statement of the
repository excludes them:

* A backfill that succeeds leaves its state at "partial" or "loading", never at
  "ready"; an HTTP error for an interval other than 1m, or in the 5m fallback,
  leaves the key at "loading" until the next request starts a new task.
* A start that fails after it took a pending tuning set leaves the set applied
  without a session. Recommendations always start from the built-in thresholds
  of the profile, not from those in force.
* `max_upside` and the levels that were hit include candles that close after
  the horizon. The Futures scanner's signals are judged with the table of Spot
  candles.
* The Futures scanner rounds its stop and target to 0.0001 after it has put them 0.6
  per cent of the price away, at least. Below a price of 0.0084 (83 units and less)
  this is less than half a step: in a quiet market the stop of a candidate is the
  price itself, and its card says "invalidated" as soon as it is shown. From 0.0084 on
  `FuturesCandidatesAreSound` excludes it.
* What a validation report says of a signal depends in two ways on the signals it is
  asked for with, as the candles are loaded for all of a symbol at once: from the
  first of them on, so that with an earlier one the candle a signal falls into counts
  for its excursions and its invalidation, and to 25 hours after the last, so that a
  horizon without a candle until then is judged only if there is a later one.
  Direction, return and verdict are the same (`SignalReportsAlwaysAgree`).
* The average holding time of `/performance/review` is computed from the rows of the
  range alone, that of `/performance` from the whole past: for a range that begins
  between a purchase and its sale they differ. `ReportsAgree` does not compare them.
* A signal whose candle is stored only after it was judged stays "insufficient_data",
  which `test_signal_outcomes.py` fixes and `PROGRESS.md` lists as a dependence on stored
  candles; the scanner's signals are judged again (`SignalsGetSettled`).
* A scan that finds the universe within its time to live always reports
  "partial": only a live universe can be "ready".
* The price stream's task may end while its symbols stay the active ones; the
  same list does not start it again, but the warning stands until it is.
* A new session may trade the candle the previous session traded, and a session
  on another symbol leaves the position of the earlier one unwatched.

## Not modelled

* Technical analysis, AI scoring, sentiment and fusion: functions of candles
  with no state and no trading decision; the scanners take their results as
  inputs. The AI advisory matters in one place, where it can raise between a
  fill and the saving of the account; that is in `PaperRuntime`.
* Texts, labels and explanations of signals and reports; request parsing and
  response models; plain listings of rows.
* REST clients, heatmap and derivatives vendors, schema, configuration, front
  end: input and output.
* The staleness that the market stream shows to the user.
* `backtest`, `portfolio`, `decision` and others are placeholders.

## Plan

Done: broker, rules, runner, runtime, both scans, the market-data services, the
research side (tuning, outcomes, scoring, reports), and the proofs above: every
safety property of every passing run. Next: the eligibility rules; the composition of
`/bot/start` with the backfill it awaits, the staleness of the market stream, and the
remaining tables of the validation report; proofs that lead from the broker's
`BrokerInv` to `Covered` within one specification.
