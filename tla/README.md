# CryptoSwarm in TLA+

CryptoSwarm is one Python process (`src/backend/src/cryptoswarm/main.py`) of
fifteen asyncio tasks around a Valkey pub/sub bus: a market feed, five analysis
agents and a Director that turns their results into trading signals, a paper
trading engine with its risk breakers, storage subscribers that write TimescaleDB
and PostgreSQL, and a learning side. A Go gateway and a web frontend read the
databases and the bus; seven scripts backtest the signals. This directory models
the part that decides and books trades, the services around it, the gateway's hub
and the backtests, checks them with TLC on small instances, and proves every safety
property that a passing run checks for all instances with TLAPS.

Paths without a prefix are relative to `src/backend/src/cryptoswarm/`.

## Inventory

| Component | State | Operations | Talks to | Correct when |
|---|---|---|---|---|
| Paper engine `papertrade/engine.py` | account, last marks, two breakers | handle a signal, handle a mark, close a position | signals and marks in, `trade.*`, `position.update`, `risk.veto`, `circuit.tripped` out | the cap holds, a trade lives and ends once, no signal vanishes, handlers and positions end |
| Account and money `papertrade/account.py`, `math.py` | balance, open positions | open, close, update_mark, (apply_funding: unused) | called by the engine | money is conserved, isolated margin bounds a loss |
| Breakers and guard `risk/` | cumulative PnL, peak equity, tripped | update, reset, check | called by the engine; reset over HTTP | no close is missed, a tripped breaker stops fills |
| Trade storage `storage/subscriber.py`, `postgres.py` | rows of `trades`, `rl_tuples` | insert open, update close, orphan pass at boot | bus, PostgreSQL | rows follow trades: closed once, never while live, no orphan after a boot |
| Director `agents/director.py` | pending results and events by correlation id, cooldowns | schedule, collect, wait, decide, store, signal | agents over the bus, language model, `decisions` table | nothing leaks, a full panel, a signal needs the portfolio's approval, one signal per cooldown |
| Analysis agents `agents/{quant,risk_agent,sentiment,ml_agent}.py` | none (sentiment: the cached fear and greed index) | one request at a time | bus, tables, language model | each request is answered at most once, from what was known |
| Portfolio agent `agents/portfolio.py` | its own view of open positions | note an update, approve or reject | bus | its view agrees with the engine's in the end |
| Learning `agents/reward_computer.py`, `learning/`, `ml/` | entries registered, experience buffer, prompt cache | reward a close, train, evolve and cache prompts | bus, PostgreSQL, language model | a reward reaches its trade, an entry is learnt from once, the cache is not stale for ever |
| Features and Kronos `ml/{features,kronos_model}.py` | none | build features, forecast, derive a direction | tables | never raises; no forecast means no confidence |
| Feed `feed/` | connection, backoff | connect, receive, publish, back off | Binance, bus | it reconnects for ever |
| Time series `storage/timescale.py`, `subscriber.py` | candles, marks, fundings | store a message, read the latest | bus, TimescaleDB | a stored candle is final, the latest mark is the newest |
| Scraper `scraper/` | none | search, score, write, publish | web, language model, PostgreSQL | what is announced is stored; a failure ends an article, not the task |
| API `api/`, `grpc_server.py` | none | views, breaker reset, test signal | engine, databases | |
| Go gateway `src/go-backend/` | websocket clients, login attempts | register, broadcast, limit | Valkey, PostgreSQL, gRPC | no goroutine waits for ever, dead clients leave |
| Frontend `src/frontend/` | a socket and a timer per page | connect, reconnect, show | gateway | it reconnects |
| Backtests `src/backend/scripts/` | bars, simulated trades, metrics | page, replay, fold, measure, vote | Binance over HTTP | no bar is skipped, no test looks at its training days |
| Settings, schema | | | | |

What makes this hard is that coroutines interleave at every `await` while their
messages travel over different connections; that state is read before an await and
used after it; that Valkey pub/sub delivers at most once; that an exception in any
task ends the process, whose trading state is in memory only; and that the
database outlives it. `PROJECT.json` lists each such place with its line under
`hazards`.

## Modules

| Module | Models | Extends |
|---|---|---|
| `PaperMath` | `papertrade/math.py` | |
| `Sums` | `sum(...)` over a dict's values, in a form TLAPS can reason about | |
| `PaperEngine` | engine, account, breakers, guard, breaker reset, end and restart of the process | `PaperMath`, `Sums` |
| `TradeLifecycle` | abstract: what the engine promises about signals and trades | |
| `EngineDays` | `PaperEngine` with midnights | `PaperEngine` |
| `TradeStore` | `PaperEngine` composed with bus, trades subscriber, tables, orphan pass | `PaperEngine` |
| `Director` | Director, result collector, agents as servers, cooldown | |
| `MarketData` | feed, frame handler, market subscriber and tables, forecasts and their agent | |
| `News` | scraper, scorer, news writer, sentiment agent with its cached index | `Sums` |
| `Learning` | reward computer, policy, prompt store, prompt evolution | |
| `Gateway` | the Go hub and its connections, the browser's websocket hook | |
| `Services` | the four modules above as tasks of one specification | `MarketData`, `News`, `Learning`, `Gateway` |
| `Downloads` | the paging loops of the backtest scripts | |
| `Backtests` | replays, folds, grid, curves and votes of the scripts | `Downloads` |
| `MCPaperEngine`, `MCEngineDays`, `MCTradeStore`, `MCDirector`, `MCServices`, `MCBacktests` | small instances for TLC | the module in the name |
| `SumProofs` | lemmas about `Sum` | `Sums` |
| `PaperEngineProofs` | types and handler locals | `PaperEngine`, `SumProofs` |
| `PaperEngineSafety` | safety theorems: cap, breakers, no signal dropped | `PaperEngineProofs` |
| `PaperEngineMoney` | safety theorems: the account's books, isolated margin | `PaperEngineProofs` |
| `TradeProofs` | the life of a trade: refinement of `TradeLifecycle`, the store's theorems | `TradeStore`, `PaperEngineProofs` |
| `DirectorProofs` | types, the collector's dicts, panel and approval, cooldown | `Director` |
| `ServicesProofs` | types, candles, answers, news, sentiment, entries, prompt cache | `Services`, `SumProofs` |
| `BacktestProofs` | downloads, replays, folds, the equity curve | `Backtests`, `SumProofs` |

A definition followed by the note "a mutant" is not part of a model: it is a
plausible slip in the definition after it, and `PROJECT.json` says which property
notices it.

### PaperEngine

The two coroutines of the engine, `sig` (`_handle_signals`) and `mrk`
(`_handle_mark_prices`), share one event loop and give way only at
`await bus.publish(...)`. So an action is the code between two publishes, `pc[t]`
is the publish after which coroutine `t` goes on, and `wire[t]` is the message it
is publishing. `Deliver(t)` is the server receiving it; the two coroutines use
different connections of the pool, so the order of two `Deliver`s is free.

| Variable | Code |
|---|---|
| `balance`, `positions` | `Account._balance`, `Account.open_positions` |
| `lastMark` | `PaperTradeEngine._last_marks` |
| `daily`, `maxDD` | the two breakers |
| `call[t]` | locals of `_close_position` in coroutine `t` |
| `cur` | the signal `_process_signal` is working on across an await |
| `up` | the process runs |
| `sent`, `status`, `realised`, `sinceReset` | history, for the properties only |

`TakeSignal` is `_process_signal` up to its first publish (skip, flip, veto, fill
or an exception), `DecideAfterFlip` its continuation after the flip's close,
`ReportFill` its last publish. `TakeMark` is `_process_mark` up to its publish;
`Close`, `CountClose` and `FinishTrip` are the three segments of `_close_position`,
in either coroutine. `Age` is time passing the six hours. A ValidationError, a
ValueError or a ZeroDivisionError sets `up` to FALSE, because `engine.run` and
`main` gather their tasks and catch nothing; `Kill` is any other end of the
process, and `Restart` builds everything anew.

Abstractions: amounts are integers in 1/500 USD and rates are in 1/2500, in which
every rate of `settings.py` is exact; a quotient rounds down. `qty`, the margin,
the liquidation price and the entry fee are functions of the signal and the entry
price. `old` stands for `opened_at`. Sizes and leverages are not negative
(the guard does not check it). The clean-up in `main`'s `finally`, during which the
other tasks are still scheduled for a moment, is taken as instantaneous.
Funding is left out: nothing calls `apply_funding`, so `funding_paid` stays 0.

`CloseReasons` is the Literal of `PositionUpdate.close_reason`. The shipped one
lacks `max_hold` and `direction_flip`, so with it the code after a flip's close is
never reached. `engine_loss` gives it all the reasons that `TradeClosed` names, to
examine that code as well; the other runs have the shipped Literal, and whether a
signal is lost is asked only of the shipped one (`engine`, `engine_flip`). The theorems
hold for any Literal.

`TradeLifecycle` says the same without coroutines, publishes or money: a signal is
refused, skipped, filled or half served, once and in order; a trade lives in one
symbol, within a cap, and ends once; a restart forgets what was live. The mapping
keeps `status` and takes the correlation id out of each position.

### TradeStore

Adds the subscriber as a third coroutine: `inbox` is what the bus has handed it,
`storing` the point between the two statements of a `trade.executed`. `Deliver2`
replaces `Deliver`: a message that is received while nobody is subscribed is lost.
`rows` and `tuples` are the tables, which survive the process; `boot` is the orphan
pass, which `main` finishes before it creates any task, and which may be cut short.
`closes` counts how often a row was closed, and `former` how many signals the sessions
before this one had taken; both are history.

### Director

A task per symbol and cycle. `pc[r]` is where the task of request `r` is;
`pending` and `event` are the dicts of the collector, keyed by correlation id;
`hot` are the symbols in their cooldown. The agents are queues: `Answer` and
`GiveUp` take a request and publish a result or not. The decision is "hold" or
"trade"; prompts, sizes, stops and the reload of an evolved prompt are data.
`TimeOut` is always possible while a task waits, since nothing relates the speed of
an agent to the clock. A Valkey failure is not an action: it ends the collector's
subscription and with it the process. `Cool` assumes that one publish takes less
than the five minutes of a cooldown.

### MarketData

One symbol, time in minutes. The exchange's frames wait in `socket` until
`Receive` takes one and makes the first publish of its messages; a mark frame owes a
second one (`PublishFunding`), and a failure between the two takes it. `FeedFails` is
any exception of `_connect_and_stream`, `Retry` the end of the sleep; the backoff is
never set back, since the call never returns. `ConsumeMarket` is `_route_market` with
the `ON CONFLICT DO NOTHING` of each table, or the statement raising. `marks` is
keyed by the next funding time, as the code stamps it, and holds the minute a mark was
quoted in, which is what the property needs of its price. The agent `ml` goes through
its awaits one by one: fetch, build, infer, publish, insert, with the neutral path of
the except clause. A forecast is any of `Forecasts`; `DeriveSignals` is what
`kronos_model.py` makes of it. `received` and `lost` are history: the final candles that
reached the open socket, and those of them a failure took. What closes while the feed is
down is in neither.

### News

`scraper` is where the cycle is, `todo` the symbols of the loop `write()` is in: the
item, a sentiment row per symbol, then a publish per relevant symbol. `WriteFails` is
any of these raising, which the step past an irrelevant symbol cannot. `MaxArticles`
and `MaxRows` bound a cycle and the window. Rows leave the sentiment
agent's window by `RowExpires`, while the scraper sleeps. The weighted mean and the combined score are kept as fractions. `index` is `_fng_cache`
with its age.

### Learning

`Wiring` names the three links the docstrings count on (`register_open`, a
`correlation_id` in the stored action, the same id in the closing `position.update`).
The program has none of them; the run `unrewarded` checks it so, the run `services`
gives it all three to examine the handlers. `get()` of the prompt store is two steps,
`GetActive` and `GetFills`, and `save()` two others, `SaveAgentPrompt` and
`Invalidate`, for the two readers to interleave. Two simplifications: one director reads
at a time, though several symbol tasks may be inside `get()` at once, and `Wake` uses
that the interval of the evolution is longer than a read of a row takes, which the code
does not enforce. Each further reader that is as fast could leave only what the one
may leave; a read that outlasts an interval could put back a prompt that is older by
one more save.

### Gateway

Each connection has its `ServeWS` goroutine (`serve`), and there is one `Run`. The
critical sections of `ServeWS` are single steps; that of `Run` lasts from `ReadLock` to
`ReadUnlock` with a `Write` per client, and begins only when no writer waits, as Go's
`RWMutex` has it. `full` says that a peer has not read what was written, so the next
write to it blocks. `timers`, `current` and `mounted` are the hook of the browser,
whose clean-up clears no timer.

### Services

The tasks of these modules meet only in the tables, which their actions read as they
are at the moment. `part` says which of them a behaviour exercises; it does not change.
A part's properties see only its own variables, so nothing is lost by checking the
parts one at a time, and the product of their states is avoided. `forecast` joins the
feed and the agent that reads its candles.

### Backtests

One script per behaviour (`script`). `Downloads` has the seven paging loops, each with
its own step and reason to stop. A replay is an outer loop (`i`) and one
simulated trade the inner loop follows (`trade`). Returns are whole multiples of
`1/Den`: the scripts compute them in floating point, and `PriceAssumption` makes the
unit so fine that nothing is rounded. Equity is kept as an integer that grows by a
factor `Den` per trade, as does `unit`, the amount that stands for 1, and a drawdown as
a fraction. Indicators and the models' directions are data, chosen freely per bar. The
win rates and the direction accuracies the scripts print are left out.

## Runs

| Run | Instance | Shows |
|---|---|---|
| `engine` | two symbols, one slot, two signals, three prices, kills, signals that cannot be computed | `TypeOK`, `PositionCap`, `LiveIffHeld`, `MoneyConserved`, `ImplementsTrades`, `NoSignalDropped` |
| `engine_loss` | one symbol, three signals of two kinds of stop, every close reason accepted | `EveryCloseCounted`, `LossTripsBreaker`, `FillPastLimitOnlyMidClose`, `NoFillWhileTripped`, `IsolatedLoss` |
| `engine_live` | one symbol, two signals, kills, fairness | `HandlersReturn`, `PositionsEnd` |
| `store` | one symbol, two signals, kills, failing statements, interrupted boots | `StoreTypeOK`, `RowClosedOnlyAfterTrade`, `RowClosedOnce`, `NoOrphanOnceUp` |
| `director` | two overlapping cycles of one symbol, three agents | `TypeOK`, `NothingLeaks`, `FullPanel`, `OneSignalPerCooldown`, `AnalysesEnd` |
| `services` | a feed of three minutes, forecasts, news of two symbols, two trades and three prompts, two pages and two connections | `ServicesTypeOK`, `ReceivedCandlesStored`, `MLAnswersOnce`, `PublishedAreStored`, `SentimentIsBacked`, `EntryUsedOnce`, `CachedPromptAtMostOneBehind`, `LoopsComeBack`, `DeadConnectionsLeave` |
| `backtest` | each script over every history of three to six bars at two prices, one of which may be missing | `TypeOK`, `DownloadComplete`, `EndsAtFirstTouch`, `TestAfterTraining`, `DrawdownIsWorstFall`, `ScriptsEnd` |
| `engine_flip` | shipped close reasons, no kills | `NoSignalLost` is violated |
| `engine_stops` | Director signals only | `StopNeverGains` is violated |
| `engine_days` | two losing trades and a midnight | `DailyMeansToday` is violated |
| `store_late` | one long trade, nothing fails | `ClosureReachesRow` is violated |
| `unrewarded` | the learning part, wired as the program wires it | `HandledCloseIsRewarded` is violated |

Bounds, and why they are enough:

- Signals (`MaxSignals`): two are needed for a second signal to find a first one's
  position, breaker or half-done close; three for two losses and a fill after them.
- Symbols: two with one slot make the cap bind; otherwise one, because the engine
  couples symbols through the count, the balance and the breakers only.
- Prices 900, 1000 and 1125: with stops of the Director (2 %) and of the test
  endpoint (850, beyond the liquidation price of a long filled at 1125) they reach
  stop, target, liquidation, a price between, and losses past the 3 % limit in two
  trades. Rates and the balance are those of `settings.py`.
- Cycles: two are needed for the overlap of two decisions about one symbol and for
  a result of an earlier cycle that arrives in a later one. Symbols share nothing in
  the Director.
- Agents: a task tells the portfolio agent's result from the others' and no more.

- Services: three minutes with a funding after the second give a candle before, at and
  after the change of period; one frame unread and one message unstored let a failure
  take either. Two
  symbols let a failure fall between two rows of an article; scores lie outside their
  range and relevances on both sides of the threshold. Two trades of one symbol make
  the second open while the first close is handled. Two connections are the least with
  which one can wait for the lock that the other's write holds, and two pages the least
  for one to leave while the other stays.
- Backtests: pages of two bars end on a full page, a short page, an empty page and a
  page with a gap. Bars are quiet at either of two prices or touch both levels of a
  position; with leverages 1 and 3 a stop liquidates under one and not the other. Six
  bars are enough for two folds and two windows in each. The period is a whole number of
  bars a day (`DayAssumption`), as ninety days of minutes are, so that a fold's day is a
  bar's open time; histories with a bar missing are those on which `FoldsAreDays` fails.
  The mutant of `ScriptsEnd` makes the scan of script 5 stand still. A step left out of
  the outer loop of scripts 1, 6 and kronos would append to the results without bound,
  which TLC cannot follow to a cycle.
- The safety properties of all these runs are also proved for every value of the
  constants (see Proofs), so for them the bounds only decide how soon TLC would notice
  a mistake in the model; for the liveness properties they are what was examined.

Symmetry is used in `engine` only, over the two symbols, which has no liveness.
The Director's run does not check for deadlock, as its cycles are bounded and it
ends when they are over.

Fairness. `engine_live`: the loop resumes a coroutine that can run and the server
answers (weak fairness); the feed sends marks of every listed symbol for as long
as the process lives, and since a handler may be busy whenever one arrives this is
strong fairness of `TakeMark`; time passes (`Age`), and the container has
`restart: unless-stopped`. Nothing is assumed of signals, resets and kills.
`director`: each task takes its steps; for the time-out this is a timer, for the
model and the database that a call returns or raises (`agents/llm.py` bounds its
HTTP calls). The agents owe nothing. `services`: the sleep of the feed ends; a task in
the middle of its work goes on, because its statements return or raise and its requests
have timeouts; the Go scheduler runs every goroutine that can go on. Nothing is assumed
of the exchange, of connections that are to last, of requests that are to come or of
the browsers: `DeadConnectionsLeave` holds only as long as no peer leaves what was
written to it unread for ever, and says so, because `WriteMessage` has no deadline and
one such peer stops the hub. `backtest`: the script runs, and a request ends
(`timeout=`), so weak fairness of the next step. That run, too, ends, and does not
check for deadlock.

## Findings

- `engine_flip`: a direction flip closes the old position and then builds a
  `PositionUpdate` whose schema refuses the reason `direction_flip`
  (`bus/messages.py:101`, against the comment in line 110). The process ends between
  the close and the fill. `max_hold` raises in the same way.
- `engine_stops`: `src/README.md:75` promises a stop 2 % from the entry. It is 2 %
  (or what the model says) from the close that the quant agent saw, and the fill is
  at the last mark. After a larger move the stop lies on the winning side of the
  entry, the next mark triggers it, and a gain is booked at a price where the market
  is not.
- `engine_days`: the daily-loss breaker adds up losses for the life of the process.
- `store_late`: the two handlers' publishes may overtake each other; a
  `trade.closed` before its `trade.executed` leaves the row open until the next boot.

- `unrewarded`: the reward of a close never reaches its `rl_tuples` row
  (`agents/reward_computer.py:100`), since the stored action has no correlation id and
  the closing `position.update` has a fresh one; nothing calls `register_open`, so the
  policy is never trained either.

Six more sentences of the repository that the code does not keep are properties too.
Each has a configuration that refutes it (`tlc -config X.cfg M`), which stands beside
the runs and is not one of them:

- `SignalBeforeRow` (`DirectorOrder.cfg`, `MCDirector`): `agents/director.py:8-9` lists
  "publish Signal" before "Persist DirectorDecision"; the code stores first, so there
  are stored decisions to trade whose signal is still to come, or never comes if its
  publish raises.
- `GapsAreFilled` (`FeedGaps.cfg`, `MCServices`): `get_klines` is for "gap-fill on
  reconnect" (`feed/rest_client.py:46`), but nothing calls it: the minutes closed during
  a reconnect stay missing.
- `LatestMarkIsNewest` (`LatestMark.cfg`, `MCServices`): "the most recent mark price"
  (`storage/timescale.py:103`, and likewise `main.py:83` and `storage/postgres.py:91`) is
  the first mark of the newest funding period that was stored, up to eight hours old.
- `ReplayStartsAfterEntry` (`BacktestEntry.cfg`, `MCBacktests`): the trades of scripts 1, 6
  and kronos enter at the close of a bar and are replayed from that bar on, whose high
  and low came before, not "after entry" (`backtest_1_kronos.py:117` and `:154`).
- `FoldsAreDays` (`BacktestFolds.cfg`, `MCBacktests`): the folds are designed in days
  (`backtest_6_walkforward.py:8-11`) and cut in bars (line 350); with gaps, bars of the
  training days are tested.
- `MissingIsNeutral` (`BacktestVotes.cfg`, `MCBacktests`): the MACD and the EMA vote short
  while they have no value (`backtest_2_quant.py:117` and `:120`), where 0 is to be
  neutral (line 110).

## Proofs

For every set of symbols, signals and prices, every cap, rate and bound allowed by
`EngineAssumption`, `NullAssumption` and `RateAssumption`; for the store, with the
`StoreAssumption` that no set of rows is `Null`; for the Director, every
list of symbols, set of agents and number of cycles allowed by `DirectorAssumption`;
for the services, everything their assumptions allow (prices, periods, backoffs, bar
counts, forecasts, scores; markets, outcomes and every wiring of the learning side;
pages and connections); for the scripts, every history, page size, window, fold, grid,
leverage and reading allowed by `PagingAssumption`, `HistoryAssumption`,
`BacktestAssumption`, `DayAssumption` and `PriceAssumption`. Two theorems have a
hypothesis besides, in the last column:

| Theorem | States | If |
|---|---|---|
| `TypeCorrect` | `Spec => []TypeOK` | |
| `PositionCapHolds` | `Spec => []PositionCap` | |
| `EveryCloseCountedHolds` | `Spec => []EveryCloseCounted` | |
| `LossTripsBreakerHolds` | `Spec => []LossTripsBreaker` | |
| `FillPastLimitHolds` | `Spec => FillPastLimitOnlyMidClose` | |
| `NoFillWhileTrippedHolds` | `Spec => NoFillWhileTripped` | |
| `MoneyConservedHolds` | `Spec => []MoneyConserved` | |
| `IsolatedLossHolds` | `Spec => []IsolatedLoss` | `FineUnit` |
| `NoSignalDroppedHolds` | `Spec => []NoSignalDropped` | |
| `DirectorTypes` | `Spec => []TypeOK` of `Director` | |
| `NothingLeaksHolds` | `Spec => []NothingLeaks` | |
| `FullPanelHolds` | `Spec => []FullPanel` | |
| `OneSignalPerCooldownHolds` | `Spec => []OneSignalPerCooldown` | |
| `LiveIffHeldHolds` | `Spec => []LiveIffHeld` | |
| `ImplementsTradesHolds` | `Spec => ImplementsTrades`: the engine refines `TradeLifecycle` | |
| `StoreTypes` | `StoreSpec => []StoreTypeOK` | |
| `RowClosedOnlyAfterTradeHolds` | `StoreSpec => []RowClosedOnlyAfterTrade` | |
| `RowClosedOnceHolds` | `StoreSpec => []RowClosedOnce` | |
| `NoOrphanOnceUpHolds` | `StoreSpec => []NoOrphanOnceUp` | |
| `ReceivedCandlesStoredHolds` | `ServicesSpec => []ReceivedCandlesStored` | |
| `MLAnswersOnceHolds` | `ServicesSpec => []MLAnswersOnce` | |
| `EntryUsedOnceHolds` | `ServicesSpec => []EntryUsedOnce` | |
| `CachedPromptHolds` | `ServicesSpec => []CachedPromptAtMostOneBehind` | |
| `ServicesTypeOKHolds` | `ServicesSpec => []ServicesTypeOK` | `BackoffFits` |
| `PublishedAreStoredHolds` | `ServicesSpec => PublishedAreStored` | |
| `SentimentIsBackedHolds` | `ServicesSpec => SentimentIsBacked` | |
| `DownloadCompleteHolds` | `Spec => []DownloadComplete` of `Backtests` | |
| `BacktestTypeOKHolds` | `Spec => []TypeOK` of `Backtests` | |
| `EndsAtFirstTouchHolds` | `Spec => []EndsAtFirstTouch` | |
| `TestAfterTrainingHolds` | `Spec => []TestAfterTraining` | |
| `DrawdownIsWorstFallHolds` | `Spec => []DrawdownIsWorstFall` | |
| `SumUpdate` (`SumProofs`) | how `Sum` changes with one value of its function | |
| `MeanWithin` (`SumProofs`) | a weighted mean lies within the values that have a weight | |

The hypotheses, and what they leave out:

- `FineUnit`: every mark, entry, stop and target is high enough that its maintenance
  margin is at least one unit. The code keeps the liquidation price as a float; the
  model rounds it to the unit, and with coarser units that rounding alone could cost
  more than the margin. With the shipped rate of 0.4 % it asks for prices of at least
  250 units.
- `BackoffFits`: the first backoff is not above the greatest (1 s and 60 s in
  `feed/ws_client.py`).
- `PagingAssumption` asks for pages of at least two bars (the scripts ask for 1000),
  because script 4 stops at a page whose last bar is not past the cursor, which a page
  of one bar at the cursor never is. `HistoryAssumption` asks that the exchange holds finitely
  many bars, at least an interval apart. Gaps are allowed.
- `DayAssumption` asks for a period of whole days, each a whole number of bars.
  `TestAfterTraining` itself asks for a history without gaps (`Gapless`); without that
  it fails, as `BacktestFolds.cfg` shows.
- `PriceAssumption` makes the returns exact, as said under Backtests: what is proved of
  the drawdown is the algorithm, not its rounding in floating point.

The argument. `TypeOK` alone is not inductive: `CountClose` reads `call[t].net`,
which has a type only if a coroutine in the middle of a close has a `call`, and
`DecideAfterFlip` reads `cur`. `HandlerLocals` says so, and that the symbol of a
flip stays free until the flip decides, because only `sig` opens positions.
`Inv == TypeOK /\ HandlerLocals` is inductive (`InvHolds`), one lemma per action.

`StepOpens` then shows that a step either opens no symbol or is a `Fill`, in a
segment with the checks before it and the breakers unchanged. The cap follows with
the cardinality theorems. `EveryCloseCounted` is inductive given `Inv`: `Close` adds
the same amount to `sinceReset` and to what is pending, `CountClose` moves it into
`daily.cum`, a reset leaves what is pending. `LossTripsBreaker` needs besides that a
sum past the limit has tripped the breaker, which `UpdatePnl` and the reset
maintain. The action properties combine these with `StepOpens`.

`MoneyConserved` is inductive given `Inv`. By `SumUpdate`, `Fill` takes from the
balance what it locks, `Close` returns the lock with the net PnL it also adds to
`realised`, and a new mark, which replaces a whole position, leaves its lock alone.

`IsolatedLoss` speaks of the closes under way. `LiqDistance` bounds the distance from
the entry to the liquidation price by 1/leverage of the entry, and `LossWithinMargin`
carries that through the quotients of `Qty` and `Margin`. A stop is closed at its own
price, and only at a mark that has not passed the liquidation price, because
`_process_mark` looks at that first. `FineInv` adds that entries and marks are fine.

`NoSignalDropped` is inductive given `Inv`: a flip takes a signal only while nothing is
taken, each part of its close leaves the signal with `sig` or ends the process, and the
decision gives it its outcome (`AnnounceKeeps`, `DecideAnswers`). That a signal is lost
when the process ends is no exception to it; how the shipped schema ends it in the middle
of a flip is the finding of `engine_flip`. The loss of a signal to a kill is inherent:
nothing about a signal is ever stored.

For the Director, `Dicts` joins `TypeOK`, `NothingLeaks` and `Unborn`: the copy a
waking task takes has a type only because the task owns an entry, and a cycle may
only start tasks that do not exist yet. Over `Dicts`, `FullPanel` follows from
`Heard` (everything filed under a request was said to it) and `Grounded` (what a task
has gone through, by its stage); its half about the approval needs also `AnsweredOnce`,
that an agent answers a request at most once, so the approval that was taken is the only
one; `OneSignalPerCooldown` follows from `Cooling`: two tasks of a symbol are never
both about to signal, because the check and the start of the cooldown are one
segment.

The life of a trade (`TradeProofs`). `StepKinds` sorts the engine's steps into four
kinds: a signal is settled, a trade opens, a trade ends, or nothing happens to any;
each says what it publishes. Over `Inv`, `Lives` is inductive: a position is of a live
trade and filed under its symbol, every live trade has one, signals come in order, and
the one "taken" is the one in the handler's hands. The last two parts are what
`TradeLifecycle` calls serving, so each kind maps to one of its actions or to a stutter
(`StepImplements`). The store's invariant `StoreInv` adds what messages say: an
announced close is of a closed trade whose row is not yet closed (`Agrees`), and is
announced once over both connections and the inbox (`Once`), which is why the missing
guard on `closed_ts` books nothing twice; and during the orphan pass the open rows are
exactly those still to close (`Boots`), so an interrupted pass loses none. `Past` says
that what a former session took has ended and that no message under way is about it, so
its rows, closed by the pass, stay closed.

The services (`ServicesProofs`). The first four lemmas say that each step is one of a
single part and leaves the variables of the others alone. Each invariant then has a
strengthening of its own. `CandleInv`: every final frame in the socket, tick on the bus
and stored candle carries the close of its minute (`AllFinal`), and each minute that was
received is in one of these places or lost (`AllAccounted`). `FeedInv`: whatever carries
a funding time carries that of a minute which has begun. `AnswerInv` counts answers by
phase. `ScraperInv`: while an article is written, the symbols without a row are those
the first loop has still to come to, and the rows still due fit under the bound; so a
score is sent only when all rows are there. `AgentInv` types the sentiment agent; that
its mean lies within the scores is `MeanWithin`, over the symbol's relevant rows.
`EntryInv`: an entry is in one place, registered, in hand or learnt. `LearningInv` adds
that a reward stays within the bounds of its parts and a new version within those saved.
`CacheInv` bounds also what a reader has read but not yet cached, by the version that
was active then. `GatewayInv` gives the connections a shape.

The backtests (`BacktestProofs`). `Ascending` lists a finite set of times in order (each
place up to its size is taken by exactly one time), from which follow what a page holds
and what the data frame holds. `DownloadInv`: between two requests of a loop the bars
received are exactly those from `Start` to the cursor; so it does not matter whether a
page was full, short or had a gap, and the reason a loop stops implies that its period
is covered. `ReplayInv` says of the trade that is followed that no bar before the one
the loop is at has touched a level (`TradeInv`), of every result what `EndsAtFirstTouch`
says of it (`ResultInv`), and of script 6 that the bar the loop is at lies a window or
more after the cut-off share of the bars that begins the fold's test (`PlaceInv`).
`ShareIsDays` carries that over to days: with every bar of the period the bar at that
share of the bars opens when that share of the days is over. `TallyInv`: in each pair
there is one result for each signal passed, and each stored metric is that of a curve
for which `CurveOK` holds at its last point: the peak is the highest point so far and
the worst is the worst fall so far, over all pairs of points. `CurveOK` goes through the
recursive function of the curve by the least place at which it would fail
(`SetInduction`), since the library's induction theorems cannot be instantiated here.

Only model-checked: all liveness, namely `HandlersReturn`, `PositionsEnd`,
`AnalysesEnd`, `LoopsComeBack`, `DeadConnectionsLeave` and `ScriptsEnd`. Liveness under
fairness and ENABLED are beyond the proof system and stay with TLC. The eleven violations
under Findings are TLC's too: a counterexample is one behaviour.

## Plan

Modules, most important first; those without a note are done.

1. `PaperEngine` with `TradeLifecycle`, `EngineDays` and their theorems.
2. `TradeStore`: the engine composed with what outlives it, and its theorems.
3. `Director` and its theorems.
4. `MarketData`, `News`, `Learning`, `Gateway`, composed in `Services`, and theorems.
5. `Downloads` and `Backtests`.
6. To come: `PortfolioView`, the portfolio agent's positions against the engine's, with
   `position.update`s of two connections in either order, and its hard cap.
7. To come: `SignalPath`, Director, engine and portfolio view composed: a vetoed signal
   still costs its symbol the cooldown.
8. To come: the login rate limiter of the gateway, the indicators against reference
   definitions.

Abstract specifications: `TradeLifecycle` (done, checked and proved); an eventually
consistent copy for the portfolio view (to come).

Theorems worth proving next: that the hub's read lock and a writer never hold at once
and a closed client is never written to; that every exit of a handler frees what it
holds, the safety half of `HandlersReturn`; with `PortfolioView`, that its view is the
engine's once everything under way is delivered in order.

## Not modelled

- Language model clients (`agents/llm.py`), prompts and the parsing of answers: a call
  answers or raises, which is how every module that makes one has it.
- The vendored Kronos transformer (`ml/kronos_vendor/`) and the indicators
  (`agents/indicators.py`): numeric code; a forecast or an indicator is any value of a
  small set.
- The HTTP and gRPC API and the gateway's REST queries: read-only views, but for the
  breaker reset (in `PaperEngine`) and the test signal (a member of `Signals`).
  Authentication, tokens and the login limiter.
- The portfolio agent's view of the positions: its approval is data in `Director`.
- `apply_funding` and `calc_funding`: only tests call them.
- Tables without a reader (order book, liquidations, circuit events): plain inserts.
- The frontend's pages, apart from the websocket hook; the scripts' printing and plots.

`PROJECT.json` lists each part under `components`. The confidence threshold of
`src/README.md:63` has no counterpart in the code, so there is nothing to model.
