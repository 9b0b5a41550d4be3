------------------------------ MODULE Backtests ------------------------------
(***************************************************************************)
(* What the backtest scripts do with the bars they fetched (Downloads).    *)
(* Scripts 1, 6 and kronos slide a window over the bars, let the Kronos    *)
(* model forecast a direction and follow it with one simulated trade per   *)
(* window; script 5 trades every signal for each stop and take profit of a *)
(* grid and measures the results under leverage; scripts 2, 3 and 4 count  *)
(* how often votes or the fear and greed index foretell the price.         *)
(*                                                                         *)
(* Stops, take profits and returns are in 1/Den of the entry price.  Bars  *)
(* are numbered from 0, as in the scripts; bar i is frame[i + 1].          *)
(***************************************************************************)
EXTENDS Downloads

CONSTANTS
    Den,            \* the unit of returns: a return of 1 is Den
    SlPct, TpPct,   \* SL_PCT, TP_PCT of scripts 1, 6 and kronos
    SeqLen,         \* SEQ_LEN: the bars of a window
    PredLen,        \* PRED_LEN, LOOKAHEAD: the bars a forecast reaches
    Step,           \* STEP_HOURS in bars
    Days,           \* DAYS, the unit of Folds
    Folds,          \* FOLDS: train start, train end and test end, in days
    Grid,           \* the pairs of SL_RANGE and TP_RANGE, in order
    Leverages,      \* LEVERAGES
    Signals,        \* the values a bar's entry signal takes in script 5
    Readings        \* the indicator readings a bar may have in scripts 2 and 4

ASSUME BacktestAssumption ==
    /\ {Den, SeqLen, PredLen, Step, Days} \subseteq Nat \ {0}
    /\ SlPct \in 1 .. Den - 1 /\ TpPct \in 1 .. Den - 1
    /\ Folds # <<>> /\ Folds \in Seq(Nat \X Nat \X (0 .. Days))
    /\ Grid # <<>> /\ Grid \in Seq((1 .. Den - 1) \X (1 .. Den - 1))
    /\ Leverages \in Seq(Nat)
    /\ Readings \subseteq [rsi : {"low", "high", "none"}, macd : {"up", "down", "none"},
                           ema : {"up", "down", "none"}, bb : {"below", "above", "none"},
                           strong : BOOLEAN, volume : BOOLEAN]

Bars == {b \in [low : Nat \ {0}, high : Nat, close : Nat] : b.low <= b.close /\ b.close <= b.high}

\* The scripts compute returns in floating point; here Den is so fine a unit that
\* every return between two closes is a whole number of it.
ASSUME PriceAssumption ==
    \A s \in Scripts : \A h \in Histories[s] :
        /\ \A t \in DOMAIN h : h[t] \in Bars
        /\ \A t, u \in DOMAIN h : ((h[u].close - h[t].close) * Den) % h[t].close = 0

\* A day, the unit of Folds, is a whole number of bars.
ASSUME DayAssumption == (End - Start) % (Days * Interval) = 0

VARIABLES
    frame,      \* the data frame: bars with their open time, oldest first
    i,          \* the bar the outer loop is at
    trade,      \* the simulated trade the inner loop follows, or NoTrade
    results,    \* the trades simulated so far; the samples of scripts 2, 3, 4
    fold,       \* script 6: the fold; script 5: the pair of Grid
    metrics,    \* script 5: a record for each pair and leverage
    signals     \* script 5: the entry signal of each bar

vars == <<script, history, cursor, rows, pc, frame, i, trade, results, fold, metrics, signals>>

NoTrade == [side |-> "none", entry |-> 0, at |-> 0, k |-> 0, last |-> 0]

Bar(j) == frame[j + 1]
replayed == <<script, history, cursor, rows, frame, signals>>

-----------------------------------------------------------------------------
(* The data frame: sorted by open time, duplicates dropped.                *)

RequestOne ==
    /\ FetchPage \/ RequestFails
    /\ UNCHANGED <<frame, i, trade, results, fold, metrics, signals>>

BuildFrame ==
    /\ pc = "fetched"
    /\ LET times == Ascending(ToSet(rows))
       IN  frame' = [n \in 1 .. Len(times) |-> history[times[n]]]
    /\ pc' = CASE script \in {"1", "6", "kronos"} -> "fold"
               [] script = "5" -> "signals"
               [] OTHER -> "sample"
    /\ UNCHANGED <<script, history, cursor, rows, i, trade, results, fold, metrics, signals>>

-----------------------------------------------------------------------------
(* One simulated trade: entered at the close of bar "at", it is followed   *)
(* from bar k to bar "last"; i moves on to the next entry when it ends.    *)

HitsStop(t, sl, b) ==
    IF t.side = "long" THEN b.low * Den <= t.entry * (Den - sl)
                       ELSE b.high * Den >= t.entry * (Den + sl)

HitsTarget(t, tp, b) ==
    IF t.side = "long" THEN b.high * Den >= t.entry * (Den + tp)
                       ELSE b.low * Den <= t.entry * (Den - tp)

\* The return of closing trade t at price p.
Return(t, p) ==
    ((IF t.side = "long" THEN p - t.entry ELSE t.entry - p) * Den) \div t.entry

Exit(outcome, pnl, next) ==
    /\ results' = Append(results, [fold |-> fold, at |-> trade.at, side |-> trade.side,
                                   exit |-> trade.k, outcome |-> outcome, pnl |-> pnl])
    /\ trade' = NoTrade
    /\ i' = next

\* a mutant: the take profit is looked at before the stop
FollowTrade_TargetFirst(sl, tp, next) ==
    LET b == Bar(trade.k)
    IN  \/ trade.k > trade.last /\ Exit("timeout", Return(trade, Bar(trade.last).close), next)
        \/ trade.k <= trade.last /\ HitsTarget(trade, tp, b) /\ Exit("tp", tp, next)
        \/ trade.k <= trade.last /\ ~HitsTarget(trade, tp, b) /\ HitsStop(trade, sl, b) /\ Exit("sl", -sl, next)
        \/ /\ trade.k <= trade.last /\ ~HitsStop(trade, sl, b) /\ ~HitsTarget(trade, tp, b)
           /\ trade' = [trade EXCEPT !.k = @ + 1]
           /\ UNCHANGED <<results, i>>

\* One round of the inner loop: the stop first, then the take profit, then the
\* next bar; when the bars are used up, the trade closes at the last one.
FollowTrade(sl, tp, next) ==
    LET b == Bar(trade.k)
    IN  \/ trade.k > trade.last /\ Exit("timeout", Return(trade, Bar(trade.last).close), next)
        \/ trade.k <= trade.last /\ HitsStop(trade, sl, b) /\ Exit("sl", -sl, next)
        \/ trade.k <= trade.last /\ ~HitsStop(trade, sl, b) /\ HitsTarget(trade, tp, b) /\ Exit("tp", tp, next)
        \/ /\ trade.k <= trade.last /\ ~HitsStop(trade, sl, b) /\ ~HitsTarget(trade, tp, b)
           /\ trade' = [trade EXCEPT !.k = @ + 1]
           /\ UNCHANGED <<results, i>>

Scan(s) ==
    /\ pc = "trade" /\ script = s
    /\ FollowTrade(SlPct, TpPct, i + Step)
    /\ pc' = IF trade' = NoTrade THEN "window" ELSE "trade"
    /\ UNCHANGED <<replayed, fold, metrics>>

SimulateTrade1 == Scan("1")
SimulateTrade6 == Scan("6")
SimulateTradeK == Scan("kronos")

-----------------------------------------------------------------------------
(* Scripts 1, 6 and kronos.  Script 6 replays the test part of each fold   *)
(* as a frame of its own; the others have one part, the whole frame.       *)

\* a mutant: the test part begins where the fold's training begins
FoldBounds_FromTrainStart(f) ==
    IF script = "6"
    THEN <<(Folds[f][1] * Len(frame)) \div Days, (Folds[f][3] * Len(frame)) \div Days>>
    ELSE <<0, Len(frame)>>

FoldBounds(f) ==
    IF script = "6"
    THEN <<(Folds[f][2] * Len(frame)) \div Days, (Folds[f][3] * Len(frame)) \div Days>>
    ELSE <<0, Len(frame)>>

NextFold ==
    /\ pc = "fold"
    /\ fold' = fold + 1
    /\ IF fold = (IF script = "6" THEN Len(Folds) ELSE 1)
       THEN pc' = "done" /\ UNCHANGED i
       ELSE pc' = "window" /\ i' = FoldBounds(fold + 1)[1] + SeqLen
    /\ UNCHANGED <<replayed, trade, results, metrics>>

\* a mutant: the horizon of the last windows is not asked for
MoreWindows_NoHorizon == i < FoldBounds(fold)[2]

MoreWindows == i + PredLen < FoldBounds(fold)[2]

\* One round of the outer loop.  A forecast that fails skips the window; any
\* other is followed from the bar at whose close the trade is entered.
Window(s) ==
    /\ pc = "window" /\ script = s
    /\ IF ~MoreWindows
       THEN pc' = "fold" /\ UNCHANGED <<i, trade>>
       ELSE \/ pc' = "window" /\ i' = i + Step /\ UNCHANGED trade
            \/ /\ \E side \in {"long", "short"} :
                     trade' = [side |-> side, entry |-> Bar(i).close, at |-> i,
                               k |-> i, last |-> i + PredLen - 1]
               /\ pc' = "trade"
               /\ UNCHANGED i
    /\ UNCHANGED <<replayed, results, fold, metrics>>

BacktestSymbol1 == Window("1")
BacktestSymbolK == Window("kronos")
BacktestFold    == Window("6")

-----------------------------------------------------------------------------
(* Script 5: every signal of every bar but the last is traded, for each    *)
(* pair of the grid; the pair's trades are then measured under leverage.   *)

AddSignals ==
    /\ pc = "signals"
    /\ signals' \in [1 .. Len(frame) -> Signals]
    /\ pc' = "entry" /\ fold' = 1
    /\ UNCHANGED <<script, history, cursor, rows, frame, i, trade, results, metrics>>

\* a mutant: a bar without a signal is not passed over
RunBacktest_Stands ==
    /\ pc = "entry"
    /\ IF i >= Len(frame) - 1
       THEN pc' = "measure" /\ UNCHANGED <<i, trade>>
       ELSE IF signals[i + 1] = "none"
            THEN pc' = "entry" /\ UNCHANGED <<i, trade>>
            ELSE /\ trade' = [side |-> signals[i + 1], entry |-> Bar(i).close, at |-> i,
                              k |-> i + 1, last |-> Len(frame) - 1]
                 /\ pc' = "follow"
                 /\ UNCHANGED i
    /\ UNCHANGED <<replayed, results, fold, metrics>>

\* The outer loop of run_backtest: i in range(n - 1).
RunBacktest ==
    /\ pc = "entry"
    /\ IF i >= Len(frame) - 1
       THEN pc' = "measure" /\ UNCHANGED <<i, trade>>
       ELSE IF signals[i + 1] = "none"
            THEN pc' = "entry" /\ i' = i + 1 /\ UNCHANGED trade
            ELSE /\ trade' = [side |-> signals[i + 1], entry |-> Bar(i).close, at |-> i,
                              k |-> i + 1, last |-> Len(frame) - 1]
                 /\ pc' = "follow"
                 /\ UNCHANGED i
    /\ UNCHANGED <<replayed, results, fold, metrics>>

ScanForward ==
    /\ pc = "follow"
    /\ FollowTrade(Grid[fold][1], Grid[fold][2], i + 1)
    /\ pc' = IF trade' = NoTrade THEN "entry" ELSE "follow"
    /\ UNCHANGED <<replayed, fold, metrics>>

\* a mutant: a loss of more than the stake is not capped
Leveraged_NoLiquidation(pnl, leverage) == pnl * leverage

\* A loss of the whole stake or more is a liquidation.
Leveraged(pnl, leverage) ==
    IF pnl * leverage <= -Den THEN -Den ELSE pnl * leverage

\* One trade of the equity curve.  Both amounts grow by a factor Den per trade, and
\* so does unit, the amount that stands for 1; worst is the smallest equity/peak so
\* far: the drawdown is 1 minus it.
EquityStep(c, pnl) ==
    LET equity == c.equity * (Den + pnl)
        peak == IF equity > c.peak * Den THEN equity ELSE c.peak * Den
        worse == equity * c.worst[2] < c.worst[1] * peak
    IN  [equity |-> equity, peak |-> peak, unit |-> c.unit * Den,
         worst |-> IF worse THEN <<equity, peak>> ELSE c.worst]

EquityCurve(pnls) ==
    LET curve[k \in 0 .. Len(pnls)] ==
            IF k = 0 THEN [equity |-> 1, peak |-> 1, unit |-> 1, worst |-> <<1, 1>>]
                     ELSE EquityStep(curve[k - 1], pnls[k])
    IN  curve

ComputeMetrics(leverage) ==
    LET pnls == [n \in 1 .. Len(results) |-> Leveraged(results[n].pnl, leverage)]
        curve == EquityCurve(pnls)[Len(pnls)]
    IN  [pair |-> fold, leverage |-> leverage, pnls |-> pnls,
         equity |-> curve.equity, worst |-> curve.worst]

\* a mutant: the trades of one pair of the grid are kept for the next
NextPair_KeepTrades ==
    /\ pc = "measure"
    /\ metrics' = metrics \o [n \in 1 .. Len(Leverages) |-> ComputeMetrics(Leverages[n])]
    /\ results' = results /\ i' = 0 /\ fold' = fold + 1
    /\ pc' = IF fold = Len(Grid) THEN "done" ELSE "entry"
    /\ UNCHANGED <<replayed, trade>>

\* The leverages of one pair, and on to the next pair.
NextPair ==
    /\ pc = "measure"
    /\ metrics' = metrics \o [n \in 1 .. Len(Leverages) |-> ComputeMetrics(Leverages[n])]
    /\ results' = <<>> /\ i' = 0 /\ fold' = fold + 1
    /\ pc' = IF fold = Len(Grid) THEN "done" ELSE "entry"
    /\ UNCHANGED <<replayed, trade>>

-----------------------------------------------------------------------------
(* Scripts 2 and 4: every Step-th (4: every) bar with PredLen bars after   *)
(* it is a sample: the vote of its indicators against what the price did.  *)
(* An indicator without enough bars is "none"; numpy compares it as false. *)

Sign(n) == IF n > 0 THEN 1 ELSE IF n < 0 THEN -1 ELSE 0
UpOrDown(up) == IF up THEN 1 ELSE -1

\* The five signals of script 2, and the sign of their sum; a tie is long.
ComputeSignals2(r) ==
    LET rsi == IF r.rsi = "low" THEN 1 ELSE IF r.rsi = "high" THEN -1 ELSE 0
        macd == UpOrDown(r.macd = "up")
        ema == UpOrDown(r.ema = "up")
        bb == IF r.bb = "below" THEN 1 ELSE IF r.bb = "above" THEN -1 ELSE 0
        adx == IF r.strong /\ r.ema # "none" THEN ema ELSE 0
        vote == Sign(rsi + macd + ema + bb + adx)
    IN  IF vote = 0 THEN 1 ELSE vote

\* The four directions of script 4; a volume above average adds one to their
\* sum in the direction it already has.
BaseScore(r) ==
    (IF r.rsi = "high" THEN 1 ELSE IF r.rsi = "low" THEN -1 ELSE 0)
        + UpOrDown(r.macd = "up") + UpOrDown(r.ema = "up") + UpOrDown(r.bb = "above")

ComputeSignals4(r) ==
    BaseScore(r) + (IF r.volume THEN Sign(BaseScore(r)) ELSE 0)

Direction(j) == IF Bar(j + PredLen).close > Bar(j).close THEN 1 ELSE -1

Sample(s, next, Vote(_)) ==
    /\ pc = "sample" /\ script = s
    /\ IF i >= Len(frame) - PredLen
       THEN pc' = "done" /\ UNCHANGED <<i, results>>
       ELSE /\ \E r \in Readings :
                 results' = Append(results, [at |-> i, reading |-> r, vote |-> Vote(r),
                                             actual |-> Direction(i)])
            /\ i' = next
            /\ pc' = "sample"
    /\ UNCHANGED <<replayed, trade, fold, metrics>>

Evaluate == Sample("2", i + Step, ComputeSignals2)
AnalyseAgreement == Sample("4", i + 1, ComputeSignals4)

-----------------------------------------------------------------------------
(* Script 3: each day with a fear and greed value and a next day is a row  *)
(* of the data set; two equity curves run over the rows.                   *)

\* ret_next is taken from BTC's own days, before the two series are merged.
NextDayReturn(j) ==
    ((Bar(j + 1).close - Bar(j).close) * Den) \div Bar(j).close

\* The curves grow by a factor Den per row.
ContrarianStrategy ==
    /\ pc = "sample" /\ script = "3"
    /\ IF i >= Len(frame) - 1
       THEN pc' = "done" /\ UNCHANGED <<i, results>>
       ELSE /\ \/ UNCHANGED results     \* the index has no value that day
               \/ \E pos \in {1, -1, 0} :
                     LET before == IF results = <<>> THEN [hold |-> 1, contrarian |-> 1]
                                   ELSE Last(results)
                     IN  results' = Append(results,
                             [at |-> i, pos |-> pos,
                              hold |-> before.hold * (Den + NextDayReturn(i)),
                              contrarian |-> before.contrarian * (Den + pos * NextDayReturn(i))])
            /\ i' = i + 1
            /\ pc' = "sample"
    /\ UNCHANGED <<replayed, trade, fold, metrics>>

-----------------------------------------------------------------------------
Init ==
    /\ DownloadInit
    /\ frame = <<>> /\ i = 0 /\ trade = NoTrade /\ results = <<>>
    /\ fold = 0 /\ metrics = <<>> /\ signals = <<>>

Next ==
    \/ RequestOne \/ BuildFrame
    \/ NextFold \/ BacktestSymbol1 \/ BacktestSymbolK \/ BacktestFold
    \/ SimulateTrade1 \/ SimulateTradeK \/ SimulateTrade6
    \/ AddSignals \/ RunBacktest \/ ScanForward \/ NextPair
    \/ Evaluate \/ AnalyseAgreement \/ ContrarianStrategy

\* A script is one thread that never waits but for the exchange, and each
\* request has a timeout.
Spec == Init /\ [][Next]_vars /\ WF_vars(Next)

-----------------------------------------------------------------------------
Replayed == script \in {"1", "5", "6", "kronos"}
StopOf   == IF script = "5" THEN Grid[fold][1] ELSE SlPct
TargetOf == IF script = "5" THEN Grid[fold][2] ELSE TpPct

TypeOK ==
    /\ script \in Scripts
    /\ ToSet(rows) \subseteq DOMAIN history /\ Len(frame) <= Len(rows)
    /\ pc \in {"fetch", "fetched", "failed", "fold", "window", "trade", "signals",
               "entry", "follow", "measure", "sample", "done"}
    /\ i \in Nat /\ fold \in Nat
    /\ trade # NoTrade => trade.at <= trade.k /\ trade.last < Len(frame)

\* A simulated trade that outlives the bar it is entered at ends where a later bar
\* first stops it or reaches its target, a bar that does both counts as a stop, and
\* one that does neither is closed for less than the stop's loss and the target's
\* gain.  Of a trade that ends at the entry bar nothing is said: see
\* ReplayStartsAfterEntry.
EndsAtFirstTouch ==
    Replayed => \A n \in DOMAIN results :
        LET r == results[n]
            t == [side |-> r.side, entry |-> Bar(r.at).close]
            untouched(j) == ~HitsStop(t, StopOf, Bar(j)) /\ ~HitsTarget(t, TargetOf, Bar(j))
        IN  r.exit > r.at =>
                /\ \A j \in r.at + 1 .. r.exit - 1 : untouched(j)
                /\ CASE r.outcome = "sl" -> HitsStop(t, StopOf, Bar(r.exit)) /\ r.pnl = -StopOf
                     [] r.outcome = "tp" -> ~HitsStop(t, StopOf, Bar(r.exit)) /\ r.pnl = TargetOf
                     [] OTHER -> -StopOf < r.pnl /\ r.pnl < TargetOf

\* What simulate_trade says of itself ("Simulate trade in future_bars after entry"):
\* no trade ends at a bar whose high and low came before its entry, the close of
\* that bar.  The scripts pass the entry bar itself as the first future bar.
ReplayStartsAfterEntry ==
    Replayed => \A n \in DOMAIN results : results[n].exit > results[n].at

\* When bar j opens.
OpenTime(j) == Ascending(ToSet(rows))[j + 1]

\* The bars follow each other by the interval from the begin of the period to its end.
Gapless ==
    LET times == Ascending(ToSet(rows))
    IN  /\ times # <<>> /\ times[1] \in Start .. Start + Interval - 1
        /\ \A k \in DOMAIN times : times[k] = times[1] + (k - 1) * Interval
        /\ End <= Last(times) + Interval

\* Each window of script 6 begins when the training days of its fold are over.
WindowsInTestDays ==
    \A n \in DOMAIN results :
        (OpenTime(results[n].at - SeqLen) - Start) * Days >= Folds[results[n].fold][2] * (End - Start)

\* In the walk-forward script no bar of a fold's training days is used in its test,
\* not even as the context of a forecast, when the exchange has every bar of the
\* period: then the share of the bars the script computes is a share of the days.
TestAfterTraining == script = "6" /\ Gapless => WindowsInTestDays

\* What the script says of its folds ("Fold 1: train 0-60 -> test 60-90", in days),
\* of any history: but where bars are missing, the same share of the bars begins
\* earlier, within the training days.
FoldsAreDays == script = "6" => WindowsInTestDays

\* The drawdown of a pair of the grid is the worst fall from any earlier point
\* of its equity curve, the curve is that of the pair's own trades (one per
\* signal), and an account that is wiped out stays so.
DrawdownIsWorstFall ==
    (script = "5" /\ i = 0 /\ trade = NoTrade) => \A n \in DOMAIN metrics :
        LET m == metrics[n]
            size == Len(m.pnls)
            curve == EquityCurve(m.pnls)
            spans == {p \in (0 .. size) \X (0 .. size) : p[1] <= p[2]}
            falls == {<<curve[p[2]].equity * curve[p[1]].unit,
                        curve[p[1]].equity * curve[p[2]].unit>> : p \in spans}
        IN  /\ size = Cardinality({j \in 1 .. Len(frame) - 1 : signals[j] # "none"})
            /\ \A f \in falls : f[1] * m.worst[2] >= m.worst[1] * f[2]
            /\ \E f \in falls : f[1] * m.worst[2] = m.worst[1] * f[2]
            /\ m.equity >= 0
            /\ (\E k \in DOMAIN m.pnls : m.pnls[k] <= -Den) => m.equity = 0 /\ m.worst[1] = 0

\* What script 2 says of its signals ("+1 long, -1 short, 0 neutral", "majority vote
\* of the 5 signals"): an indicator that has no value yet is neutral, so that the vote
\* goes with the majority of those that have one.  But a comparison with NaN is false,
\* and the MACD and the EMA vote short while they have no value.
MissingIsNeutral ==
    script = "2" => \A n \in DOMAIN results :
        LET r == results[n].reading
            up == {k \in 1 .. 5 : <<r.rsi = "low", r.macd = "up", r.ema = "up", r.bb = "below",
                                    r.strong /\ r.ema = "up">>[k]}
            down == {k \in 1 .. 5 : <<r.rsi = "high", r.macd = "down", r.ema = "down", r.bb = "above",
                                      r.strong /\ r.ema = "down">>[k]}
        IN  results[n].vote = IF Cardinality(up) >= Cardinality(down) THEN 1 ELSE -1

\* Every script ends: no paging loop runs for ever on the same answer, and no
\* replay stands still.
ScriptsEnd == <>(pc \in {"done", "failed"})
=============================================================================
