----------------------------- MODULE MarketData -----------------------------
(***************************************************************************)
(* Market data of one symbol from the exchange to its readers: the feed's  *)
(* web socket (FeedManager), the frame handler that publishes each frame   *)
(* on the bus (FrameHandler), the subscriber that stores the messages      *)
(* (StorageSubscriber, TimescaleWriter), and the two who read the tables:  *)
(* a restart, which asks for the latest marks, and the machine learning    *)
(* agent (MLAgent), which answers each request with a forecast.            *)
(*                                                                         *)
(* Time is counted in minutes, the length of a candle.  The exchange and   *)
(* the socket library are external.  Liquidations and book tickers take    *)
(* the same way into tables that nothing reads: they are frames here, but  *)
(* no tables.                                                              *)
(***************************************************************************)
EXTENDS Integers, FiniteSets, Sequences, SequencesExt

CONSTANTS
    Prices,         \* the prices the exchange quotes
    FundingEvery,   \* the minutes from one funding to the next
    BackoffInitial, BackoffFactor, BackoffMax,
    Bars,           \* the candles Kronos is given (limit=512)
    FeatureBars,    \* the candles the features are built from (limit=200)
    MinBars,        \* _MIN_BARS
    ShortHorizon,   \* _SHORT_HORIZON
    Forecasts,      \* what the Kronos predictor may return: sequences of closes
    MaxMinute,      \* bound: the minutes the model runs
    MaxSocket,      \* bound: frames received and not read
    MaxBus          \* bound: messages published and not stored

ASSUME MarketAssumption ==
    /\ FundingEvery \in Nat \ {0} /\ Prices \subseteq Nat \ {0}
    /\ {BackoffInitial, BackoffFactor, BackoffMax} \subseteq Nat \ {0}
    /\ {Bars, FeatureBars, MinBars, ShortHorizon, MaxMinute} \subseteq Nat
    /\ {MaxSocket, MaxBus} \subseteq Nat \ {0}

VARIABLES
    minute,     \* the exchange's clock: the candle that is forming
    last,       \* the last price: the close of that candle so far
    final,      \* the closes of the candles before it, by minute
    feed,       \* the feed task: "waiting", "connecting" or "up"
    backoff,    \* the wait before the next reconnect
    socket,     \* frames received and not read
    owed,       \* the funding update of a mark frame that is half handled
    bus,        \* messages published and not stored
    candles,    \* klines_1m: closes by minute
    marks,      \* mark_price by ts: the minute each price was quoted in
    fundings,   \* funding_rate: the funding times stored
    received,   \* history: minutes whose final frame reached the open socket
    lost,       \* history: those of them that a failure took afterwards
    newest,     \* the minute of the newest mark the storage has seen
    ml          \* the MLAgent: what it does, and for the request at hand

marketVars == <<minute, last, final, feed, backoff, socket, owed, bus,
                candles, marks, fundings, received, lost, newest, ml>>
exchangeVars == <<minute, last, final>>
tables == <<candles, marks, fundings, newest>>

-----------------------------------------------------------------------------
(* The exchange.                                                           *)

\* T of a mark frame: the time of the next funding, not of the mark.
NextFunding(at) == (at \div FundingEvery + 1) * FundingEvery

Kinds == {"kline", "mark", "forceOrder", "bookTicker", "other"}
Kline(price, closed) == [kind |-> "kline", at |-> minute, price |-> price, closed |-> closed]
Other(kind) == [kind |-> kind, at |-> IF kind = "mark" THEN minute ELSE 0, price |-> 0, closed |-> FALSE]

\* A frame reaches the program only while its socket is open.
Send(f) ==
    IF feed = "up" THEN Len(socket) < MaxSocket /\ socket' = Append(socket, f)
                   ELSE UNCHANGED socket

Trade ==
    /\ \E p \in Prices : last' = p /\ Send(Kline(p, FALSE))
    /\ UNCHANGED <<minute, final, feed, backoff, owed, bus, tables, received, lost, ml>>

\* The candle closes: its final frame is the only one with x set.
CloseCandle ==
    /\ minute < MaxMinute
    /\ Send(Kline(last, TRUE))
    /\ final' = [m \in 0 .. minute |-> IF m = minute THEN last ELSE final[m]]
    /\ minute' = minute + 1
    /\ received' = IF feed = "up" THEN received \cup {minute} ELSE received
    /\ UNCHANGED <<last, feed, backoff, owed, bus, tables, lost, ml>>

OtherFrame ==
    /\ feed = "up"
    /\ \E kind \in Kinds \ {"kline"} : Send(Other(kind))
    /\ UNCHANGED <<exchangeVars, feed, backoff, owed, bus, tables, received, lost, ml>>

-----------------------------------------------------------------------------
(* FeedManager.run and _connect_and_stream.                                *)

Finals(frames) == {f.at : f \in {g \in ToSet(frames) : g.closed}}

\* The client, the margin type and leverage of each symbol (whose errors are
\* logged and dropped), and the socket.
ConnectAndStream ==
    /\ feed = "connecting"
    /\ feed' = "up"
    /\ UNCHANGED <<exchangeVars, backoff, socket, owed, bus, tables, received, lost, ml>>

\* a mutant: the exception leaves run()
Disconnect_EndsTask ==
    /\ feed' = "ended"
    /\ socket' = <<>>
    /\ owed' = <<>>

\* Whatever raises, while connecting or streaming, closes the client: the frames
\* the socket holds are gone, and the other half of a mark frame.
Disconnect ==
    /\ feed' = "waiting"
    /\ socket' = <<>>
    /\ owed' = <<>>

FeedFails ==
    /\ feed \in {"connecting", "up"}
    /\ Disconnect
    /\ lost' = lost \cup Finals(socket)
    /\ UNCHANGED <<exchangeVars, backoff, bus, tables, received, ml>>

\* a mutant: the backoff has no cap
NextBackoff_NoCap == backoff * BackoffFactor

NextBackoff == IF backoff * BackoffFactor < BackoffMax THEN backoff * BackoffFactor ELSE BackoffMax

\* asyncio.sleep(backoff), and the next round.  _connect_and_stream never
\* returns, so the backoff is never set back.
Retry ==
    /\ feed = "waiting"
    /\ feed' = "connecting"
    /\ backoff' = NextBackoff
    /\ UNCHANGED <<exchangeVars, socket, owed, bus, tables, received, lost, ml>>

-----------------------------------------------------------------------------
(* FrameHandler.handle: the messages of a frame, published one by one.     *)

Message(kind, ts, value, closed) == [kind |-> kind, ts |-> ts, value |-> value, closed |-> closed]

HandleKline(f) == <<Message("tick", f.at, f.price, f.closed)>>

\* Both messages carry T, the next funding time.  The mark price stands here for
\* the minute it was quoted in.
HandleMark(f) == <<Message("mark", NextFunding(f.at), f.at, FALSE),
                   Message("funding", NextFunding(f.at), 0, FALSE)>>

HandleLiquidation(f) == <<Message("liq", 0, 0, FALSE)>>
HandleBook(f) == <<Message("book", 0, 0, FALSE)>>

Handle(f) ==
    CASE f.kind = "kline" -> HandleKline(f)
      [] f.kind = "mark" -> HandleMark(f)
      [] f.kind = "forceOrder" -> HandleLiquidation(f)
      [] f.kind = "bookTicker" -> HandleBook(f)
      [] OTHER -> <<>>

\* ws.recv() and the first publish of the frame.
Receive ==
    /\ feed = "up" /\ owed = <<>> /\ socket # <<>> /\ Len(bus) < MaxBus
    /\ LET messages == Handle(Head(socket))
       IN  IF messages = <<>> THEN UNCHANGED <<bus, owed>>
           ELSE bus' = Append(bus, Head(messages)) /\ owed' = Tail(messages)
    /\ socket' = Tail(socket)
    /\ UNCHANGED <<exchangeVars, feed, backoff, tables, received, lost, ml>>

\* The second publish of a mark frame.
PublishFunding ==
    /\ feed = "up" /\ owed # <<>> /\ Len(bus) < MaxBus
    /\ bus' = Append(bus, Head(owed))
    /\ owed' = Tail(owed)
    /\ UNCHANGED <<exchangeVars, feed, backoff, socket, tables, received, lost, ml>>

-----------------------------------------------------------------------------
(* StorageSubscriber._route_market.  Every insert is ON CONFLICT DO        *)
(* NOTHING.                                                                *)

\* a mutant: candles that still form are stored as well
ClosedTick_Open(msg) == msg.kind = "tick"

ClosedTick(msg) == msg.kind = "tick" /\ msg.closed

UpsertKline(msg) == msg.ts \notin DOMAIN candles

RouteMarket(msg) ==
    /\ candles' = IF ClosedTick(msg) /\ UpsertKline(msg)
                  THEN [m \in DOMAIN candles \cup {msg.ts} |-> IF m = msg.ts THEN msg.value ELSE candles[m]]
                  ELSE candles
    /\ marks' = IF msg.kind = "mark" /\ msg.ts \notin DOMAIN marks
                THEN [t \in DOMAIN marks \cup {msg.ts} |-> IF t = msg.ts THEN msg.value ELSE marks[t]]
                ELSE marks
    /\ newest' = IF msg.kind = "mark" THEN msg.value ELSE newest
    /\ fundings' = IF msg.kind = "funding" THEN fundings \cup {msg.ts} ELSE fundings

\* A statement that raises is logged; its message is gone.
ConsumeMarket ==
    /\ bus # <<>>
    /\ bus' = Tail(bus)
    /\ \/ RouteMarket(Head(bus)) /\ UNCHANGED lost
       \/ lost' = lost \cup Finals(<<[at |-> Head(bus).ts, closed |-> Head(bus).closed]>>) /\ UNCHANGED tables
    /\ UNCHANGED <<exchangeVars, feed, backoff, socket, owed, received, ml>>

-----------------------------------------------------------------------------
(* The readers.                                                            *)

\* The row a restart reads: DISTINCT ON (symbol) ... ORDER BY ts DESC.
LatestMark == CHOOSE t \in DOMAIN marks : \A u \in DOMAIN marks : u <= t

\* The newest rows, oldest first.
FetchKlines(limit) ==
    LET chosen == {m \in DOMAIN candles : Cardinality({n \in DOMAIN candles : n > m}) < limit}
    IN  [k \in 1 .. Cardinality(chosen) |->
            candles[CHOOSE m \in chosen : Cardinality({n \in chosen : n < m}) = k - 1]]

\* FeatureEngine.build never raises: with too few rows, or when a statement
\* raises, the features are zeros.
Build == {"zeros"} \cup (IF Len(FetchKlines(FeatureBars)) >= MinBars THEN {"built"} ELSE {})

NoForecast == [direction |-> "up", short |-> "up", regime |-> "ranging", agree |-> 0, moves |-> FALSE]

\* The directions of a forecast's closes, its regime, the number of its steps
\* that agree with the direction, and whether it ends away from the current
\* close: the confidence is a weighted sum of the last two.
DeriveSignals(current, closes, volatile) ==
    LET n == Len(closes)
        direction == IF closes[n] > current THEN "up" ELSE "down"
        slope == closes[n] - closes[1]
        flat == 1000 * slope < 2 * closes[1] /\ 1000 * slope > -2 * closes[1]
    IN  [direction |-> direction,
         short |-> IF closes[IF ShortHorizon < n THEN ShortHorizon ELSE n] > current THEN "up" ELSE "down",
         regime |-> IF volatile THEN "volatile" ELSE IF flat THEN "ranging"
                    ELSE IF slope > 0 THEN "trending_up" ELSE "trending_down",
         agree |-> Cardinality({k \in 1 .. n - 1 : IF direction = "up" THEN closes[k + 1] > closes[k]
                                                    ELSE closes[k + 1] < closes[k]}),
         moves |-> closes[n] # current]

\* KronosModel.predict: without rows, and when the predictor raises, the answer
\* is "up" with no confidence.
Predict(rows) ==
    {NoForecast} \cup
        (IF rows = <<>> THEN {}
         ELSE {DeriveSignals(Last(rows), c, v) : c \in Forecasts, v \in BOOLEAN})

-----------------------------------------------------------------------------
(* MLAgent: one request at a time.  Each await is a step of its own.       *)

Asked == [phase |-> "fetch", rows |-> <<>>, forecast |-> NoForecast, answers |-> 0, raised |-> FALSE]
marketIdle == <<exchangeVars, feed, backoff, socket, owed, bus, tables, received, lost>>

At(phase) == ml.phase = phase /\ UNCHANGED marketIdle

\* The next AnalyzeRequest.
Ask == At("idle") /\ ml' = Asked

\* fetch_klines, which may raise.
FetchForKronos ==
    /\ At("fetch")
    /\ \/ ml' = [ml EXCEPT !.phase = "build", !.rows = FetchKlines(Bars)]
       \/ ml' = [ml EXCEPT !.phase = "neutral"]

BuildFeatures ==
    /\ At("build")
    /\ \E features \in Build : ml' = [ml EXCEPT !.phase = "infer"]

\* The thread that forecasts, and the policy's size; either may raise.
Infer ==
    /\ At("infer")
    /\ \/ \E f \in Predict(ml.rows) : ml' = [ml EXCEPT !.phase = "publish", !.rows = <<>>, !.forecast = f]
       \/ ml' = [ml EXCEPT !.phase = "neutral", !.rows = <<>>]

\* A publish that raises ends the request: run() logs it.
PublishSignal ==
    /\ ml.phase \in {"publish", "neutral"} /\ UNCHANGED marketIdle
    /\ \/ ml' = [ml EXCEPT !.phase = IF ml.phase = "publish" THEN "insert" ELSE "insertNeutral",
                           !.answers = @ + 1]
       \/ ml' = [ml EXCEPT !.phase = "idle", !.raised = TRUE]

\* a mutant: a signal that cannot be stored is taken back by a neutral one
InsertSignal_Neutral ==
    /\ ml.phase \in {"insert", "insertNeutral"} /\ UNCHANGED marketIdle
    /\ \/ ml' = [ml EXCEPT !.phase = "idle"]
       \/ ml.phase = "insert" /\ ml' = [ml EXCEPT !.phase = "neutral", !.forecast = NoForecast]

\* Stored or not, the signal has been sent.
InsertSignal ==
    /\ ml.phase \in {"insert", "insertNeutral"} /\ UNCHANGED marketIdle
    /\ ml' = [ml EXCEPT !.phase = "idle"]

MLAgent ==
    \/ Ask \/ FetchForKronos \/ BuildFeatures \/ Infer
    \/ PublishSignal \/ InsertSignal

-----------------------------------------------------------------------------
MarketInit ==
    /\ minute = 0 /\ last \in Prices /\ final = <<>>
    /\ feed = "connecting" /\ backoff = BackoffInitial
    /\ socket = <<>> /\ owed = <<>> /\ bus = <<>>
    /\ candles = <<>> /\ marks = <<>> /\ fundings = {}
    /\ received = {} /\ lost = {} /\ newest = 0
    /\ ml = [Asked EXCEPT !.phase = "idle"]

Feed == ConnectAndStream \/ FeedFails \/ Retry \/ Receive \/ PublishFunding

MarketNext ==
    \/ Trade \/ CloseCandle \/ OtherFrame
    \/ Feed \/ ConsumeMarket \/ MLAgent

-----------------------------------------------------------------------------
MarketTypeOK ==
    /\ minute \in 0 .. MaxMinute /\ last \in Prices
    /\ feed \in {"waiting", "connecting", "up"} /\ backoff \in 1 .. BackoffMax
    /\ feed # "up" => socket = <<>> /\ owed = <<>>
    /\ DOMAIN candles \cup received \cup lost \subseteq 0 .. minute - 1
    /\ fundings \subseteq DOMAIN marks \cup {NextFunding(m) : m \in 0 .. minute}
    /\ ml.phase \in {"idle", "fetch", "build", "infer", "publish", "neutral", "insert", "insertNeutral"}

\* A candle of the table is the final one of its minute: whatever frames a
\* reconnect cuts off or repeats, a candle that still forms is never stored.
\* And every final candle that reached the open socket is stored or on its way,
\* unless a failure took it there: the connection went down with the frame
\* unread, or a publish or a statement raised.  Nothing is said of the minutes
\* that close while the feed is down: see GapsAreFilled.
ReceivedCandlesStored ==
    /\ \A m \in DOMAIN candles : m < minute /\ candles[m] = final[m]
    /\ \A m \in received :
           \/ m \in DOMAIN candles \cup lost
           \/ m \in Finals(socket)
           \/ \E k \in DOMAIN bus : bus[k].kind = "tick" /\ bus[k].closed /\ bus[k].ts = m

\* What get_klines is for by its docstring ("Historical klines for gap-fill on
\* reconnect"): with the feed up again and every message stored, the table has no
\* hole between two candles but those a failed frame or statement made.  Nothing
\* calls get_klines, and the minutes closed during a reconnect stay missing.
GapsAreFilled ==
    feed = "up" /\ socket = <<>> /\ bus = <<>> =>
        \A l, m \in DOMAIN candles : l .. m \subseteq DOMAIN candles \cup lost

\* What the storage says of the row a restart reads ("the most recent mark price
\* for every symbol"): it holds the newest mark the storage has been given.  The
\* rows are keyed by the next funding time and the first mark of a period stays,
\* so the price orphans are closed at may be as old as the period is long.
LatestMarkIsNewest == marks # <<>> => marks[LatestMark] = newest

\* Each request of the director is answered at most once by the machine learning
\* agent, and left without an answer only when the publish itself failed; an
\* answer without a forecast has no confidence, on whichever path it was made.
MLAnswersOnce ==
    /\ ml.answers <= 1
    /\ ml.phase = "idle" /\ ml # [Asked EXCEPT !.phase = "idle"] => (ml.answers = 0 <=> ml.raised)
    /\ ml.phase \in {"neutral", "insertNeutral"} => ml.forecast.agree = 0 /\ ~ml.forecast.moves
=============================================================================
