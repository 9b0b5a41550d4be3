----------------------------- MODULE PaperEngine -----------------------------
(***************************************************************************)
(* papertrade/engine.py with its Account (account.py), its two circuit     *)
(* breakers (risk/breakers.py) and the per-signal guard (risk/guards.py).  *)
(*                                                                         *)
(* The engine runs two coroutines on one event loop: "sig" serves          *)
(* signal.execute, "mrk" serves market.mark.*.  They give way to each      *)
(* other only at `await bus.publish(...)`, so an action is the code        *)
(* between two publishes.  wire[t] is the PUBLISH that coroutine t is      *)
(* awaiting: the two use different connections of the pool, so the server  *)
(* may receive them in either order, and a coroutine goes on only after    *)
(* its own has been received.                                              *)
(*                                                                         *)
(* An exception that leaves a handler leaves engine.run and main: the      *)
(* process ends (up = FALSE) and the container restarts it with a fresh    *)
(* account and fresh breakers.                                             *)
(***************************************************************************)
EXTENDS PaperMath, Sums, FiniteSets

CONSTANTS
    Symbols,          \* every symbol a message may name
    SymbolList,       \* settings.symbol_list
    Signals,          \* the contents of Signal messages (see SignalType)
    Prices,           \* mark prices of the feed
    Null,             \* None
    MaxSignals,       \* bound: signals sent in one behaviour
    StartingBalance,  \* settings.risk.starting_balance_usd
    MaxPositions,     \* settings.risk.max_concurrent_positions
    MaxLeverage,      \* settings.risk.max_leverage
    PositionRate,     \* settings.risk.max_position_pct
    LossRate,         \* settings.risk.daily_loss_pct
    DrawdownRate,     \* settings.risk.max_drawdown_pct
    CloseReasons,     \* the Literal of PositionUpdate.close_reason
    MayBeKilled       \* may the process be killed from outside?

Tasks == {"sig", "mrk"}
Cids == 1 .. MaxSignals     \* correlation ids, in the order of arrival

\* A signal; entry is the price embedded in the JSON of `reasoning`, if any.
SignalType ==
    [sym : Symbols, side : Sides, size : Nat, lev : Nat,
     sl : Int, tp : Int, entry : Int \cup {Null}]

Reasons == {"sl", "tp", "liq", "max_hold", "direction_flip"}

\* a signal that gets past calc_isolated_margin
Fillable == {g \in Signals : g.lev > 0}

\* OpenPosition: qty, margin, liq_price and fees are functions of these fields
Position ==
    [cid : Cids, sig : Fillable, entry : Nat \ {0}, mark : Nat, old : BOOLEAN]

\* the locals of _close_position after account.close
Closing == [pos : Position, exit : Int, reason : Reasons, net : Int]

Channels == {"trade.executed", "trade.closed", "risk.veto",
             "circuit.tripped", "position.update"}
Message == [chan : Channels, cid : Cids, sym : Symbols, closed : BOOLEAN]

ASSUME EngineAssumption ==
    /\ IsFiniteSet(Symbols)
    /\ SymbolList \subseteq Symbols
    /\ Signals \subseteq SignalType
    /\ Prices \subseteq Nat \ {0}
    /\ MaxSignals \in Nat
    /\ StartingBalance \in Nat \ {0}
    /\ MaxPositions \in Nat
    /\ MaxLeverage \in Nat
    /\ PositionRate \in Nat
    /\ LossRate \in Nat \ {0}   \* else the breaker is tripped by a loss of nothing
    /\ DrawdownRate \in Nat
    /\ CloseReasons \subseteq Reasons \cup {"manual"}
    /\ MayBeKilled \in BOOLEAN

ASSUME NullAssumption ==
    /\ Null \notin Int
    /\ Null \notin Position
    /\ Null \notin Closing
    /\ Null \notin Message
    /\ Null \notin [cid : Cids, sig : Signals]

VARIABLES
    up,         \* is the process running?
    balance,    \* Account._balance
    positions,  \* Account.open_positions; Null where the dict has no key
    lastMark,   \* engine._last_marks; 0 where the dict has no key
    daily,      \* DailyLossBreaker: [cum, tripped]
    maxDD,      \* MaxDrawdownBreaker: [peak, tripped]
    pc,         \* where each coroutine is
    call,       \* the locals of _close_position in each coroutine
    cur,        \* the signal being flipped for or reported, with its id
    wire        \* the publish each coroutine is awaiting

engineVars == <<up, balance, positions, lastMark, daily, maxDD,
                pc, call, cur, wire>>

VARIABLES       \* history
    sent,       \* signals taken from the bus so far
    status,     \* what became of each of them
    realised,   \* net PnL of this session's closes
    sinceReset  \* net PnL of the closes since the breakers were last reset

historyVars == <<sent, status, realised, sinceReset>>
vars == <<engineVars, historyVars>>

-----------------------------------------------------------------------------
(* The account.                                                            *)

PosQty(p) == Qty(p.sig.size, p.entry)
PosMargin(p) == Margin(p.sig.size, p.sig.lev)
PosFee(p) == EntryFee(p.sig.size)
PosLiq(p) == LiqPrice(p.entry, p.sig.side, p.sig.lev)

\* OpenPosition.unrealized_pnl; mark 0 is "no mark yet"
Unrealised(p) ==
    IF p = Null \/ p.mark = 0 THEN 0
    ELSE Pnl(PosQty(p), p.entry, p.mark, p.sig.side)

\* Account.equity
Equity == balance + Sum([s \in Symbols |-> Unrealised(positions[s])], Symbols)

OpenSymbols == {s \in Symbols : positions[s] # Null}

\* Account.close: what it returns to the caller, the PnL net of both fees ...
Gross(p, exit) == Pnl(PosQty(p), p.entry, exit, p.sig.side)
CloseFee(p, exit) == ExitFee(PosQty(p), exit)
Net(p, exit) == Gross(p, exit) - PosFee(p) - CloseFee(p, exit)

\* ... and what it adds to the balance, which has paid the entry fee already
CreditNet(p, exit) == PosMargin(p) + Net(p, exit)    \* a mutant: pays it twice
Credit(p, exit) == PosMargin(p) + Gross(p, exit) - CloseFee(p, exit)

\* open_positions.pop
Peeked(s) == positions                               \* a mutant: get, not pop
Popped(s) == [positions EXCEPT ![s] = Null]

-----------------------------------------------------------------------------
(* The breakers and the guard.                                             *)

Tripped == daily.tripped \/ maxDD.tripped

\* cumulative_pnl <= -abs(threshold)
LossTrips(cum) == cum * Scale <= -(StartingBalance * LossRate)

\* DailyLossBreaker.update_pnl
\* (mutants: count losses only, judge each trade alone, judge before adding)
UpdateLossOnly(b, delta) ==
    LET cum == IF delta < 0 THEN b.cum + delta ELSE b.cum
    IN  [cum |-> cum, tripped |-> b.tripped \/ LossTrips(cum)]
UpdatePerTrade(b, delta) ==
    [cum |-> b.cum + delta, tripped |-> b.tripped \/ LossTrips(delta)]
UpdateTooLate(b, delta) ==
    [cum |-> b.cum + delta, tripped |-> b.tripped \/ LossTrips(b.cum)]
UpdatePnl(b, delta) ==
    [cum |-> b.cum + delta, tripped |-> b.tripped \/ LossTrips(b.cum + delta)]

\* MaxDrawdownBreaker.update_equity
UpdateEquity(b, equity) ==
    LET peak == IF equity > b.peak THEN equity ELSE b.peak
        trips == peak > 0 /\ (peak - equity) * Scale >= peak * DrawdownRate
    IN  [peak |-> peak, tripped |-> b.tripped \/ trips]

\* SignalGuard.check
Fits(g) ==
    /\ g.size * Scale <= Equity * PositionRate
    /\ g.lev <= MaxLeverage
    /\ g.sl > 0
    /\ g.tp > 0

\* (a mutant: one more than the cap)
GuardAllowsOneMore(g) ==
    g.sym \in SymbolList /\ Cardinality(OpenSymbols) <= MaxPositions /\ Fits(g)
GuardAllows(g) ==
    g.sym \in SymbolList /\ Cardinality(OpenSymbols) < MaxPositions /\ Fits(g)

\* The fill price: embedded in the reasoning, else the last mark, else midpoint
EntryPrice(g) ==
    IF g.entry # Null THEN g.entry
    ELSE IF lastMark[g.sym] # 0 THEN lastMark[g.sym]
    ELSE (g.sl + g.tp) \div 2

-----------------------------------------------------------------------------
(* Steps.  Next(t): coroutine t runs and is not awaiting a publish.         *)

NoPositions == [s \in Symbols |-> Null]
NoMarks == [s \in Symbols |-> 0]
FreshDaily == [cum |-> 0, tripped |-> FALSE]
FreshDD == [peak |-> 0, tripped |-> FALSE]

Init ==
    /\ up = TRUE
    /\ balance = StartingBalance
    /\ positions = NoPositions
    /\ lastMark = NoMarks
    /\ daily = FreshDaily
    /\ maxDD = FreshDD
    /\ pc = [t \in Tasks |-> "loop"]
    /\ call = [t \in Tasks |-> Null]
    /\ cur = Null
    /\ wire = [t \in Tasks |-> Null]
    /\ sent = 0
    /\ status = [c \in Cids |-> "unsent"]
    /\ realised = 0
    /\ sinceReset = 0

At(t, label) == up /\ pc[t] = label /\ wire[t] = Null

Publish(t, chan, c, s, closed) ==
    wire' = [wire EXCEPT ![t] =
                [chan |-> chan, cid |-> c, sym |-> s, closed |-> closed]]

Goto(t, label) == pc' = [pc EXCEPT ![t] = label]

Mark(c, what) == status' = [status EXCEPT ![c] = what]

\* the server receives the PUBLISH of t, and the await returns
Deliver(t) ==
    /\ wire[t] # Null
    /\ wire' = [wire EXCEPT ![t] = Null]
    /\ UNCHANGED <<up, balance, positions, lastMark, daily, maxDD, pc, call,
                   cur, historyVars>>

-----------------------------------------------------------------------------
(* _close_position, in three segments.                                     *)

\* up to the publish of trade.closed: account.close, then the message
Close(t, s, exit, reason) ==
    LET p == positions[s]
        net == Net(p, exit)
    IN  /\ positions' = Popped(s)
        /\ balance' = balance + Credit(p, exit)
        /\ call' = [call EXCEPT ![t] =
                      [pos |-> p, exit |-> exit, reason |-> reason, net |-> net]]
        /\ Publish(t, "trade.closed", p.cid, s, TRUE)
        /\ Goto(t, "close")
        /\ realised' = realised + net
        /\ sinceReset' = sinceReset + net

\* where _close_position returns to: _process_signal goes on to decide the signal
AfterClose(t) == IF t = "sig" THEN "flip" ELSE "loop"

\* the last segment builds and publishes PositionUpdate; a reason that is not
\* in its Literal is a ValidationError, which ends the process
\* (a mutant: the handler logs the error and goes back to its loop)
AnnounceOrLog(t) ==
    LET known == call[t].reason \in CloseReasons IN
    /\ IF known
       THEN Publish(t, "position.update", call[t].pos.cid, call[t].pos.sig.sym, TRUE)
       ELSE UNCHANGED wire
    /\ Goto(t, IF known THEN AfterClose(t) ELSE "loop")
    /\ call' = [call EXCEPT ![t] = Null]
    /\ UNCHANGED up
AnnounceClose(t) ==
    LET k == call[t] IN
    IF k.reason \in CloseReasons
    THEN /\ Publish(t, "position.update", k.pos.cid, k.pos.sig.sym, TRUE)
         /\ Goto(t, AfterClose(t))
         /\ call' = [call EXCEPT ![t] = Null]
         /\ UNCHANGED up
    ELSE /\ up' = FALSE
         /\ UNCHANGED <<wire, pc, call>>

\* the middle segment updates both breakers and may announce a trip first
CountClose(t) ==
    /\ At(t, "close")
    /\ daily' = UpdatePnl(daily, call[t].net)
    /\ maxDD' = UpdateEquity(maxDD, Equity)
    /\ IF daily'.tripped
       THEN /\ Publish(t, "circuit.tripped", call[t].pos.cid,
                       call[t].pos.sig.sym, TRUE)
            /\ Goto(t, "trip")
            /\ UNCHANGED <<call, up>>
       ELSE AnnounceClose(t)
    /\ UNCHANGED <<balance, positions, lastMark, cur, historyVars>>

FinishTrip(t) ==
    /\ At(t, "trip")
    /\ AnnounceClose(t)
    /\ UNCHANGED <<balance, positions, lastMark, daily, maxDD, cur, historyVars>>

-----------------------------------------------------------------------------
(* _process_signal.                                                        *)

\* steps 2 and 3: the breakers, which are looked at after a flip, and the guard
\* (a mutant: a signal that has just flipped is past the breakers)
RefusedUnlessFlipped(g) == (Tripped /\ cur = Null) \/ ~GuardAllows(g)
Refused(g) == Tripped \/ ~GuardAllows(g)

\* a refusal: risk.veto
Veto(c, g) ==
    /\ Refused(g)
    /\ Publish("sig", "risk.veto", c, g.sym, FALSE)
    /\ Goto("sig", "loop")
    /\ Mark(c, "vetoed")
    /\ cur' = Null
    /\ UNCHANGED <<up, balance, positions>>

\* neither calc_qty nor calc_isolated_margin raises (a mutant: calc_qty never does)
ComputesAnyPrice(g) == g.lev > 0
Computes(g) == EntryPrice(g) > 0 /\ g.lev > 0

FillRaises(c, g) ==
    /\ ~Refused(g) /\ ~Computes(g)
    /\ up' = FALSE
    /\ Mark(c, "taken")
    /\ UNCHANGED <<balance, positions, pc, wire, cur>>

\* account.open, then trade.executed
Fill(c, g) ==
    /\ ~Refused(g) /\ Computes(g)
    /\ LET p == [cid |-> c, sig |-> g, entry |-> EntryPrice(g),
                 mark |-> 0, old |-> FALSE]
       IN  /\ positions' = [positions EXCEPT ![g.sym] = p]
           /\ balance' = balance - (PosMargin(p) + PosFee(p))
    /\ Publish("sig", "trade.executed", c, g.sym, FALSE)
    /\ Goto("sig", "fill")
    /\ Mark(c, "live")
    /\ cur' = [cid |-> c, sig |-> g]
    /\ UNCHANGED up

\* steps 2 to 4 of _process_signal: no await between the checks and the fill
Decide(c, g) ==
    /\ Veto(c, g) \/ FillRaises(c, g) \/ Fill(c, g)
    /\ UNCHANGED <<lastMark, daily, maxDD, call, realised, sinceReset>>

SkipDuplicate(c, g) ==
    /\ positions[g.sym] # Null /\ positions[g.sym].sig.side = g.side
    /\ Mark(c, "skipped")
    /\ UNCHANGED <<engineVars, realised, sinceReset>>

\* an opposite position is closed at the last mark before the signal is decided
Flip(c, g) ==
    /\ positions[g.sym] # Null /\ positions[g.sym].sig.side # g.side
    /\ LET known == lastMark[g.sym] # 0
           exit == IF known THEN lastMark[g.sym] ELSE positions[g.sym].entry
       IN  Close("sig", g.sym, exit, "direction_flip")
    /\ status' = [status EXCEPT ![c] = "taken", ![positions[g.sym].cid] = "closed"]
    /\ cur' = [cid |-> c, sig |-> g]
    /\ UNCHANGED <<up, lastMark, daily, maxDD>>

TakeSignal(g) ==
    /\ At("sig", "loop")
    /\ sent < MaxSignals
    /\ sent' = sent + 1
    /\ \/ SkipDuplicate(sent + 1, g)
       \/ Flip(sent + 1, g)
       \/ positions[g.sym] = Null /\ Decide(sent + 1, g)

DecideAfterFlip ==
    /\ At("sig", "flip")
    /\ Decide(cur.cid, cur.sig)
    /\ UNCHANGED sent

\* _publish_position_update, which looks the position up again: by now the mark
\* coroutine may have closed it
Report(t, s) ==
    IF positions[s] = Null THEN UNCHANGED wire
    ELSE Publish(t, "position.update", positions[s].cid, s, FALSE)

\* (a mutant: wait until there is a position to report)
ReportHeld ==
    /\ At("sig", "fill")
    /\ positions[cur.sig.sym] # Null
    /\ Report("sig", cur.sig.sym)
    /\ Goto("sig", "loop")
    /\ cur' = Null
    /\ UNCHANGED <<up, balance, positions, lastMark, daily, maxDD, call,
                   historyVars>>

ReportFill ==
    /\ At("sig", "fill")
    /\ Report("sig", cur.sig.sym)
    /\ Goto("sig", "loop")
    /\ cur' = Null
    /\ UNCHANGED <<up, balance, positions, lastMark, daily, maxDD, call,
                   historyVars>>

-----------------------------------------------------------------------------
(* _process_mark.                                                          *)

\* has price px crossed `level` against (or, for tp, in favour of) the position?
Below(p, px, level) == IF p.sig.side = "LONG" THEN px <= level ELSE px >= level
Above(p, px, level) == IF p.sig.side = "LONG" THEN px >= level ELSE px <= level

\* the age limit (a mutant: a comparison of two clocks, never true)
NeverExpired(p) == FALSE
Expired(p) == p.old

MarkUntracked(s) ==
    /\ positions[s] = Null
    /\ UNCHANGED <<balance, positions, pc, call, wire, status, realised,
                   sinceReset>>

\* the age limit is looked at first, then liquidation, stop and target
MarkCloses(s, px) ==
    LET p == positions[s]
        liq == PosLiq(p)
        CloseAt(exit, reason) == Close("mrk", s, exit, reason)
    IN  /\ p # Null
        /\ \/ Expired(p) /\ CloseAt(px, "max_hold")
           \/ ~Expired(p) /\ Below(p, px, liq) /\ CloseAt(liq, "liq")
           \/ /\ ~Expired(p) /\ ~Below(p, px, liq)
              /\ Below(p, px, p.sig.sl) /\ CloseAt(p.sig.sl, "sl")
           \/ /\ ~Expired(p) /\ ~Below(p, px, liq) /\ ~Below(p, px, p.sig.sl)
              /\ Above(p, px, p.sig.tp) /\ CloseAt(p.sig.tp, "tp")
        /\ Mark(p.cid, "closed")

MarkMoves(s, px) ==
    LET p == positions[s] IN
    /\ p # Null /\ ~Expired(p)
    /\ ~Below(p, px, PosLiq(p)) /\ ~Below(p, px, p.sig.sl)
    /\ ~Above(p, px, p.sig.tp)
    /\ positions' = [positions EXCEPT ![s].mark = px]
    /\ Publish("mrk", "position.update", p.cid, s, FALSE)
    /\ UNCHANGED <<balance, pc, call, status, realised, sinceReset>>

TakeMark(s, px) ==
    /\ At("mrk", "loop")
    /\ lastMark' = [lastMark EXCEPT ![s] = px]
    /\ MarkUntracked(s) \/ MarkCloses(s, px) \/ MarkMoves(s, px)
    /\ UNCHANGED <<up, daily, maxDD, cur, sent>>

-----------------------------------------------------------------------------
(* The environment: time, the API and the container.                       *)

\* more than _MAX_HOLD_SECONDS have passed since the position was opened
Age(s) ==
    /\ up
    /\ positions[s] # Null /\ ~positions[s].old
    /\ positions' = [positions EXCEPT ![s].old = TRUE]
    /\ UNCHANGED <<up, balance, lastMark, daily, maxDD, pc, call, cur, wire,
                   historyVars>>

\* net PnL of the closes whose breaker update is still to come
Pending(t) == IF pc[t] = "close" THEN call[t].net ELSE 0

\* POST /circuit-breaker/reset
ResetBreakers ==
    /\ up
    /\ daily' = FreshDaily
    /\ maxDD' = FreshDD
    /\ sinceReset' = Pending("sig") + Pending("mrk")
    /\ UNCHANGED <<up, balance, positions, lastMark, pc, call, cur, wire, sent,
                   status, realised>>

\* SIGKILL, or an exception in any of the other tasks that main gathers
Kill ==
    /\ MayBeKilled /\ up
    /\ up' = FALSE
    /\ UNCHANGED <<balance, positions, lastMark, daily, maxDD, pc, call, cur,
                   wire, historyVars>>

\* restart: unless-stopped; nothing of the engine's state is stored anywhere
Restart ==
    /\ ~up
    /\ up' = TRUE
    /\ balance' = StartingBalance
    /\ positions' = NoPositions
    /\ lastMark' = NoMarks
    /\ daily' = FreshDaily
    /\ maxDD' = FreshDD
    /\ pc' = [t \in Tasks |-> "loop"]
    /\ call' = [t \in Tasks |-> Null]
    /\ cur' = Null
    /\ wire' = [t \in Tasks |-> Null]
    /\ realised' = 0
    /\ sinceReset' = 0
    /\ status' = [c \in Cids |->
                    IF status[c] \in {"taken", "live"} THEN "lost" ELSE status[c]]
    /\ UNCHANGED sent

Next ==
    \/ \E t \in Tasks : Deliver(t) \/ CountClose(t) \/ FinishTrip(t)
    \/ \E g \in Signals : TakeSignal(g)
    \/ DecideAfterFlip
    \/ ReportFill
    \/ \E s \in SymbolList, px \in Prices : TakeMark(s, px)
    \/ \E s \in Symbols : Age(s)
    \/ ResetBreakers
    \/ Kill
    \/ Restart

Spec == Init /\ [][Next]_vars

\* The event loop resumes what can run, the server answers, the feed keeps
\* sending the marks of every listed symbol, time passes, the container restarts.
\* Signals, resets and kills may never come.
Fairness ==
    /\ \A t \in Tasks : WF_vars(Deliver(t)) /\ WF_vars(CountClose(t))
                        /\ WF_vars(FinishTrip(t))
    /\ WF_vars(DecideAfterFlip) /\ WF_vars(ReportFill)
    /\ \A s \in SymbolList : SF_vars(\E px \in Prices : TakeMark(s, px))
    /\ \A s \in Symbols : WF_vars(Age(s))
    /\ WF_vars(Restart)

FairSpec == Spec /\ Fairness

-----------------------------------------------------------------------------
(* Properties.                                                             *)

\* Types of every variable.
TypeOK ==
    /\ up \in BOOLEAN
    /\ balance \in Int
    /\ positions \in [Symbols -> Position \cup {Null}]
    /\ lastMark \in [Symbols -> Nat]
    /\ daily \in [cum : Int, tripped : BOOLEAN]
    /\ maxDD \in [peak : Int, tripped : BOOLEAN]
    /\ pc \in [Tasks -> {"loop", "close", "trip", "flip", "fill"}]
    /\ call \in [Tasks -> Closing \cup {Null}]
    /\ cur \in [cid : Cids, sig : Signals] \cup {Null}
    /\ wire \in [Tasks -> Message \cup {Null}]
    /\ sent \in 0 .. MaxSignals
    /\ status \in [Cids -> {"unsent", "taken", "skipped", "vetoed", "live",
                            "closed", "lost"}]
    /\ realised \in Int
    /\ sinceReset \in Int

\* The cap of SignalGuard holds whatever the two coroutines interleave: the count
\* it reads is still the count when account.open runs.
PositionCap == Cardinality(OpenSymbols) <= MaxPositions

\* Every live trade is held by exactly one position, filed under the symbol of its
\* signal, and no position is of a trade that has ended: nothing is overwritten
\* ("no silent overwrites", engine.py) and nothing is closed twice.
LiveIffHeld ==
    up => \A c \in Cids :
        LET holders == {s \in Symbols : positions[s] # Null /\ positions[s].cid = c}
        IN  IF status[c] = "live"
            THEN \E s \in holders : holders = {s} /\ positions[s].sig.sym = s
            ELSE holders = {}

\* what account.open took from the balance for the position
Locked(p) == IF p = Null THEN 0 ELSE PosMargin(p) + PosFee(p)

\* Account conserves money: balance, locked margins and entry fees add up to the
\* starting balance and the net PnL that trade.closed messages have announced.
\* (open deducts the entry fee, close returns a PnL net of both fees.)
MoneyConserved ==
    up => balance + Sum([s \in Symbols |-> Locked(positions[s])], Symbols)
            = StartingBalance + realised

\* The daily-loss breaker misses no close: what it has not counted yet is exactly
\* what closes that are awaiting their trade.closed publish will add.
EveryCloseCounted ==
    up => sinceReset = daily.cum + Pending("sig") + Pending("mrk")

\* Once no close is under way, a realised loss past the limit has tripped the breaker.
LossTripsBreaker ==
    (up /\ \A t \in Tasks : pc[t] # "close") =>
        (LossTrips(sinceReset) => daily.tripped)

\* While a breaker stays tripped no position is opened, by a fresh signal or by the
\* second half of a flip whose own close has just tripped it.
NoFillWhileTripped ==
    [][(up /\ up' /\ Tripped /\ Tripped') => OpenSymbols' \subseteq OpenSymbols]_vars

\* A position is opened with the realised loss past the limit only in the window
\* between account.close and the breaker update of the mark coroutine.
FillPastLimitOnlyMidClose ==
    [][(LossTrips(sinceReset) /\ ~(OpenSymbols' \subseteq OpenSymbols))
            => pc["mrk"] = "close"]_vars

\* Isolated margin: a close by liquidation or by the stop loses at most the margin
\* and the fees, because liquidation is looked at before the stop.
IsolatedLoss ==
    \A t \in Tasks :
        (call[t] # Null /\ call[t].reason \in {"liq", "sl"}) =>
            LET p == call[t].pos
            IN  call[t].net >= -(PosMargin(p) + PosFee(p)
                                 + ExitFee(PosQty(p), call[t].exit))

\* "Stop-loss: 2% from entry price" (README.md), on the losing side of it: a position
\* that its stop closes has not gained on the price.
StopNeverGains ==
    \A t \in Tasks :
        (call[t] # Null /\ call[t].reason = "sl") =>
            Gross(call[t].pos, call[t].exit) <= 0

\* No signal is dropped while the process lives: one that has been taken and is not yet
\* filled, refused or skipped is the one signal the handler is flipping for, at each of
\* its awaits, whatever the mark coroutine does meanwhile.
NoSignalDropped ==
    up => \A c \in Cids :
        status[c] = "taken" =>
            pc["sig"] \in {"close", "trip", "flip"} /\ cur # Null /\ cur.cid = c

\* Each signal taken gets an outcome, when nothing kills the process from outside: a flip
\* closes "at best known price before flipping" (engine.py:73), so it goes on to decide.
\* The flip of the shipped schema refutes it.
NoSignalLost == \A c \in Cids : status[c] # "lost"

\* Each handler gets back to its loop, or the process ends.
HandlersReturn == \A t \in Tasks : (pc[t] # "loop") ~> (pc[t] = "loop")

\* No position is held for ever: the age limit catches what stop and target do not.
PositionsEnd == \A c \in Cids : (status[c] = "live") ~> (status[c] # "live")

\* The engine implements TradeLifecycle: every signal is answered once, in order and
\* one at a time, and a trade lives and ends once, across both coroutines and restarts.
Trades == INSTANCE TradeLifecycle WITH
    MaxOpen <- MaxPositions,
    holder <- [s \in Symbols |-> IF positions[s] = Null THEN 0 ELSE positions[s].cid]

\* (the refinement as a property for TLC)
ImplementsTrades == Trades!Spec

=============================================================================
