-------------------------- MODULE PaperEngineProofs --------------------------
(***************************************************************************)
(* Theorems about PaperEngine, for every value of its constants.  TypeOK   *)
(* needs HandlerLocals to be inductive (a handler that is in the middle of *)
(* a close has the locals of _close_position), so the two are proved       *)
(* together and every later proof starts from them.                        *)
(***************************************************************************)
EXTENDS PaperEngine, SumProofs

\* What a coroutine knows at each of its awaits.  Only the signal coroutine opens
\* positions, so the symbol it is flipping stays free until it decides.
HandlerLocals ==
    /\ \A t \in Tasks : pc[t] \in {"close", "trip"} => call[t] # Null
    /\ pc["sig"] # "loop" => cur # Null
    /\ pc["mrk"] \in {"loop", "close", "trip"}
    /\ pc["sig"] \in {"close", "trip", "flip"} => positions[cur.sig.sym] = Null

Inv == TypeOK /\ HandlerLocals

-----------------------------------------------------------------------------
(* Types of the account's arithmetic.                                      *)

LEMMA SignalFields ==
    ASSUME NEW g \in Signals
    PROVE  /\ g \in SignalType
           /\ g.sym \in Symbols /\ g.side \in Sides
           /\ g.size \in Nat /\ g.lev \in Nat /\ g.sl \in Int /\ g.tp \in Int
           /\ g.entry \in Int \cup {Null}
<1>1. g \in SignalType
  BY EngineAssumption
<1> QED BY <1>1 DEF SignalType

LEMMA PositionFields ==
    ASSUME NEW p \in Position
    PROVE  /\ p.cid \in Cids /\ p.sig \in Signals /\ p.sig.lev \in Nat \ {0}
           /\ p.entry \in Nat \ {0} /\ p.mark \in Nat /\ p.old \in BOOLEAN
           /\ p # Null
<1>1. p.sig \in Signals /\ p.sig.lev > 0
  BY DEF Position, Fillable
<1> QED BY <1>1, SignalFields, NullAssumption DEF Position

\* A quotient of integers by a positive one is an integer.
LEMMA DivType ==
    ASSUME NEW a \in Int, NEW b \in Nat \ {0}
    PROVE  a \div b \in Int
OBVIOUS

\* A product of integers is an integer.
LEMMA MulType ==
    ASSUME NEW a \in Int, NEW b \in Int
    PROVE  a * b \in Int
OBVIOUS

LEMMA PnlType ==
    ASSUME NEW q \in Int, NEW a \in Int, NEW b \in Int, NEW side
    PROVE  Pnl(q, a, b, side) \in Int
BY MulType DEF Pnl

LEMMA PositionMoney ==
    ASSUME NEW p \in Position
    PROVE  /\ PosQty(p) \in Int /\ PosMargin(p) \in Int
           /\ PosFee(p) \in Int /\ PosLiq(p) \in Int
<1>1. /\ p.sig.size \in Nat /\ p.sig.lev \in Nat \ {0} /\ p.entry \in Nat \ {0}
      /\ Scale \in Nat \ {0} /\ TakerRate \in Nat /\ MmrRate \in Nat
  BY PositionFields, SignalFields, RateAssumption
<1>2. PosQty(p) \in Int
  BY <1>1, DivType DEF PosQty, Qty
<1>3. PosMargin(p) \in Int
  BY <1>1, DivType DEF PosMargin, Margin
<1>4. PosFee(p) \in Int
  <2>1. p.sig.size * TakerRate \in Int
    BY <1>1, MulType
  <2> QED BY <1>1, <2>1, DivType DEF PosFee, EntryFee
<1>5. PosLiq(p) \in Int
  <2> DEFINE gap == Scale - MmrRate * p.sig.lev
             edge == IF p.sig.side = "LONG" THEN Scale * p.sig.lev - gap
                     ELSE Scale * p.sig.lev + gap
  <2>1. Scale * p.sig.lev \in Nat \ {0}
    BY <1>1
  <2>2. gap \in Int
    BY <1>1, MulType
  <2>3. edge \in Int
    BY <2>1, <2>2
  <2>4. p.entry * edge \in Int
    BY <1>1, <2>3, MulType
  <2>5. (p.entry * edge) \div (Scale * p.sig.lev) \in Int
    BY <2>1, <2>4, DivType
  <2> QED BY <2>5 DEF PosLiq, LiqPrice
<1> QED BY <1>2, <1>3, <1>4, <1>5

LEMMA ExitFeeType ==
    ASSUME NEW q \in Int, NEW x \in Int
    PROVE  ExitFee(q, x) \in Int
<1>1. q * x * TakerRate \in Int
  BY MulType, RateAssumption
<1> QED BY <1>1, DivType, RateAssumption DEF ExitFee

LEMMA UnrealisedType ==
    ASSUME NEW p \in Position \cup {Null}
    PROVE  Unrealised(p) \in Int
<1>1. CASE p = Null
  BY <1>1 DEF Unrealised
<1>2. CASE p \in Position
  BY <1>2, PositionMoney, PositionFields, PnlType DEF Unrealised
<1> QED BY <1>1, <1>2

LEMMA EquityType ==
    ASSUME TypeOK
    PROVE  Equity \in Int
<1> DEFINE f == [s \in Symbols |-> Unrealised(positions[s])]
<1>1. f \in [Symbols -> Int]
  BY UnrealisedType DEF TypeOK
<1>2. Sum(f, Symbols) \in Int
  BY <1>1, SumType, EngineAssumption
<1> QED BY <1>2 DEF Equity, TypeOK

LEMMA EntryPriceType ==
    ASSUME TypeOK, NEW g \in Signals
    PROVE  EntryPrice(g) \in Int
BY SignalFields DEF EntryPrice, TypeOK

\* The PnL and the fee of a close at an integer price are integers.
LEMMA CloseMoney ==
    ASSUME NEW p \in Position, NEW x \in Int
    PROVE  /\ CloseFee(p, x) \in Int /\ Gross(p, x) \in Int
           /\ Net(p, x) \in Int /\ Credit(p, x) \in Int
<1>1. PosQty(p) \in Int /\ p.entry \in Int /\ PosFee(p) \in Int /\ PosMargin(p) \in Int
  BY PositionMoney, PositionFields
<1>2. CloseFee(p, x) \in Int
  BY <1>1, ExitFeeType DEF CloseFee
<1>3. Gross(p, x) \in Int
  BY <1>1, PnlType DEF Gross
<1> QED BY <1>1, <1>2, <1>3 DEF Net, Credit

-----------------------------------------------------------------------------
(* Types: one lemma per action.                                            *)

LEMMA InitInv ==
    ASSUME Init
    PROVE  Inv
<1>1. TypeOK
  BY EngineAssumption
     DEF Init, TypeOK, NoPositions, NoMarks, FreshDaily, FreshDD, Cids, Tasks
<1>2. HandlerLocals
  BY DEF Init, HandlerLocals, Tasks
<1> QED BY <1>1, <1>2 DEF Inv

LEMMA DeliverInv ==
    ASSUME Inv, NEW t \in Tasks, Deliver(t)
    PROVE  Inv'
<1>1. TypeOK'
  BY DEF Inv, TypeOK, Deliver, historyVars
<1>2. HandlerLocals'
  BY DEF Inv, HandlerLocals, Deliver
<1> QED BY <1>1, <1>2 DEF Inv

\* What the segment that starts a close does to the types.
LEMMA CloseTypes ==
    ASSUME TypeOK, NEW t \in Tasks, NEW s \in Symbols, positions[s] # Null,
           NEW x \in Int, NEW r \in Reasons, Close(t, s, x, r)
    PROVE  /\ balance' \in Int /\ realised' \in Int /\ sinceReset' \in Int
           /\ positions' \in [Symbols -> Position \cup {Null}]
           /\ positions' = [positions EXCEPT ![s] = Null]
           /\ call' \in [Tasks -> Closing \cup {Null}]
           /\ call'[t] # Null
           /\ \A u \in Tasks \ {t} : call'[u] = call[u] /\ pc'[u] = pc[u]
           /\ wire' \in [Tasks -> Message \cup {Null}]
           /\ pc' \in [Tasks -> {"loop", "close", "trip", "flip", "fill"}]
           /\ pc'[t] = "close"
<1> DEFINE p == positions[s]
           k == [pos |-> p, exit |-> x, reason |-> r, net |-> Net(p, x)]
           m == [chan |-> "trade.closed", cid |-> p.cid, sym |-> s, closed |-> TRUE]
<1>1. p \in Position
  BY DEF TypeOK
<1>2. Net(p, x) \in Int /\ Credit(p, x) \in Int
  BY <1>1, CloseMoney
<1>3. k \in Closing /\ k # Null
  BY <1>1, <1>2, NullAssumption DEF Closing
<1>4. m \in Message
  BY <1>1, PositionFields DEF Message, Channels
<1>5. /\ balance' = balance + Credit(p, x)
      /\ realised' = realised + Net(p, x)
      /\ sinceReset' = sinceReset + Net(p, x)
  BY DEF Close
<1>6. /\ positions' = [positions EXCEPT ![s] = Null]
      /\ call' = [call EXCEPT ![t] = k]
      /\ wire' = [wire EXCEPT ![t] = m]
      /\ pc' = [pc EXCEPT ![t] = "close"]
  BY DEF Close, Popped, Publish, Goto
<1>7. balance' \in Int /\ realised' \in Int /\ sinceReset' \in Int
  BY <1>2, <1>5 DEF TypeOK
<1> HIDE DEF k, m
<1> QED BY <1>3, <1>4, <1>6, <1>7 DEF TypeOK

LEMMA AnnounceTypes ==
    ASSUME TypeOK, NEW t \in Tasks, call[t] # Null, AnnounceClose(t)
    PROVE  /\ up' \in BOOLEAN
           /\ wire' \in [Tasks -> Message \cup {Null}]
           /\ pc' \in [Tasks -> {"loop", "close", "trip", "flip", "fill"}]
           /\ call' \in [Tasks -> Closing \cup {Null}]
           /\ \/ pc' = pc /\ call' = call /\ up' = FALSE
              \/ /\ pc' = [pc EXCEPT ![t] = IF t = "sig" THEN "flip" ELSE "loop"]
                 /\ call' = [call EXCEPT ![t] = Null]
                 /\ up' = up
<1> DEFINE k == call[t]
<1>1. k \in Closing
  BY DEF TypeOK
<1>2. k.pos \in Position
  BY <1>1 DEF Closing
<1>3. k.pos.cid \in Cids /\ k.pos.sig.sym \in Symbols
  BY <1>2, PositionFields, SignalFields
<1> DEFINE m == [chan |-> "position.update", cid |-> k.pos.cid,
                 sym |-> k.pos.sig.sym, closed |-> TRUE]
<1>4. m \in Message
  BY <1>3 DEF Message, Channels
<1>5. CASE k.reason \in CloseReasons
  <2>1. /\ wire' = [wire EXCEPT ![t] = m]
        /\ pc' = [pc EXCEPT ![t] = IF t = "sig" THEN "flip" ELSE "loop"]
        /\ call' = [call EXCEPT ![t] = Null]
        /\ up' = up
    BY <1>5 DEF AnnounceClose, AfterClose, Publish, Goto
  <2> HIDE DEF m
  <2> QED BY <1>4, <2>1 DEF TypeOK
<1>6. CASE k.reason \notin CloseReasons
  BY <1>6 DEF AnnounceClose, TypeOK
<1> QED BY <1>5, <1>6

LEMMA BreakerTypes ==
    ASSUME TypeOK, NEW n \in Int
    PROVE  /\ UpdatePnl(daily, n) \in [cum : Int, tripped : BOOLEAN]
           /\ UpdateEquity(maxDD, Equity) \in [peak : Int, tripped : BOOLEAN]
<1>1. Equity \in Int
  BY EquityType
<1>2. daily.cum \in Int /\ daily.tripped \in BOOLEAN
      /\ maxDD.peak \in Int /\ maxDD.tripped \in BOOLEAN
  BY DEF TypeOK
<1>3. UpdatePnl(daily, n) \in [cum : Int, tripped : BOOLEAN]
  BY <1>2 DEF UpdatePnl, LossTrips
<1>4. UpdateEquity(maxDD, Equity) \in [peak : Int, tripped : BOOLEAN]
  BY <1>1, <1>2 DEF UpdateEquity
<1> QED BY <1>3, <1>4

\* The last segment of a close leaves the locals as a coroutine expects them: a flip
\* goes on with its signal and its free symbol.
LEMMA AnnounceLocals ==
    ASSUME Inv, NEW t \in Tasks, pc[t] \in {"close", "trip"}, AnnounceClose(t),
           UNCHANGED <<positions, cur>>
    PROVE  HandlerLocals'
<1> USE DEF Inv
<1>1. call[t] # Null
  BY DEF HandlerLocals
<1>2. CASE pc' = pc /\ call' = call
  BY <1>2 DEF HandlerLocals
<1>3. CASE /\ pc' = [pc EXCEPT ![t] = IF t = "sig" THEN "flip" ELSE "loop"]
           /\ call' = [call EXCEPT ![t] = Null]
  <2>1. \A u \in Tasks : u # t => pc'[u] = pc[u] /\ call'[u] = call[u]
    BY <1>3 DEF TypeOK
  <2>2. pc'[t] = IF t = "sig" THEN "flip" ELSE "loop"
    BY <1>3 DEF TypeOK
  <2>3. CASE t = "sig"
    BY <2>1, <2>2, <2>3 DEF HandlerLocals, Tasks
  <2>4. CASE t = "mrk"
    BY <2>1, <2>2, <2>4 DEF HandlerLocals, Tasks
  <2> QED BY <2>3, <2>4 DEF Tasks
<1> QED BY <1>1, <1>2, <1>3, AnnounceTypes

LEMMA CountCloseInv ==
    ASSUME Inv, NEW t \in Tasks, CountClose(t)
    PROVE  Inv'
<1> USE DEF Inv
<1>1. pc[t] = "close" /\ call[t] # Null /\ call[t] \in Closing
  BY DEF CountClose, At, HandlerLocals, TypeOK
<1>2. call[t].net \in Int /\ call[t].pos \in Position
  BY <1>1 DEF Closing
<1>3. /\ daily' \in [cum : Int, tripped : BOOLEAN]
      /\ maxDD' \in [peak : Int, tripped : BOOLEAN]
  BY <1>2, BreakerTypes DEF CountClose
<1>4. UNCHANGED <<balance, positions, lastMark, cur, sent, status, realised, sinceReset>>
  BY DEF CountClose, historyVars
<1>5. CASE daily'.tripped
  <2> DEFINE m == [chan |-> "circuit.tripped", cid |-> call[t].pos.cid,
                   sym |-> call[t].pos.sig.sym, closed |-> TRUE]
  <2>1. m \in Message
    BY <1>2, PositionFields, SignalFields DEF Message, Channels
  <2>2. wire' = [wire EXCEPT ![t] = m] /\ pc' = [pc EXCEPT ![t] = "trip"]
        /\ UNCHANGED <<call, up>>
    BY <1>5 DEF CountClose, Publish, Goto
  <2> HIDE DEF m
  <2>3. TypeOK'
    BY <1>3, <1>4, <2>1, <2>2 DEF TypeOK
  <2>4. HandlerLocals'
    BY <1>1, <1>4, <2>2 DEF HandlerLocals, TypeOK, Tasks
  <2> QED BY <2>3, <2>4
<1>6. CASE ~daily'.tripped
  <2>1. AnnounceClose(t)
    BY <1>6 DEF CountClose
  <2>2. TypeOK'
    BY <1>1, <1>3, <1>4, <2>1, AnnounceTypes DEF TypeOK
  <2>3. HandlerLocals'
    BY <1>1, <1>4, <2>1, AnnounceLocals
  <2> QED BY <2>2, <2>3
<1> QED BY <1>5, <1>6

LEMMA FinishTripInv ==
    ASSUME Inv, NEW t \in Tasks, FinishTrip(t)
    PROVE  Inv'
<1> USE DEF Inv
<1>1. pc[t] = "trip" /\ call[t] # Null /\ AnnounceClose(t)
  BY DEF FinishTrip, At, HandlerLocals
<1>2. UNCHANGED <<balance, positions, lastMark, daily, maxDD, cur, sent, status,
                  realised, sinceReset>>
  BY DEF FinishTrip, historyVars
<1>3. TypeOK'
  BY <1>1, <1>2, AnnounceTypes DEF TypeOK
<1>4. HandlerLocals'
  BY <1>1, <1>2, AnnounceLocals
<1> QED BY <1>3, <1>4

\* The position that Fill builds.
FilledPosition(c, g) ==
    [cid |-> c, sig |-> g, entry |-> EntryPrice(g), mark |-> 0, old |-> FALSE]

LEMMA FilledType ==
    ASSUME TypeOK, NEW c \in Cids, NEW g \in Signals, Fill(c, g)
    PROVE  FilledPosition(c, g) \in Position
<1>1. EntryPrice(g) \in Nat \ {0} /\ g \in Fillable
  BY EntryPriceType, SignalFields DEF Fill, Computes, Fillable
<1> QED BY <1>1 DEF FilledPosition, Position

LEMMA DecideInv ==
    ASSUME Inv, NEW c \in Cids, NEW g \in Signals, Decide(c, g),
           sent' \in 0 .. MaxSignals
    PROVE  Inv'
<1> USE DEF Inv
<1>1. UNCHANGED <<lastMark, daily, maxDD, call, realised, sinceReset>>
  BY DEF Decide
<1>2. g.sym \in Symbols
  BY SignalFields
<1>3. CASE Veto(c, g)
  <2> DEFINE m == [chan |-> "risk.veto", cid |-> c, sym |-> g.sym, closed |-> FALSE]
  <2>1. m \in Message
    BY <1>2 DEF Message, Channels
  <2>2. /\ wire' = [wire EXCEPT !["sig"] = m]
        /\ pc' = [pc EXCEPT !["sig"] = "loop"]
        /\ status' = [status EXCEPT ![c] = "vetoed"]
        /\ cur' = Null
        /\ UNCHANGED <<up, balance, positions>>
    BY <1>3 DEF Veto, Publish, Goto, Mark
  <2> HIDE DEF m
  <2>3. TypeOK'
    BY <1>1, <2>1, <2>2 DEF TypeOK
  <2>4. HandlerLocals'
    BY <1>1, <2>2 DEF HandlerLocals, TypeOK, Tasks
  <2> QED BY <2>3, <2>4
<1>4. CASE FillRaises(c, g)
  <2>1. /\ up' = FALSE /\ status' = [status EXCEPT ![c] = "taken"]
        /\ UNCHANGED <<balance, positions, pc, wire, cur>>
    BY <1>4 DEF FillRaises, Mark
  <2>2. TypeOK'
    BY <1>1, <2>1 DEF TypeOK
  <2>3. HandlerLocals'
    BY <1>1, <2>1 DEF HandlerLocals
  <2> QED BY <2>2, <2>3
<1>5. CASE Fill(c, g)
  <2> DEFINE p == FilledPosition(c, g)
             m == [chan |-> "trade.executed", cid |-> c, sym |-> g.sym, closed |-> FALSE]
             k == [cid |-> c, sig |-> g]
  <2>1. p \in Position /\ PosMargin(p) \in Int /\ PosFee(p) \in Int
    BY <1>5, FilledType, PositionMoney
  <2>2. m \in Message
    BY <1>2 DEF Message, Channels
  <2>3. k \in [cid : Cids, sig : Signals] /\ k # Null
    BY NullAssumption
  <2>4. /\ positions' = [positions EXCEPT ![g.sym] = p]
        /\ balance' = balance - (PosMargin(p) + PosFee(p))
        /\ wire' = [wire EXCEPT !["sig"] = m]
        /\ pc' = [pc EXCEPT !["sig"] = "fill"]
        /\ status' = [status EXCEPT ![c] = "live"]
        /\ cur' = k
        /\ UNCHANGED up
    BY <1>5 DEF Fill, Publish, Goto, Mark, FilledPosition
  <2> HIDE DEF p, m, k
  <2>5. TypeOK'
    <3>1. /\ up' \in BOOLEAN /\ sent' \in 0 .. MaxSignals
          /\ lastMark' \in [Symbols -> Nat]
          /\ daily' \in [cum : Int, tripped : BOOLEAN]
          /\ maxDD' \in [peak : Int, tripped : BOOLEAN]
          /\ call' \in [Tasks -> Closing \cup {Null}]
          /\ realised' \in Int /\ sinceReset' \in Int
      BY <1>1, <2>4 DEF TypeOK
    <3>2. balance' \in Int
      BY <2>1, <2>4 DEF TypeOK
    <3>3. positions' \in [Symbols -> Position \cup {Null}]
      BY <1>2, <2>1, <2>4 DEF TypeOK
    <3>4. /\ pc' \in [Tasks -> {"loop", "close", "trip", "flip", "fill"}]
          /\ status' \in [Cids -> {"unsent", "taken", "skipped", "vetoed", "live",
                                  "closed", "lost"}]
      BY <2>4 DEF TypeOK
    <3>5. /\ wire' \in [Tasks -> Message \cup {Null}]
          /\ cur' \in [cid : Cids, sig : Signals] \cup {Null}
      BY <2>2, <2>3, <2>4 DEF TypeOK
    <3> QED BY <3>1, <3>2, <3>3, <3>4, <3>5 DEF TypeOK
  <2>6. HandlerLocals'
    BY <1>1, <2>3, <2>4 DEF HandlerLocals, TypeOK, Tasks
  <2> QED BY <2>5, <2>6
<1> QED BY <1>3, <1>4, <1>5 DEF Decide

LEMMA NextCid ==
    ASSUME TypeOK, sent < MaxSignals
    PROVE  sent + 1 \in Cids /\ sent + 1 \in 0 .. MaxSignals
BY EngineAssumption DEF TypeOK, Cids

\* The price a flip closes at.
LEMMA FlipExitType ==
    ASSUME TypeOK, NEW s \in Symbols, positions[s] # Null
    PROVE  (IF lastMark[s] # 0 THEN lastMark[s] ELSE positions[s].entry) \in Int
<1>1. positions[s] \in Position
  BY DEF TypeOK
<1> QED BY <1>1, PositionFields DEF TypeOK

LEMMA FlipInv ==
    ASSUME Inv, NEW c \in Cids, NEW g \in Signals, pc["sig"] = "loop", Flip(c, g),
           sent' \in 0 .. MaxSignals
    PROVE  Inv'
<1> USE DEF Inv
<1> DEFINE s == g.sym
           x == IF lastMark[s] # 0 THEN lastMark[s] ELSE positions[s].entry
           k == [cid |-> c, sig |-> g]
<1>1. s \in Symbols /\ positions[s] # Null /\ positions[s] \in Position
  BY SignalFields DEF Flip, TypeOK
<1>2. Close("sig", s, x, "direction_flip")
  BY DEF Flip
<1>3. x \in Int /\ "direction_flip" \in Reasons /\ "sig" \in Tasks
  BY <1>1, FlipExitType DEF Reasons, Tasks
<1>4. positions[s].cid \in Cids
  BY <1>1, PositionFields
<1>5. /\ status' = [status EXCEPT ![c] = "taken", ![positions[s].cid] = "closed"]
      /\ cur' = k
      /\ UNCHANGED <<up, lastMark, daily, maxDD>>
  BY DEF Flip
<1>6. k \in [cid : Cids, sig : Signals] /\ k # Null /\ k.sig.sym = s
  BY NullAssumption
<1> HIDE DEF x, k
<1>7. /\ balance' \in Int /\ realised' \in Int /\ sinceReset' \in Int
      /\ positions' \in [Symbols -> Position \cup {Null}]
      /\ positions' = [positions EXCEPT ![s] = Null]
      /\ call' \in [Tasks -> Closing \cup {Null}]
      /\ call'["sig"] # Null
      /\ \A u \in Tasks \ {"sig"} : call'[u] = call[u] /\ pc'[u] = pc[u]
      /\ wire' \in [Tasks -> Message \cup {Null}]
      /\ pc' \in [Tasks -> {"loop", "close", "trip", "flip", "fill"}]
      /\ pc'["sig"] = "close"
  BY <1>1, <1>2, <1>3, CloseTypes
<1>8. TypeOK'
  BY <1>4, <1>5, <1>6, <1>7 DEF TypeOK
<1>9. HandlerLocals'
  BY <1>1, <1>5, <1>6, <1>7 DEF HandlerLocals, TypeOK, Tasks
<1> QED BY <1>8, <1>9

LEMMA TakeSignalInv ==
    ASSUME Inv, NEW g \in Signals, TakeSignal(g)
    PROVE  Inv'
<1> DEFINE c == sent + 1
<1>1. c \in Cids /\ sent' = c /\ sent' \in 0 .. MaxSignals /\ pc["sig"] = "loop"
  BY NextCid DEF TakeSignal, At, Inv
<1>2. CASE SkipDuplicate(c, g)
  <2>1. UNCHANGED <<engineVars, realised, sinceReset>>
        /\ status' = [status EXCEPT ![c] = "skipped"]
    BY <1>2 DEF SkipDuplicate, Mark
  <2>2. TypeOK'
    BY <1>1, <2>1 DEF Inv, TypeOK, engineVars
  <2>3. HandlerLocals'
    BY <2>1 DEF Inv, HandlerLocals, engineVars
  <2> QED BY <2>2, <2>3 DEF Inv
<1>3. CASE Flip(c, g)
  BY <1>1, <1>3, FlipInv
<1>4. CASE Decide(c, g)
  BY <1>1, <1>4, DecideInv
<1> QED BY <1>2, <1>3, <1>4 DEF TakeSignal

LEMMA DecideAfterFlipInv ==
    ASSUME Inv, DecideAfterFlip
    PROVE  Inv'
<1>1. cur # Null /\ cur \in [cid : Cids, sig : Signals]
  BY DEF Inv, HandlerLocals, DecideAfterFlip, At, TypeOK
<1>2. cur.cid \in Cids /\ cur.sig \in Signals /\ Decide(cur.cid, cur.sig)
      /\ sent' \in 0 .. MaxSignals
  BY <1>1 DEF DecideAfterFlip, Inv, TypeOK
<1> QED BY <1>2, DecideInv

LEMMA ReportTypes ==
    ASSUME TypeOK, NEW t \in Tasks, NEW s \in Symbols, Report(t, s)
    PROVE  wire' \in [Tasks -> Message \cup {Null}]
<1>1. CASE positions[s] = Null
  BY <1>1 DEF Report, TypeOK
<1>2. CASE positions[s] # Null
  <2> DEFINE m == [chan |-> "position.update", cid |-> positions[s].cid,
                   sym |-> s, closed |-> FALSE]
  <2>1. positions[s] \in Position
    BY <1>2 DEF TypeOK
  <2>2. m \in Message
    BY <2>1, PositionFields DEF Message, Channels
  <2>3. wire' = [wire EXCEPT ![t] = m]
    BY <1>2 DEF Report, Publish
  <2> HIDE DEF m
  <2> QED BY <2>2, <2>3 DEF TypeOK
<1> QED BY <1>1, <1>2

LEMMA ReportFillInv ==
    ASSUME Inv, ReportFill
    PROVE  Inv'
<1> USE DEF Inv
<1>1. cur # Null /\ cur \in [cid : Cids, sig : Signals]
  BY DEF HandlerLocals, ReportFill, At, TypeOK
<1>2. cur.sig.sym \in Symbols
  BY <1>1, SignalFields
<1>3. wire' \in [Tasks -> Message \cup {Null}]
  BY <1>2, ReportTypes DEF ReportFill, Tasks
<1>4. /\ pc' = [pc EXCEPT !["sig"] = "loop"] /\ cur' = Null
      /\ UNCHANGED <<up, balance, positions, lastMark, daily, maxDD, call, sent,
                     status, realised, sinceReset>>
  BY DEF ReportFill, Goto, historyVars
<1>5. TypeOK'
  BY <1>3, <1>4 DEF TypeOK
<1>6. HandlerLocals'
  BY <1>4 DEF HandlerLocals, TypeOK, Tasks
<1> QED BY <1>5, <1>6

\* Whatever its reason, a close by the mark coroutine is at an integer price.
LEMMA MarkClosesAt ==
    ASSUME TypeOK, NEW s \in Symbols, NEW px \in Prices, MarkCloses(s, px)
    PROVE  /\ positions[s] # Null /\ positions[s] \in Position
           /\ status' = [status EXCEPT ![positions[s].cid] = "closed"]
           /\ \E x \in Int, r \in Reasons : Close("mrk", s, x, r)
<1> DEFINE p == positions[s]
<1>1. p # Null /\ p \in Position
  BY DEF MarkCloses, TypeOK
<1>2. px \in Int /\ PosLiq(p) \in Int /\ p.sig.sl \in Int /\ p.sig.tp \in Int
  BY <1>1, EngineAssumption, PositionMoney, PositionFields, SignalFields
<1>3. status' = [status EXCEPT ![p.cid] = "closed"]
  BY DEF MarkCloses, Mark
<1>4. \/ Close("mrk", s, px, "max_hold") \/ Close("mrk", s, PosLiq(p), "liq")
      \/ Close("mrk", s, p.sig.sl, "sl") \/ Close("mrk", s, p.sig.tp, "tp")
  BY DEF MarkCloses
<1>5. {"max_hold", "liq", "sl", "tp"} \subseteq Reasons
  BY DEF Reasons
<1>6. \E x \in Int, r \in Reasons : Close("mrk", s, x, r)
  BY <1>2, <1>4, <1>5
<1> QED BY <1>1, <1>3, <1>6

LEMMA TakeMarkInv ==
    ASSUME Inv, NEW s \in SymbolList, NEW px \in Prices, TakeMark(s, px)
    PROVE  Inv'
<1> USE DEF Inv
<1>1. s \in Symbols /\ px \in Nat /\ pc["mrk"] = "loop"
  BY EngineAssumption DEF TakeMark, At
<1>2. lastMark' = [lastMark EXCEPT ![s] = px] /\ UNCHANGED <<up, daily, maxDD, cur, sent>>
  BY DEF TakeMark
<1>3. CASE MarkUntracked(s)
  <2>1. UNCHANGED <<balance, positions, pc, call, wire, status, realised, sinceReset>>
    BY <1>3 DEF MarkUntracked
  <2>2. TypeOK'
    BY <1>1, <1>2, <2>1 DEF TypeOK
  <2>3. HandlerLocals'
    BY <1>2, <2>1 DEF HandlerLocals
  <2> QED BY <2>2, <2>3
<1>4. CASE MarkCloses(s, px)
  <2>1. /\ positions[s] # Null /\ positions[s] \in Position
        /\ status' = [status EXCEPT ![positions[s].cid] = "closed"]
    BY <1>1, <1>4, MarkClosesAt
  <2>2. PICK x \in Int, r \in Reasons : Close("mrk", s, x, r)
    BY <1>1, <1>4, MarkClosesAt
  <2>3. positions[s].cid \in Cids
    BY <2>1, PositionFields
  <2>4. /\ balance' \in Int /\ realised' \in Int /\ sinceReset' \in Int
        /\ positions' \in [Symbols -> Position \cup {Null}]
        /\ positions' = [positions EXCEPT ![s] = Null]
        /\ call' \in [Tasks -> Closing \cup {Null}]
        /\ call'["mrk"] # Null
        /\ \A u \in Tasks \ {"mrk"} : call'[u] = call[u] /\ pc'[u] = pc[u]
        /\ wire' \in [Tasks -> Message \cup {Null}]
        /\ pc' \in [Tasks -> {"loop", "close", "trip", "flip", "fill"}]
        /\ pc'["mrk"] = "close"
    BY <1>1, <2>1, <2>2, CloseTypes DEF Tasks
  <2>5. TypeOK'
    BY <1>1, <1>2, <2>1, <2>3, <2>4 DEF TypeOK
  <2>6. HandlerLocals'
    <3>1. \A t \in Tasks : pc'[t] \in {"close", "trip"} => call'[t] # Null
      BY <2>4 DEF HandlerLocals
    <3>2. pc'["sig"] = pc["sig"] /\ cur' = cur
      BY <1>2, <2>4 DEF Tasks
    <3>3. cur # Null => cur.sig.sym \in Symbols
      BY SignalFields DEF TypeOK
    <3>4. cur # Null /\ positions[cur.sig.sym] = Null => positions'[cur.sig.sym] = Null
      BY <3>3, <2>4, <1>1 DEF TypeOK
    <3> QED BY <3>1, <3>2, <3>4, <2>4 DEF HandlerLocals
  <2> QED BY <2>5, <2>6
<1>5. CASE MarkMoves(s, px)
  <2> DEFINE p == positions[s]
             m == [chan |-> "position.update", cid |-> p.cid, sym |-> s, closed |-> FALSE]
             q == [p EXCEPT !.mark = px]
  <2>1. p # Null /\ p \in Position
    BY <1>1, <1>5 DEF MarkMoves, TypeOK
  <2>2. q \in Position
    BY <1>1, <2>1 DEF Position
  <2>3. m \in Message
    BY <1>1, <2>1, PositionFields DEF Message, Channels
  <2>4. positions' = [positions EXCEPT ![s] = q] /\ wire' = [wire EXCEPT !["mrk"] = m]
        /\ UNCHANGED <<balance, pc, call, status, realised, sinceReset>>
    BY <1>1, <1>5 DEF MarkMoves, Publish, TypeOK
  <2> HIDE DEF m, q
  <2>5. TypeOK'
    BY <1>1, <1>2, <2>2, <2>3, <2>4 DEF TypeOK
  <2>6. HandlerLocals'
    <3>1. cur # Null => cur.sig.sym \in Symbols
      BY SignalFields DEF TypeOK
    <3>2. cur # Null /\ positions[cur.sig.sym] = Null => positions'[cur.sig.sym] = Null
      BY <3>1, <2>1, <2>4, <1>1 DEF TypeOK
    <3> QED BY <1>2, <2>4, <3>2 DEF HandlerLocals
  <2> QED BY <2>5, <2>6
<1> QED BY <1>3, <1>4, <1>5 DEF TakeMark

LEMMA AgeInv ==
    ASSUME Inv, NEW s \in Symbols, Age(s)
    PROVE  Inv'
<1> USE DEF Inv
<1> DEFINE q == [positions[s] EXCEPT !.old = TRUE]
<1>1. positions[s] # Null /\ positions[s] \in Position
  BY DEF Age, TypeOK
<1>2. q \in Position
  BY <1>1 DEF Position
<1>3. /\ positions' = [positions EXCEPT ![s] = q]
      /\ UNCHANGED <<up, balance, lastMark, daily, maxDD, pc, call, cur, wire,
                     sent, status, realised, sinceReset>>
  BY DEF Age, TypeOK, historyVars
<1> HIDE DEF q
<1>4. TypeOK'
  BY <1>2, <1>3 DEF TypeOK
<1>5. HandlerLocals'
  <2>1. cur # Null => cur.sig.sym \in Symbols
    BY SignalFields DEF TypeOK
  <2>2. cur # Null /\ positions[cur.sig.sym] = Null => positions'[cur.sig.sym] = Null
    BY <2>1, <1>1, <1>3 DEF TypeOK
  <2> QED BY <1>3, <2>2 DEF HandlerLocals
<1> QED BY <1>4, <1>5

LEMMA PendingType ==
    ASSUME Inv, NEW t \in Tasks
    PROVE  Pending(t) \in Int
BY DEF Inv, TypeOK, HandlerLocals, Pending, Closing

LEMMA EnvironmentInv ==
    ASSUME Inv, ResetBreakers \/ Kill \/ Restart
    PROVE  Inv'
<1>1. CASE ResetBreakers
  <2>1. sinceReset' \in Int
    BY <1>1, PendingType DEF ResetBreakers, Tasks
  <2>2. TypeOK'
    BY <1>1, <2>1 DEF Inv, TypeOK, ResetBreakers, FreshDaily, FreshDD
  <2>3. HandlerLocals'
    BY <1>1 DEF Inv, HandlerLocals, ResetBreakers
  <2> QED BY <2>2, <2>3 DEF Inv
<1>2. CASE Kill
  BY <1>2 DEF Inv, TypeOK, HandlerLocals, Kill, historyVars
<1>3. CASE Restart
  <2>1. TypeOK'
    BY <1>3, EngineAssumption
       DEF Inv, TypeOK, Restart, NoPositions, NoMarks, FreshDaily, FreshDD, Tasks
  <2>2. HandlerLocals'
    BY <1>3 DEF Restart, HandlerLocals, Tasks
  <2> QED BY <2>1, <2>2 DEF Inv
<1> QED BY <1>1, <1>2, <1>3

LEMMA StepInv == Inv /\ [Next]_vars => Inv'
<1> SUFFICES ASSUME Inv, [Next]_vars PROVE Inv'
  OBVIOUS
<1>1. CASE UNCHANGED vars
  BY <1>1 DEF Inv, TypeOK, HandlerLocals, vars, engineVars, historyVars
<1>2. ASSUME NEW t \in Tasks, Deliver(t) \/ CountClose(t) \/ FinishTrip(t)
      PROVE  Inv'
  BY <1>2, DeliverInv, CountCloseInv, FinishTripInv
<1>3. ASSUME NEW g \in Signals, TakeSignal(g) PROVE Inv'
  BY <1>3, TakeSignalInv
<1>4. CASE DecideAfterFlip
  BY <1>4, DecideAfterFlipInv
<1>5. CASE ReportFill
  BY <1>5, ReportFillInv
<1>6. ASSUME NEW s \in SymbolList, NEW px \in Prices, TakeMark(s, px) PROVE Inv'
  BY <1>6, TakeMarkInv
<1>7. ASSUME NEW s \in Symbols, Age(s) PROVE Inv'
  BY <1>7, AgeInv
<1>8. CASE ResetBreakers \/ Kill \/ Restart
  BY <1>8, EnvironmentInv
<1> QED BY <1>1, <1>2, <1>3, <1>4, <1>5, <1>6, <1>7, <1>8 DEF Next

\* Inv holds in every reachable state.
THEOREM InvHolds == Spec => []Inv
BY InitInv, StepInv, PTL DEF Spec

\* Every variable of the engine keeps its type, whatever the settings, the signals and
\* the prices, across both coroutines, crashes and restarts.
THEOREM TypeCorrect == Spec => []TypeOK
<1>1. Inv => TypeOK
  BY DEF Inv
<1> QED BY <1>1, InvHolds, PTL
=============================================================================
