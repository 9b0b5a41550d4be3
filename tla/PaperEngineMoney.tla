--------------------------- MODULE PaperEngineMoney ---------------------------
(***************************************************************************)
(* Conservation of money in PaperEngine.  Account.open moves margin and    *)
(* entry fee from the balance into the position, Account.close moves them  *)
(* back together with the trade's PnL, and no other step touches either.   *)
(* How much is locked is a sum over the positions, which changes by one    *)
(* summand at a time (SumUpdate).                                          *)
(*                                                                         *)
(* Isolated margin: the distance from the entry to the liquidation price,  *)
(* times the leverage, is at most the entry price (LiqDistance), so that a *)
(* close no further away than that costs at most the margin.               *)
(***************************************************************************)
EXTENDS PaperEngineProofs

\* What a dict of positions has locked, by symbol and in all.
Locks(P) == [s \in Symbols |-> Locked(P[s])]
TotalLocked(P) == Sum(Locks(P), Symbols)

Book == [Symbols -> Position \cup {Null}]

LEMMA LockedType ==
    ASSUME NEW p \in Position \cup {Null}
    PROVE  Locked(p) \in Int
<1>1. CASE p = Null
  BY <1>1 DEF Locked
<1>2. CASE p \in Position /\ p # Null
  BY <1>2, PositionMoney DEF Locked
<1> QED BY <1>1, <1>2

LEMMA TotalType ==
    ASSUME NEW P \in Book
    PROVE  Locks(P) \in [Symbols -> Int] /\ TotalLocked(P) \in Int
<1>1. Locks(P) \in [Symbols -> Int]
  BY LockedType DEF Locks, Book
<1> QED BY <1>1, SumType, EngineAssumption DEF TotalLocked

\* Replacing one position changes the total by the difference of the two locks.
LEMMA TotalChange ==
    ASSUME NEW P \in Book, NEW s \in Symbols, NEW q \in Position \cup {Null}
    PROVE  TotalLocked([P EXCEPT ![s] = q])
             = TotalLocked(P) + (Locked(q) - Locked(P[s]))
<1> DEFINE Q == [P EXCEPT ![s] = q]
<1>1. Q \in Book /\ Q[s] = q /\ \A y \in Symbols \ {s} : Q[y] = P[y]
  BY DEF Book
<1> HIDE DEF Q
<1>2. /\ Locks(P) \in [Symbols -> Int] /\ Locks(Q) \in [Symbols -> Int]
      /\ \A y \in Symbols \ {s} : Locks(Q)[y] = Locks(P)[y]
      /\ Locks(Q)[s] = Locked(q) /\ Locks(P)[s] = Locked(P[s])
  BY <1>1, TotalType DEF Locks
<1>3. IsFiniteSet(Symbols)
  BY EngineAssumption
<1>4. Sum(Locks(Q), Symbols) = Sum(Locks(P), Symbols) + (Locks(Q)[s] - Locks(P)[s])
  BY <1>2, <1>3, SumUpdate
<1> QED BY <1>2, <1>4 DEF TotalLocked, Q

\* MoneyConserved in these terms.
LEMMA MoneyIs ==
    /\ MoneyConserved <=>
         (up => balance + TotalLocked(positions) = StartingBalance + realised)
    /\ MoneyConserved' <=>
         (up' => balance' + TotalLocked(positions') = StartingBalance + realised')
BY DEF MoneyConserved, TotalLocked, Locks

-----------------------------------------------------------------------------

\* Steps that leave the balance alone, and the locks of every position.
LEMMA MoneyUntouched ==
    ASSUME Inv, MoneyConserved, UNCHANGED <<balance, realised>>, up' => up,
           TotalLocked(positions') = TotalLocked(positions)
    PROVE  MoneyConserved'
BY MoneyIs

LEMMA MoneyClose ==
    ASSUME Inv, MoneyConserved, up, NEW t \in Tasks, NEW s \in Symbols,
           positions[s] # Null, NEW x \in Int, NEW r \in Reasons, Close(t, s, x, r)
    PROVE  MoneyConserved'
<1> DEFINE p == positions[s]
<1>1. p \in Position /\ positions \in Book
  BY DEF Inv, TypeOK, Book
<1>2. /\ positions' = [positions EXCEPT ![s] = Null]
      /\ balance' = balance + Credit(p, x)
      /\ realised' = realised + Net(p, x)
  BY DEF Close, Popped
<1>3. TotalLocked(positions') = TotalLocked(positions) + (Locked(Null) - Locked(p))
  BY <1>1, <1>2, TotalChange
<1>4. Locked(Null) = 0 /\ Locked(p) = PosMargin(p) + PosFee(p)
  BY DEF Locked
<1>5. /\ PosMargin(p) \in Int /\ PosFee(p) \in Int /\ TotalLocked(positions) \in Int
      /\ CloseFee(p, x) \in Int /\ Gross(p, x) \in Int
      /\ balance \in Int /\ realised \in Int /\ StartingBalance \in Int
  BY <1>1, PositionMoney, CloseMoney, TotalType, EngineAssumption DEF Inv, TypeOK
<1>6. /\ Credit(p, x) = PosMargin(p) + Gross(p, x) - CloseFee(p, x)
      /\ Net(p, x) = Gross(p, x) - PosFee(p) - CloseFee(p, x)
  BY DEF Credit, Net
<1>7. balance + TotalLocked(positions) = StartingBalance + realised
  BY MoneyIs
<1> HIDE DEF p
<1>8. TotalLocked(positions') = TotalLocked(positions) - (PosMargin(p) + PosFee(p))
  BY <1>3, <1>4, <1>5
<1>9. balance' + TotalLocked(positions') = StartingBalance + realised'
  BY <1>2, <1>5, <1>6, <1>7, <1>8
<1> QED BY <1>9, MoneyIs

LEMMA MoneyFill ==
    ASSUME Inv, MoneyConserved, up, NEW c \in Cids, NEW g \in Signals,
           positions[g.sym] = Null, Fill(c, g), realised' = realised
    PROVE  MoneyConserved'
<1> DEFINE p == FilledPosition(c, g)
<1>1. p \in Position /\ positions \in Book /\ g.sym \in Symbols
  BY FilledType, SignalFields DEF Inv, TypeOK, Book
<1>2. /\ positions' = [positions EXCEPT ![g.sym] = p]
      /\ balance' = balance - (PosMargin(p) + PosFee(p))
  BY DEF Fill, FilledPosition
<1>3. TotalLocked(positions')
        = TotalLocked(positions) + (Locked(p) - Locked(positions[g.sym]))
  BY <1>1, <1>2, TotalChange
<1>4. Locked(positions[g.sym]) = 0 /\ Locked(p) = PosMargin(p) + PosFee(p)
  BY <1>1, PositionFields DEF Locked
<1>5. /\ PosMargin(p) \in Int /\ PosFee(p) \in Int /\ TotalLocked(positions) \in Int
      /\ balance \in Int /\ realised \in Int /\ StartingBalance \in Int
  BY <1>1, PositionMoney, TotalType, EngineAssumption DEF Inv, TypeOK
<1>6. balance + TotalLocked(positions) = StartingBalance + realised
  BY MoneyIs
<1> HIDE DEF p
<1>7. balance' + TotalLocked(positions') = StartingBalance + realised'
  BY <1>2, <1>3, <1>4, <1>5, <1>6
<1> QED BY <1>7, MoneyIs

\* A new mark, or old age, leaves the lock of a position as it is.
LEMMA MoneyRemark ==
    ASSUME Inv, MoneyConserved, UNCHANGED <<balance, realised, up>>,
           NEW s \in Symbols, positions[s] # Null, NEW q \in Position,
           q.sig = positions[s].sig, positions' = [positions EXCEPT ![s] = q]
    PROVE  MoneyConserved'
<1>1. positions \in Book /\ positions[s] \in Position /\ q # Null
  BY PositionFields DEF Inv, TypeOK, Book
<1>2. Locked(q) = Locked(positions[s]) /\ Locked(q) \in Int
  BY <1>1, LockedType DEF Locked, PosMargin, PosFee
<1>3. TotalLocked(positions')
        = TotalLocked(positions) + (Locked(q) - Locked(positions[s]))
  BY <1>1, TotalChange
<1>4. TotalLocked(positions) \in Int
  BY <1>1, TotalType
<1>5. TotalLocked(positions') = TotalLocked(positions)
  BY <1>2, <1>3, <1>4
<1> QED BY <1>5, MoneyUntouched

-----------------------------------------------------------------------------

LEMMA MoneyDecide ==
    ASSUME Inv, MoneyConserved, up, NEW c \in Cids, NEW g \in Signals,
           positions[g.sym] = Null, Decide(c, g)
    PROVE  MoneyConserved'
<1>1. realised' = realised
  BY DEF Decide
<1>2. CASE Veto(c, g) \/ FillRaises(c, g)
  <2>1. UNCHANGED <<balance, positions>> /\ (up' => up)
    BY <1>2 DEF Veto, FillRaises
  <2> QED BY <1>1, <2>1, MoneyUntouched
<1>3. CASE Fill(c, g)
  BY <1>1, <1>3, MoneyFill
<1> QED BY <1>2, <1>3 DEF Decide

LEMMA MoneyStep ==
    ASSUME Inv, MoneyConserved, [Next]_vars
    PROVE  MoneyConserved'
<1>1. ASSUME UNCHANGED <<balance, realised, positions>>, up' => up
      PROVE  MoneyConserved'
  BY <1>1, MoneyUntouched
<1>2. CASE UNCHANGED vars
  BY <1>1, <1>2 DEF vars, engineVars, historyVars
<1>3. ASSUME NEW t \in Tasks, Deliver(t) PROVE MoneyConserved'
  BY <1>1, <1>3 DEF Deliver, historyVars
<1>4. ASSUME NEW t \in Tasks, CountClose(t) \/ FinishTrip(t) PROVE MoneyConserved'
  BY <1>1, <1>4 DEF CountClose, FinishTrip, At, historyVars
<1>5. ASSUME NEW g \in Signals, TakeSignal(g) PROVE MoneyConserved'
  <2>1. sent + 1 \in Cids /\ up /\ g.sym \in Symbols
    BY <1>5, NextCid, SignalFields DEF TakeSignal, At, Inv
  <2>2. CASE SkipDuplicate(sent + 1, g)
    BY <1>1, <2>2 DEF SkipDuplicate, engineVars
  <2>3. CASE Flip(sent + 1, g)
    <3> DEFINE x == IF lastMark[g.sym] # 0 THEN lastMark[g.sym] ELSE positions[g.sym].entry
    <3>1. Close("sig", g.sym, x, "direction_flip") /\ positions[g.sym] # Null
      BY <2>3 DEF Flip
    <3>2. x \in Int /\ "direction_flip" \in Reasons /\ "sig" \in Tasks
      BY <2>1, <3>1, FlipExitType DEF Reasons, Tasks, Inv
    <3> HIDE DEF x
    <3> QED BY <2>1, <3>1, <3>2, MoneyClose
  <2>4. CASE positions[g.sym] = Null /\ Decide(sent + 1, g)
    BY <2>1, <2>4, MoneyDecide
  <2> QED BY <1>5, <2>2, <2>3, <2>4 DEF TakeSignal
<1>6. CASE DecideAfterFlip
  <2>1. cur # Null /\ cur \in [cid : Cids, sig : Signals]
        /\ positions[cur.sig.sym] = Null /\ up
    BY <1>6 DEF HandlerLocals, DecideAfterFlip, At, TypeOK, Inv
  <2>2. cur.cid \in Cids /\ cur.sig \in Signals /\ Decide(cur.cid, cur.sig)
    BY <1>6, <2>1 DEF DecideAfterFlip
  <2> QED BY <2>1, <2>2, MoneyDecide
<1>7. CASE ReportFill
  BY <1>1, <1>7 DEF ReportFill, historyVars
<1>8. ASSUME NEW s \in SymbolList, NEW px \in Prices, TakeMark(s, px)
      PROVE  MoneyConserved'
  <2>1. s \in Symbols /\ px \in Nat /\ up /\ up' = up
    BY <1>8, EngineAssumption DEF TakeMark, At
  <2>2. CASE MarkUntracked(s)
    BY <1>1, <2>1, <2>2 DEF MarkUntracked
  <2>3. CASE MarkCloses(s, px)
    <3>1. PICK x \in Int, r \in Reasons : Close("mrk", s, x, r)
      BY <2>1, <2>3, MarkClosesAt DEF Inv
    <3>2. positions[s] # Null /\ "mrk" \in Tasks
      BY <2>3 DEF MarkCloses, Tasks
    <3> QED BY <2>1, <3>1, <3>2, MoneyClose
  <2>4. CASE MarkMoves(s, px)
    <3> DEFINE q == [positions[s] EXCEPT !.mark = px]
    <3>1. positions[s] # Null /\ positions' = [positions EXCEPT ![s] = q]
          /\ UNCHANGED <<balance, realised>>
      BY <2>4 DEF MarkMoves
    <3>2. positions[s] \in Position
      BY <2>1, <3>1 DEF Inv, TypeOK
    <3>3. q \in Position /\ q.sig = positions[s].sig
      BY <2>1, <3>2 DEF Position
    <3> HIDE DEF q
    <3> QED BY <2>1, <3>1, <3>3, MoneyRemark
  <2> QED BY <1>8, <2>2, <2>3, <2>4 DEF TakeMark
<1>9. ASSUME NEW s \in Symbols, Age(s) PROVE MoneyConserved'
  <2> DEFINE q == [positions[s] EXCEPT !.old = TRUE]
  <2>1. positions[s] # Null /\ positions' = [positions EXCEPT ![s] = q]
        /\ UNCHANGED <<balance, realised, up>>
    BY <1>9 DEF Age, historyVars
  <2>2. positions[s] \in Position
    BY <2>1 DEF Inv, TypeOK
  <2>3. q \in Position /\ q.sig = positions[s].sig
    BY <2>2 DEF Position
  <2> HIDE DEF q
  <2> QED BY <2>1, <2>3, MoneyRemark
<1>10. CASE ResetBreakers \/ Kill
  BY <1>1, <1>10 DEF ResetBreakers, Kill, historyVars
<1>11. CASE Restart
  <2>1. balance' = StartingBalance /\ realised' = 0 /\ positions' = NoPositions
    BY <1>11 DEF Restart
  <2>2. TotalLocked(NoPositions) = 0
    BY SumZero, EngineAssumption DEF TotalLocked, Locks, Locked, NoPositions
  <2> QED BY <2>1, <2>2, MoneyIs, EngineAssumption
<1> QED BY <1>2, <1>3, <1>4, <1>5, <1>6, <1>7, <1>8, <1>9, <1>10, <1>11 DEF Next

\* Account creates and loses no money: in every state of a running process, balance,
\* margins and entry fees are the starting balance and the net PnL that trade.closed
\* has announced, whatever the handlers interleave.
THEOREM MoneyConservedHolds == Spec => []MoneyConserved
<1>1. Init => MoneyConserved
  <2>1. TotalLocked(NoPositions) = 0
    BY SumZero, EngineAssumption DEF TotalLocked, Locks, Locked, NoPositions
  <2> QED BY <2>1, MoneyIs, EngineAssumption DEF Init
<1>2. Inv /\ MoneyConserved /\ [Next]_vars => MoneyConserved'
  BY MoneyStep
<1> QED BY <1>1, <1>2, InvHolds, PTL DEF Spec

-----------------------------------------------------------------------------
(* Isolated margin.  The liquidation price is rounded to the unit, where   *)
(* the code keeps a float; a unit is fine enough when the maintenance      *)
(* margin of every price is at least one unit.                             *)

FinePrice(x) == x * MmrRate >= Scale

FineUnit ==
    /\ \A px \in Prices : FinePrice(px)
    /\ \A g \in Signals :
           /\ (g.entry # Null /\ g.entry > 0) => FinePrice(g.entry)
           /\ (g.sl > 0 /\ g.tp > 0) => FinePrice(g.sl) /\ FinePrice(g.tp)

\* The quotient q of a by b is the integer with b * q <= a < b * (q + 1).
LEMMA DivBounds ==
    ASSUME NEW a \in Int, NEW b \in Nat \ {0}
    PROVE  /\ a \div b \in Int
           /\ b * (a \div b) <= a /\ a < b * (a \div b) + b
OBVIOUS

LEMMA MulMono ==
    ASSUME NEW a \in Nat, NEW x \in Int, NEW y \in Int, x <= y
    PROVE  a * x <= a * y
OBVIOUS

LEMMA MulCancel ==
    ASSUME NEW a \in Nat \ {0}, NEW x \in Int, NEW y \in Int, a * x <= a * y
    PROVE  x <= y
OBVIOUS

LEMMA DivMax ==
    ASSUME NEW a \in Int, NEW b \in Nat \ {0}, NEW n \in Int, b * n <= a
    PROVE  n <= a \div b
<1>1. a \div b \in Int /\ a < b * ((a \div b) + 1)
  BY DivBounds
<1>2. CASE n >= (a \div b) + 1
  <2>1. b * ((a \div b) + 1) <= b * n
    BY <1>1, <1>2, MulMono
  <2> QED BY <1>1, <2>1
<1> QED BY <1>1, <1>2

\* From the entry to the liquidation price it is at most 1/lev of the entry.
LEMMA LiqDistance ==
    ASSUME NEW entry \in Nat \ {0}, NEW lev \in Nat \ {0}, FinePrice(entry)
    PROVE  /\ LiqPrice(entry, "LONG", lev) \in Int
           /\ LiqPrice(entry, "SHORT", lev) \in Int
           /\ lev * (entry - LiqPrice(entry, "LONG", lev)) <= entry
           /\ lev * (LiqPrice(entry, "SHORT", lev) - entry) <= entry
<1> DEFINE L == Scale * lev
           gap == Scale - MmrRate * lev
           long == (entry * (L - gap)) \div L
           short == (entry * (L + gap)) \div L
<1>1. Scale \in Nat \ {0} /\ MmrRate \in Nat /\ entry * MmrRate >= Scale
  BY RateAssumption DEF FinePrice
<1>2. L \in Nat \ {0} /\ gap \in Int /\ entry * (L - gap) \in Int /\ entry * (L + gap) \in Int
  BY <1>1
<1>3. LiqPrice(entry, "LONG", lev) = long /\ LiqPrice(entry, "SHORT", lev) = short
  BY DEF LiqPrice
<1> HIDE DEF L, gap
<1>4. /\ long \in Int /\ entry * (L - gap) < L * long + L
      /\ short \in Int /\ L * short <= entry * (L + gap)
  BY <1>2, DivBounds
<1> HIDE DEF long, short
<1>5. entry * gap = entry * Scale - entry * MmrRate * lev
  BY <1>1 DEF gap
<1>6. L <= entry * MmrRate * lev /\ 0 <= entry * MmrRate * lev /\ entry * MmrRate * lev \in Int
  <2>1. entry * MmrRate \in Nat
    BY <1>1
  <2>2. lev * Scale <= lev * (entry * MmrRate)
    BY <1>1, <2>1, MulMono
  <2> QED BY <1>1, <2>1, <2>2 DEF L
<1>7. /\ entry * (L - gap) = entry * L - entry * gap
      /\ entry * (L + gap) = entry * L + entry * gap
  BY <1>2
<1>8. /\ L * (entry - long) = entry * L - L * long
      /\ L * (short - entry) = L * short - entry * L
  BY <1>2, <1>4
<1>9. /\ entry * L \in Int /\ entry * gap \in Int /\ entry * Scale \in Int
      /\ L * long \in Int /\ L * short \in Int
  BY <1>1, <1>2, <1>4
<1>10. L * (entry - long) <= entry * Scale /\ L * (short - entry) <= entry * Scale
  <2> HIDE <1>1
  <2> QED BY <1>2, <1>4, <1>5, <1>6, <1>7, <1>8, <1>9
<1>11. /\ Scale * (lev * (entry - long)) <= Scale * entry
       /\ Scale * (lev * (short - entry)) <= Scale * entry
  <2>1. ASSUME NEW d \in Int PROVE L * d = Scale * (lev * d)
    BY <1>1 DEF L
  <2>2. L * (entry - long) = Scale * (lev * (entry - long))
    BY <1>4, <2>1
  <2>3. L * (short - entry) = Scale * (lev * (short - entry))
    BY <1>4, <2>1
  <2>4. entry * Scale = Scale * entry
    BY <1>1
  <2> QED BY <1>10, <2>2, <2>3, <2>4
<1>12. lev * (entry - long) \in Int /\ lev * (short - entry) \in Int
  BY <1>4
<1>13. lev * (entry - long) <= entry
  BY <1>1, <1>11, <1>12, MulCancel
<1>14. lev * (short - entry) <= entry
  BY <1>1, <1>11, <1>12, MulCancel
<1> QED BY <1>3, <1>4, <1>13, <1>14

\* A quantity that was bought with `size` loses at most the margin on such a move.
LEMMA LossWithinMargin ==
    ASSUME NEW size \in Nat, NEW entry \in Nat \ {0}, NEW lev \in Nat \ {0},
           NEW d \in Int, lev * d <= entry
    PROVE  Qty(size, entry) * d <= Margin(size, lev)
<1> DEFINE q == size \div entry
<1>1. q \in Int /\ entry * q <= size /\ size < entry * q + entry
  BY DivBounds
<1>2. q \in Nat
  OBVIOUS
<1> HIDE DEF q
<1>3. q * (lev * d) <= q * entry
  BY <1>2, MulMono
<1>4. q * (lev * d) = lev * (q * d) /\ q * entry = entry * q
  BY <1>2
<1>5. q * d \in Int /\ lev * (q * d) \in Int /\ entry * q \in Int
  BY <1>2
<1>6. lev * (q * d) <= size
  BY <1>1, <1>3, <1>4, <1>5
<1>7. q * d <= size \div lev
  BY <1>5, <1>6, DivMax
<1> QED BY <1>7 DEF q, Qty, Margin

\* Closed at the liquidation price, or at a stop on this side of it, a position
\* loses at most its margin on the price.
LEMMA GrossAboveMargin ==
    ASSUME NEW p \in Position, FinePrice(p.entry), NEW x \in Int,
           IF p.sig.side = "LONG" THEN PosLiq(p) <= x ELSE x <= PosLiq(p)
    PROVE  Gross(p, x) >= -PosMargin(p)
<1> DEFINE liq == PosLiq(p)
           q == PosQty(p)
           loss == IF p.sig.side = "LONG" THEN p.entry - x ELSE x - p.entry
           far == IF p.sig.side = "LONG" THEN p.entry - liq ELSE liq - p.entry
<1>1. /\ p.sig.size \in Nat /\ p.sig.lev \in Nat \ {0} /\ p.entry \in Nat \ {0}
      /\ p.sig.side \in Sides
  BY PositionFields, SignalFields
<1>2. liq = LiqPrice(p.entry, p.sig.side, p.sig.lev)
  BY DEF PosLiq
<1>3. liq \in Int /\ q \in Int /\ PosMargin(p) \in Int
  BY PositionMoney
<1>4. far \in Int /\ p.sig.lev * far <= p.entry
  BY <1>1, <1>2, LiqDistance DEF Sides
<1>5. loss \in Int /\ loss <= far
  BY <1>1, <1>3
<1>6. q \in Nat /\ q * far <= PosMargin(p)
  <2>1. q = Qty(p.sig.size, p.entry) /\ PosMargin(p) = Margin(p.sig.size, p.sig.lev)
    BY DEF PosQty, PosMargin
  <2>2. Qty(p.sig.size, p.entry) \in Nat
    BY <1>1 DEF Qty
  <2> HIDE DEF far, q
  <2> QED BY <1>1, <1>4, <2>1, <2>2, LossWithinMargin
<1> HIDE DEF far, liq, q
<1>7. q * loss <= q * far
  <2> HIDE DEF loss
  <2> QED BY <1>4, <1>5, <1>6, MulMono
<1>8. Gross(p, x) = -(q * loss)
  <2>1. CASE p.sig.side = "LONG"
    <3>1. Gross(p, x) = q * (x - p.entry)
      BY <2>1 DEF Gross, Pnl, q
    <3>2. q * (x - p.entry) = -(q * (p.entry - x))
      BY <1>1, <1>3
    <3> QED BY <2>1, <3>1, <3>2
  <2>2. CASE p.sig.side # "LONG"
    <3>1. Gross(p, x) = q * (p.entry - x)
      BY <2>2 DEF Gross, Pnl, q
    <3>2. q * (p.entry - x) = -(q * (x - p.entry))
      BY <1>1, <1>3
    <3> QED BY <2>2, <3>1, <3>2
  <2> QED BY <2>1, <2>2
<1>9. q * loss \in Int /\ q * far \in Int
  BY <1>4, <1>5, <1>6, MulType
<1> HIDE DEF loss
<1> QED BY <1>3, <1>6, <1>7, <1>8, <1>9

\* What IsolatedLoss needs to be inductive: entries and marks are fine as well.
FineInv ==
    /\ \A s \in Symbols : lastMark[s] # 0 => FinePrice(lastMark[s])
    /\ \A s \in Symbols : positions[s] # Null => FinePrice(positions[s].entry)
    /\ IsolatedLoss

\* A close by stop or liquidation keeps within the margin, one for any other
\* reason is not asked about.
LEMMA FineClose ==
    ASSUME Inv, FineInv, NEW t \in Tasks, NEW s \in Symbols, positions[s] # Null,
           NEW x \in Int, NEW r \in Reasons, Close(t, s, x, r),
           r \in {"liq", "sl"} => Gross(positions[s], x) >= -PosMargin(positions[s]),
           \A u \in Symbols : lastMark'[u] # 0 => FinePrice(lastMark'[u])
    PROVE  FineInv'
<1> DEFINE p == positions[s]
           k == [pos |-> p, exit |-> x, reason |-> r, net |-> Net(p, x)]
<1>1. p \in Position /\ call \in [Tasks -> Closing \cup {Null}]
      /\ positions \in [Symbols -> Position \cup {Null}]
  BY DEF Inv, TypeOK
<1>2. positions' = [positions EXCEPT ![s] = Null] /\ call' = [call EXCEPT ![t] = k]
  BY DEF Close, Popped
<1>3. r \in {"liq", "sl"} =>
          Net(p, x) >= -(PosMargin(p) + PosFee(p) + ExitFee(PosQty(p), x))
  <2>1. /\ PosMargin(p) \in Int /\ PosFee(p) \in Int
        /\ CloseFee(p, x) \in Int /\ Gross(p, x) \in Int
    BY <1>1, PositionMoney, CloseMoney
  <2>2. Net(p, x) = Gross(p, x) - PosFee(p) - CloseFee(p, x)
        /\ CloseFee(p, x) = ExitFee(PosQty(p), x)
    BY DEF Net, CloseFee
  <2> HIDE DEF p
  <2>3. r \in {"liq", "sl"} => Gross(p, x) >= -PosMargin(p)
    BY DEF p
  <2> QED BY <2>1, <2>2, <2>3
<1>4. k.pos = p /\ k.exit = x /\ k.reason = r /\ k.net = Net(p, x)
  OBVIOUS
<1> HIDE DEF k, p
<1>5. IsolatedLoss'
  <2> SUFFICES ASSUME NEW u \in Tasks, call'[u] # Null, call'[u].reason \in {"liq", "sl"}
               PROVE  call'[u].net >= -(PosMargin(call'[u].pos) + PosFee(call'[u].pos)
                                        + ExitFee(PosQty(call'[u].pos), call'[u].exit))
    BY DEF IsolatedLoss, PosMargin, PosFee, PosQty
  <2>1. CASE u = t
    BY <1>1, <1>2, <1>3, <1>4, <2>1
  <2>2. CASE u # t
    BY <1>1, <1>2, <2>2 DEF FineInv, IsolatedLoss
  <2> QED BY <2>1, <2>2
<1>6. \A u \in Symbols : positions'[u] # Null => FinePrice(positions'[u].entry)
  BY <1>1, <1>2 DEF FineInv
<1> QED BY <1>5, <1>6 DEF FineInv

\* The mark handler closes at the liquidation price, at a stop it has not passed, or
\* for another reason.
LEMMA FineMarkClose ==
    ASSUME Inv, FineInv, NEW s \in Symbols, NEW px \in Prices, MarkCloses(s, px),
           \A u \in Symbols : lastMark'[u] # 0 => FinePrice(lastMark'[u])
    PROVE  FineInv'
<1> DEFINE p == positions[s]
<1>1. p # Null /\ p \in Position /\ FinePrice(p.entry)
  BY DEF MarkCloses, Inv, TypeOK, FineInv
<1>2. px \in Int /\ PosLiq(p) \in Int /\ p.sig.sl \in Int /\ p.sig.tp \in Int
  BY <1>1, EngineAssumption, PositionMoney, PositionFields, SignalFields
<1>3. \/ Close("mrk", s, px, "max_hold")
      \/ Close("mrk", s, PosLiq(p), "liq")
      \/ /\ ~Below(p, px, PosLiq(p)) /\ Below(p, px, p.sig.sl)
         /\ Close("mrk", s, p.sig.sl, "sl")
      \/ Close("mrk", s, p.sig.tp, "tp")
  BY DEF MarkCloses
<1>4. {"max_hold", "liq", "sl", "tp"} \subseteq Reasons /\ "mrk" \in Tasks
  BY DEF Reasons, Tasks
<1>5. Gross(p, PosLiq(p)) >= -PosMargin(p)
  BY <1>1, <1>2, GrossAboveMargin
<1>6. ASSUME ~Below(p, px, PosLiq(p)), Below(p, px, p.sig.sl)
      PROVE  Gross(p, p.sig.sl) >= -PosMargin(p)
  <2>1. IF p.sig.side = "LONG" THEN PosLiq(p) <= p.sig.sl ELSE p.sig.sl <= PosLiq(p)
    BY <1>2, <1>6 DEF Below
  <2> HIDE DEF p
  <2> QED BY <1>1, <1>2, <2>1, GrossAboveMargin
<1>7. positions[s] # Null
  BY <1>1
<1>8. \E x \in Int, r \in Reasons :
         Close("mrk", s, x, r) /\ (r \in {"liq", "sl"} => Gross(p, x) >= -PosMargin(p))
  BY <1>2, <1>3, <1>4, <1>5, <1>6
<1> QED BY <1>4, <1>7, <1>8, FineClose

\* The fill price is that of the signal, a mark, or the middle of two fine prices.
LEMMA FineEntry ==
    ASSUME Inv, FineInv, FineUnit, NEW c \in Cids, NEW g \in Signals, Fill(c, g)
    PROVE  FinePrice(EntryPrice(g))
<1>1. /\ g.sym \in Symbols /\ g.sl \in Int /\ g.tp \in Int
      /\ g.entry \in Int \cup {Null} /\ lastMark[g.sym] \in Nat
  BY SignalFields DEF Inv, TypeOK
<1>2. EntryPrice(g) > 0 /\ g.sl > 0 /\ g.tp > 0
  BY DEF Fill, Computes, Refused, GuardAllows, Fits
<1>3. CASE g.entry # Null
  BY <1>2, <1>3 DEF EntryPrice, FineUnit
<1>4. CASE g.entry = Null /\ lastMark[g.sym] # 0
  BY <1>1, <1>4 DEF EntryPrice, FineInv
<1>5. CASE g.entry = Null /\ lastMark[g.sym] = 0
  <2> DEFINE low == IF g.sl <= g.tp THEN g.sl ELSE g.tp
             mid == (g.sl + g.tp) \div 2
  <2>1. EntryPrice(g) = mid
    BY <1>5 DEF EntryPrice
  <2>2. mid \in Int /\ low \in Int /\ low <= mid
    BY <1>1
  <2>3. FinePrice(low)
    BY <1>2 DEF FineUnit
  <2> HIDE DEF low, mid
  <2>4. MmrRate \in Nat /\ Scale \in Int
    BY RateAssumption
  <2>5. low * MmrRate <= mid * MmrRate
    <3>1. MmrRate * low <= MmrRate * mid
      BY <2>2, <2>4, MulMono
    <3>2. low * MmrRate = MmrRate * low /\ mid * MmrRate = MmrRate * mid
      BY <2>2, <2>4
    <3> QED BY <3>1, <3>2
  <2>6. low * MmrRate \in Int /\ mid * MmrRate \in Int
    BY <2>2, <2>4
  <2>7. FinePrice(mid)
    BY <2>3, <2>4, <2>5, <2>6 DEF FinePrice
  <2> QED BY <2>1, <2>7
<1> QED BY <1>3, <1>4, <1>5

LEMMA FineDecide ==
    ASSUME Inv, FineInv, FineUnit, NEW c \in Cids, NEW g \in Signals, Decide(c, g)
    PROVE  FineInv'
<1>1. UNCHANGED <<lastMark, call>>
  BY DEF Decide
<1>2. CASE Veto(c, g) \/ FillRaises(c, g)
  BY <1>1, <1>2 DEF Veto, FillRaises, FineInv, IsolatedLoss
<1>3. CASE Fill(c, g)
  <2>1. FinePrice(EntryPrice(g)) /\ FilledPosition(c, g).entry = EntryPrice(g)
    BY <1>3, FineEntry DEF FilledPosition
  <2>2. positions' = [positions EXCEPT ![g.sym] = FilledPosition(c, g)]
    BY <1>3 DEF Fill, FilledPosition
  <2> HIDE DEF FilledPosition
  <2>3. \A s \in Symbols : positions'[s] # Null => FinePrice(positions'[s].entry)
    BY <2>1, <2>2 DEF Inv, TypeOK, FineInv
  <2> QED BY <1>1, <2>3 DEF FineInv, IsolatedLoss
<1> QED BY <1>2, <1>3 DEF Decide

LEMMA FineStep ==
    ASSUME Inv, FineInv, FineUnit, [Next]_vars
    PROVE  FineInv'
<1>1. ASSUME UNCHANGED <<positions, lastMark, call>> PROVE FineInv'
  BY <1>1 DEF FineInv, IsolatedLoss
<1>2. CASE UNCHANGED vars
  BY <1>1, <1>2 DEF vars, engineVars
<1>3. ASSUME NEW t \in Tasks, Deliver(t) PROVE FineInv'
  BY <1>1, <1>3 DEF Deliver
<1>4. ASSUME NEW t \in Tasks, CountClose(t) \/ FinishTrip(t) PROVE FineInv'
  <2>1. UNCHANGED <<positions, lastMark>>
    BY <1>4 DEF CountClose, FinishTrip
  <2>2. call' = call \/ call' = [call EXCEPT ![t] = Null]
    BY <1>4 DEF CountClose, FinishTrip, AnnounceClose
  <2>3. IsolatedLoss'
    BY <2>2 DEF FineInv, IsolatedLoss, Inv, TypeOK
  <2> QED BY <2>1, <2>3 DEF FineInv
<1>5. ASSUME NEW g \in Signals, TakeSignal(g) PROVE FineInv'
  <2>1. sent + 1 \in Cids /\ g.sym \in Symbols
    BY <1>5, NextCid, SignalFields DEF TakeSignal, Inv
  <2>2. CASE SkipDuplicate(sent + 1, g)
    BY <1>1, <2>2 DEF SkipDuplicate, engineVars
  <2>3. CASE Flip(sent + 1, g)
    <3> DEFINE x == IF lastMark[g.sym] # 0 THEN lastMark[g.sym] ELSE positions[g.sym].entry
    <3>1. Close("sig", g.sym, x, "direction_flip") /\ positions[g.sym] # Null
          /\ lastMark' = lastMark
      BY <2>3 DEF Flip
    <3>2. x \in Int /\ "direction_flip" \in Reasons /\ "sig" \in Tasks
      BY <2>1, <3>1, FlipExitType DEF Reasons, Tasks, Inv
    <3> HIDE DEF x
    <3>3. \A u \in Symbols : lastMark'[u] # 0 => FinePrice(lastMark'[u])
      BY <3>1 DEF FineInv
    <3> QED BY <2>1, <3>1, <3>2, <3>3, FineClose
  <2>4. CASE Decide(sent + 1, g)
    BY <2>1, <2>4, FineDecide
  <2> QED BY <1>5, <2>2, <2>3, <2>4 DEF TakeSignal
<1>6. CASE DecideAfterFlip
  <2>1. cur # Null /\ cur \in [cid : Cids, sig : Signals]
    BY <1>6 DEF HandlerLocals, DecideAfterFlip, At, TypeOK, Inv
  <2>2. cur.cid \in Cids /\ cur.sig \in Signals /\ Decide(cur.cid, cur.sig)
    BY <1>6, <2>1 DEF DecideAfterFlip
  <2> QED BY <2>2, FineDecide
<1>7. CASE ReportFill
  BY <1>1, <1>7 DEF ReportFill
<1>8. ASSUME NEW s \in SymbolList, NEW px \in Prices, TakeMark(s, px)
      PROVE  FineInv'
  <2>1. s \in Symbols /\ lastMark' = [lastMark EXCEPT ![s] = px] /\ FinePrice(px)
    BY <1>8, EngineAssumption DEF TakeMark, FineUnit
  <2>2. \A u \in Symbols : lastMark'[u] # 0 => FinePrice(lastMark'[u])
    BY <2>1 DEF FineInv, Inv, TypeOK
  <2>3. CASE MarkUntracked(s)
    BY <2>2, <2>3 DEF MarkUntracked, FineInv, IsolatedLoss
  <2>4. CASE MarkCloses(s, px)
    BY <2>1, <2>2, <2>4, FineMarkClose
  <2>5. CASE MarkMoves(s, px)
    <3>1. positions[s] # Null /\ positions[s] \in Position
          /\ positions' = [positions EXCEPT ![s] = [positions[s] EXCEPT !.mark = px]]
          /\ call' = call
      BY <2>1, <2>5 DEF MarkMoves, Inv, TypeOK
    <3>2. [positions[s] EXCEPT !.mark = px].entry = positions[s].entry
      BY <3>1 DEF Position
    <3>3. \A u \in Symbols : positions'[u] # Null => FinePrice(positions'[u].entry)
      BY <3>1, <3>2 DEF FineInv, Inv, TypeOK
    <3> QED BY <2>2, <3>1, <3>3 DEF FineInv, IsolatedLoss
  <2> QED BY <1>8, <2>3, <2>4, <2>5 DEF TakeMark
<1>9. ASSUME NEW s \in Symbols, Age(s) PROVE FineInv'
  <2>1. positions[s] # Null /\ positions[s] \in Position
        /\ positions' = [positions EXCEPT ![s] = [positions[s] EXCEPT !.old = TRUE]]
        /\ UNCHANGED <<lastMark, call>>
    BY <1>9 DEF Age, Inv, TypeOK
  <2>2. [positions[s] EXCEPT !.old = TRUE].entry = positions[s].entry
    BY <2>1 DEF Position
  <2>3. \A u \in Symbols : positions'[u] # Null => FinePrice(positions'[u].entry)
    BY <2>1, <2>2 DEF FineInv, Inv, TypeOK
  <2> QED BY <2>1, <2>3 DEF FineInv, IsolatedLoss
<1>10. CASE ResetBreakers \/ Kill
  BY <1>1, <1>10 DEF ResetBreakers, Kill
<1>11. CASE Restart
  BY <1>11 DEF Restart, NoPositions, NoMarks, FineInv, IsolatedLoss
<1> QED BY <1>2, <1>3, <1>4, <1>5, <1>6, <1>7, <1>8, <1>9, <1>10, <1>11 DEF Next

\* Isolated margin (_process_mark looks at the liquidation price before the stop): a
\* close by liquidation or stop loses at most the margin and the fees, for every
\* leverage, size, rate and feed of prices, and whatever the two coroutines interleave.
THEOREM IsolatedLossHolds ==
    ASSUME FineUnit
    PROVE  Spec => []IsolatedLoss
<1>1. Init => FineInv
  BY DEF Init, NoPositions, NoMarks, FineInv, IsolatedLoss
<1>2. Inv /\ FineInv /\ [Next]_vars => FineInv'
  BY FineUnit, FineStep
<1>3. FineInv => IsolatedLoss
  BY DEF FineInv
<1> QED BY <1>1, <1>2, <1>3, InvHolds, PTL DEF Spec
=============================================================================
