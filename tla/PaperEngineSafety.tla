-------------------------- MODULE PaperEngineSafety --------------------------
(***************************************************************************)
(* The safety properties of PaperEngine, from the types and handler locals *)
(* of PaperEngineProofs.  A position can only appear in a Fill step, and a *)
(* Fill is one segment with the checks that precede it: StepOpens says so  *)
(* once, and the cap and the breaker theorems rest on it.                  *)
(***************************************************************************)
EXTENDS PaperEngineProofs

\* A step in which account.open runs.
FillStep ==
    \E c \in Cids, g \in Signals :
        /\ Fill(c, g)
        /\ positions[g.sym] = Null
        /\ up /\ pc["sig"] \in {"loop", "flip"}
        /\ UNCHANGED <<daily, maxDD, realised, sinceReset, call>>

\* A step that is not a fill opens nothing.
LEMMA DecideOpens ==
    ASSUME Inv, NEW c \in Cids, NEW g \in Signals, Decide(c, g),
           positions[g.sym] = Null, up, pc["sig"] \in {"loop", "flip"}
    PROVE  FillStep \/ positions' = positions
<1>1. CASE Veto(c, g)
  BY <1>1 DEF Veto
<1>2. CASE FillRaises(c, g)
  BY <1>2 DEF FillRaises
<1>3. CASE Fill(c, g)
  <2>1. UNCHANGED <<daily, maxDD, realised, sinceReset, call>>
    BY DEF Decide
  <2> QED BY <1>3, <2>1 DEF FillStep
<1> QED BY <1>1, <1>2, <1>3 DEF Decide

LEMMA StepOpens ==
    ASSUME Inv, [Next]_vars
    PROVE  FillStep \/ OpenSymbols' \subseteq OpenSymbols
<1> USE DEF Inv
<1>1. ASSUME positions' = positions PROVE OpenSymbols' \subseteq OpenSymbols
  BY <1>1 DEF OpenSymbols
<1>2. ASSUME NEW s \in Symbols, positions' = [positions EXCEPT ![s] = Null]
      PROVE  OpenSymbols' \subseteq OpenSymbols
  BY <1>2 DEF OpenSymbols, TypeOK
<1>3. CASE UNCHANGED vars
  BY <1>1, <1>3 DEF vars, engineVars
<1>4. ASSUME NEW t \in Tasks, Deliver(t) \/ CountClose(t) \/ FinishTrip(t)
      PROVE  OpenSymbols' \subseteq OpenSymbols
  BY <1>1, <1>4 DEF Deliver, CountClose, FinishTrip
<1>5. ASSUME NEW g \in Signals, TakeSignal(g)
      PROVE  FillStep \/ OpenSymbols' \subseteq OpenSymbols
  <2>1. sent + 1 \in Cids /\ up /\ pc["sig"] = "loop" /\ g.sym \in Symbols
    BY <1>5, NextCid, SignalFields DEF TakeSignal, At
  <2>2. CASE SkipDuplicate(sent + 1, g)
    BY <1>1, <2>2 DEF SkipDuplicate, engineVars
  <2>3. CASE Flip(sent + 1, g)
    <3>1. positions' = [positions EXCEPT ![g.sym] = Null]
      BY <2>3 DEF Flip, Close, Popped
    <3> QED BY <1>2, <2>1, <3>1
  <2>4. CASE positions[g.sym] = Null /\ Decide(sent + 1, g)
    BY <1>1, <2>1, <2>4, DecideOpens
  <2> QED BY <1>5, <2>2, <2>3, <2>4 DEF TakeSignal
<1>6. CASE DecideAfterFlip
  <2>1. cur # Null /\ cur \in [cid : Cids, sig : Signals]
        /\ positions[cur.sig.sym] = Null /\ up /\ pc["sig"] = "flip"
    BY <1>6 DEF HandlerLocals, DecideAfterFlip, At, TypeOK
  <2>2. cur.cid \in Cids /\ cur.sig \in Signals /\ Decide(cur.cid, cur.sig)
    BY <1>6, <2>1 DEF DecideAfterFlip
  <2> QED BY <1>1, <2>1, <2>2, DecideOpens
<1>7. CASE ReportFill
  BY <1>1, <1>7 DEF ReportFill
<1>8. ASSUME NEW s \in SymbolList, NEW px \in Prices, TakeMark(s, px)
      PROVE  OpenSymbols' \subseteq OpenSymbols
  <2>1. s \in Symbols
    BY EngineAssumption
  <2>2. CASE MarkUntracked(s)
    BY <1>1, <2>2 DEF MarkUntracked
  <2>3. CASE MarkCloses(s, px)
    <3>1. positions' = [positions EXCEPT ![s] = Null]
      BY <2>1, <2>3, MarkClosesAt DEF Close, Popped
    <3> QED BY <1>2, <2>1, <3>1
  <2>4. CASE MarkMoves(s, px)
    BY <2>1, <2>4 DEF MarkMoves, OpenSymbols, TypeOK
  <2> QED BY <1>8, <2>2, <2>3, <2>4 DEF TakeMark
<1>9. ASSUME NEW s \in Symbols, Age(s) PROVE OpenSymbols' \subseteq OpenSymbols
  BY <1>9 DEF Age, OpenSymbols, TypeOK
<1>10. CASE ResetBreakers \/ Kill
  BY <1>1, <1>10 DEF ResetBreakers, Kill
<1>11. CASE Restart
  BY <1>11 DEF Restart, NoPositions, OpenSymbols
<1> QED BY <1>3, <1>4, <1>5, <1>6, <1>7, <1>8, <1>9, <1>10, <1>11 DEF Next

-----------------------------------------------------------------------------
(* The position cap.                                                       *)

LEMMA OpenFinite ==
    /\ IsFiniteSet(OpenSymbols) /\ Cardinality(OpenSymbols) \in Nat
    /\ IsFiniteSet(OpenSymbols)' /\ Cardinality(OpenSymbols)' \in Nat
<1>1. OpenSymbols \in SUBSET Symbols /\ OpenSymbols' \in SUBSET Symbols
  BY DEF OpenSymbols
<1> QED BY <1>1, EngineAssumption, FS_Subset, FS_CardinalityType

LEMMA FillOpens ==
    ASSUME Inv, NEW c \in Cids, NEW g \in Signals, Fill(c, g)
    PROVE  OpenSymbols' \subseteq OpenSymbols \cup {g.sym}
<1>1. positions' = [positions EXCEPT ![g.sym] = FilledPosition(c, g)]
  BY DEF Fill, FilledPosition
<1> HIDE DEF FilledPosition
<1> QED BY <1>1, SignalFields DEF Inv, TypeOK, OpenSymbols

\* max_concurrent_positions bounds the account in every state: no interleaving of the
\* two coroutines gets past the check of SignalGuard.
THEOREM PositionCapHolds == Spec => []PositionCap
<1>1. Init => PositionCap
  BY EngineAssumption, FS_EmptySet DEF Init, PositionCap, OpenSymbols, NoPositions
<1>2. ASSUME Inv, PositionCap, [Next]_vars PROVE PositionCap'
  <2>1. CASE OpenSymbols' \subseteq OpenSymbols
    <3>1. Cardinality(OpenSymbols') <= Cardinality(OpenSymbols)
      BY <2>1, OpenFinite, FS_Subset
    <3> QED BY <3>1, <1>2, OpenFinite, EngineAssumption DEF PositionCap
  <2>2. CASE FillStep
    <3>1. PICK c \in Cids, g \in Signals : Fill(c, g)
      BY <2>2 DEF FillStep
    <3>2. Cardinality(OpenSymbols) < MaxPositions
      BY <3>1 DEF Fill, Refused, GuardAllows
    <3>3. OpenSymbols' \in SUBSET (OpenSymbols \cup {g.sym})
      BY <1>2, <3>1, FillOpens
    <3>4. /\ IsFiniteSet(OpenSymbols \cup {g.sym})
          /\ Cardinality(OpenSymbols \cup {g.sym}) <= Cardinality(OpenSymbols) + 1
      BY OpenFinite, FS_AddElement
    <3>5. /\ Cardinality(OpenSymbols') <= Cardinality(OpenSymbols \cup {g.sym})
          /\ Cardinality(OpenSymbols \cup {g.sym}) \in Nat
      BY <3>3, <3>4, FS_Subset, FS_CardinalityType
    <3> QED BY <3>2, <3>4, <3>5, OpenFinite, EngineAssumption DEF PositionCap
  <2> QED BY <1>2, <2>1, <2>2, StepOpens
<1> QED BY <1>1, <1>2, InvHolds, PTL DEF Spec

-----------------------------------------------------------------------------
(* The daily-loss breaker.                                                 *)

\* The steps that leave everything the breaker and its history depend on alone.
BooksUntouched ==
    /\ UNCHANGED <<daily, sinceReset>>
    /\ UNCHANGED <<Pending("sig"), Pending("mrk")>>

LEMMA BooksUntouchedKeeps ==
    ASSUME Inv, EveryCloseCounted, BooksUntouched, up' => up
    PROVE  EveryCloseCounted'
BY DEF BooksUntouched, EveryCloseCounted

\* A close that starts adds the same amount to the history and to what is pending.
LEMMA ClosePending ==
    ASSUME Inv, NEW t \in Tasks, NEW s \in Symbols, positions[s] # Null,
           NEW x \in Int, NEW r \in Reasons, pc[t] = "loop", Close(t, s, x, r)
    PROVE  /\ sinceReset' - Pending("sig")' - Pending("mrk")'
              = sinceReset - Pending("sig") - Pending("mrk")
           /\ Pending("sig")' \in Int /\ Pending("mrk")' \in Int
<1> DEFINE p == positions[s]
           net == Net(p, x)
<1>1. p \in Position
  BY DEF Inv, TypeOK
<1>2. net \in Int
  BY <1>1, CloseMoney
<1>3. sinceReset' = sinceReset + net /\ pc' = [pc EXCEPT ![t] = "close"]
      /\ call' = [call EXCEPT ![t] =
                    [pos |-> p, exit |-> x, reason |-> r, net |-> net]]
  BY DEF Close, Goto
<1> HIDE DEF net, p
<1>4. Pending(t) = 0 /\ Pending(t)' = net
  BY <1>3 DEF Pending, Inv, TypeOK
<1>5. \A u \in Tasks \ {t} : Pending(u)' = Pending(u) /\ Pending(u) \in Int
  BY <1>3, PendingType DEF Pending, Inv, TypeOK
<1>6. sinceReset \in Int
  BY DEF Inv, TypeOK
<1> QED BY <1>2, <1>3, <1>4, <1>5, <1>6 DEF Tasks

LEMMA CountStep ==
    ASSUME Inv, EveryCloseCounted, NEW t \in Tasks, CountClose(t)
    PROVE  EveryCloseCounted'
<1>1. daily.cum \in Int /\ call[t].net \in Int /\ call[t] # Null /\ pc[t] = "close" /\ up
  BY DEF CountClose, At, Inv, HandlerLocals, TypeOK, Closing
<1>2. daily'.cum = daily.cum + call[t].net /\ sinceReset' = sinceReset
  BY DEF CountClose, UpdatePnl, historyVars
<1>3. ASSUME up'
      PROVE  pc'[t] # "close"
             /\ \A u \in Tasks \ {t} : pc'[u] = pc[u] /\ call'[u] = call[u]
  <2>1. CASE daily'.tripped
    BY <2>1 DEF CountClose, Goto, Inv, TypeOK
  <2>2. CASE ~daily'.tripped
    <3>1. AnnounceClose(t)
      BY <2>2 DEF CountClose
    <3>2. pc' = [pc EXCEPT ![t] = IF t = "sig" THEN "flip" ELSE "loop"]
          /\ call' = [call EXCEPT ![t] = Null]
      BY <1>1, <1>3, <3>1, AnnounceTypes DEF Inv
    <3> QED BY <3>2 DEF Inv, TypeOK
  <2> QED BY <2>1, <2>2
<1>4. ASSUME up'
      PROVE  /\ Pending(t) = call[t].net /\ Pending(t)' = 0
             /\ \A u \in Tasks \ {t} : Pending(u)' = Pending(u) /\ Pending(u) \in Int
  BY <1>1, <1>3, <1>4, PendingType DEF Pending
<1>5. sinceReset \in Int
  BY DEF Inv, TypeOK
<1> QED BY <1>1, <1>2, <1>4, <1>5 DEF EveryCloseCounted, Tasks

LEMMA EveryCloseCountedStep ==
    ASSUME Inv, EveryCloseCounted, [Next]_vars
    PROVE  EveryCloseCounted'
<1> USE DEF Inv
<1>0. ASSUME UNCHANGED <<daily, sinceReset, pc, call>>, up' => up
      PROVE  EveryCloseCounted'
  BY <1>0, BooksUntouchedKeeps DEF BooksUntouched, Pending
<1>1. CASE UNCHANGED vars
  BY <1>0, <1>1 DEF vars, engineVars, historyVars
<1>2. ASSUME NEW t \in Tasks, Deliver(t) PROVE EveryCloseCounted'
  BY <1>0, <1>2 DEF Deliver, historyVars
<1>3. ASSUME NEW t \in Tasks, CountClose(t) PROVE EveryCloseCounted'
  BY <1>3, CountStep
<1>4. ASSUME NEW t \in Tasks, FinishTrip(t) PROVE EveryCloseCounted'
  <2>1. pc[t] = "trip" /\ call[t] # Null /\ AnnounceClose(t) /\ up
        /\ UNCHANGED <<daily, sinceReset>>
    BY <1>4 DEF FinishTrip, At, HandlerLocals, historyVars
  <2>2. \A u \in Tasks : Pending(u)' = Pending(u)
    <3>1. \/ pc' = pc /\ call' = call
          \/ \E l \in {"flip", "loop"} :
                pc' = [pc EXCEPT ![t] = l] /\ call' = [call EXCEPT ![t] = Null]
      BY <2>1 DEF AnnounceClose, AfterClose, Goto
    <3>2. pc \in [Tasks -> {"loop", "close", "trip", "flip", "fill"}]
          /\ call \in [Tasks -> Closing \cup {Null}]
      BY DEF TypeOK
    <3> QED BY <2>1, <3>1, <3>2 DEF Pending
  <2> QED BY <2>1, <2>2, BooksUntouchedKeeps DEF BooksUntouched, Tasks
<1>5. ASSUME NEW c \in Cids, NEW g \in Signals, Decide(c, g),
             pc["sig"] \in {"loop", "flip"}, up
      PROVE  EveryCloseCounted'
  <2>1. UNCHANGED <<daily, sinceReset, call>>
        /\ \/ pc' = pc \/ pc' = [pc EXCEPT !["sig"] = "loop"]
           \/ pc' = [pc EXCEPT !["sig"] = "fill"]
    BY <1>5 DEF Decide, Veto, FillRaises, Fill, Goto
  <2>2. Pending("sig")' = Pending("sig") /\ Pending("mrk")' = Pending("mrk")
    BY <1>5, <2>1 DEF Pending, TypeOK, Tasks
  <2> QED BY <1>5, <2>1, <2>2, BooksUntouchedKeeps DEF BooksUntouched
<1>6. ASSUME NEW g \in Signals, TakeSignal(g) PROVE EveryCloseCounted'
  <2>1. sent + 1 \in Cids /\ up /\ pc["sig"] = "loop" /\ g.sym \in Symbols
    BY <1>6, NextCid, SignalFields DEF TakeSignal, At
  <2>2. CASE SkipDuplicate(sent + 1, g)
    BY <1>0, <2>2 DEF SkipDuplicate, engineVars
  <2>3. CASE Flip(sent + 1, g)
    <3> DEFINE x == IF lastMark[g.sym] # 0 THEN lastMark[g.sym] ELSE positions[g.sym].entry
    <3>1. Close("sig", g.sym, x, "direction_flip") /\ positions[g.sym] # Null
          /\ daily' = daily /\ up' = up
      BY <2>3 DEF Flip
    <3>2. x \in Int /\ "direction_flip" \in Reasons /\ "sig" \in Tasks
      BY <2>1, <3>1, FlipExitType DEF Reasons, Tasks
    <3> HIDE DEF x
    <3>3. /\ sinceReset' - Pending("sig")' - Pending("mrk")'
              = sinceReset - Pending("sig") - Pending("mrk")
          /\ Pending("sig")' \in Int /\ Pending("mrk")' \in Int
          /\ sinceReset' \in Int
      BY <2>1, <3>1, <3>2, ClosePending, CloseTypes
    <3> QED BY <2>1, <3>1, <3>3, PendingType DEF EveryCloseCounted, TypeOK, Tasks
  <2>4. CASE Decide(sent + 1, g)
    BY <1>5, <2>1, <2>4
  <2> QED BY <1>6, <2>2, <2>3, <2>4 DEF TakeSignal
<1>7. CASE DecideAfterFlip
  <2>1. cur \in [cid : Cids, sig : Signals] /\ up /\ pc["sig"] = "flip"
    BY <1>7 DEF HandlerLocals, DecideAfterFlip, At, TypeOK
  <2> QED BY <1>5, <1>7, <2>1 DEF DecideAfterFlip
<1>8. CASE ReportFill
  <2>1. pc["sig"] = "fill" /\ pc' = [pc EXCEPT !["sig"] = "loop"]
        /\ UNCHANGED <<daily, sinceReset, call, up>>
    BY <1>8 DEF ReportFill, At, Goto, historyVars
  <2>2. Pending("sig")' = Pending("sig") /\ Pending("mrk")' = Pending("mrk")
    BY <2>1 DEF Pending, TypeOK, Tasks
  <2> QED BY <2>1, <2>2, BooksUntouchedKeeps DEF BooksUntouched
<1>9. ASSUME NEW s \in SymbolList, NEW px \in Prices, TakeMark(s, px)
      PROVE  EveryCloseCounted'
  <2>1. s \in Symbols /\ pc["mrk"] = "loop" /\ up /\ UNCHANGED <<up, daily>>
    BY <1>9, EngineAssumption DEF TakeMark, At
  <2>2. CASE MarkUntracked(s) \/ MarkMoves(s, px)
    BY <1>0, <2>1, <2>2 DEF MarkUntracked, MarkMoves
  <2>3. CASE MarkCloses(s, px)
    <3>1. PICK x \in Int, r \in Reasons : Close("mrk", s, x, r)
      BY <2>1, <2>3, MarkClosesAt
    <3>2. positions[s] # Null /\ "mrk" \in Tasks
      BY <2>3 DEF MarkCloses, Tasks
    <3>3. /\ sinceReset' - Pending("sig")' - Pending("mrk")'
              = sinceReset - Pending("sig") - Pending("mrk")
          /\ Pending("sig")' \in Int /\ Pending("mrk")' \in Int
          /\ sinceReset' \in Int
      BY <2>1, <3>1, <3>2, ClosePending, CloseTypes
    <3> QED BY <2>1, <3>3, PendingType DEF EveryCloseCounted, TypeOK, Tasks
  <2> QED BY <1>9, <2>2, <2>3 DEF TakeMark
<1>10. ASSUME NEW s \in Symbols, Age(s) PROVE EveryCloseCounted'
  BY <1>0, <1>10 DEF Age, historyVars
<1>11. CASE ResetBreakers
  <2>1. daily'.cum = 0 /\ sinceReset' = Pending("sig") + Pending("mrk")
        /\ UNCHANGED <<pc, call>>
    BY <1>11 DEF ResetBreakers, FreshDaily
  <2> QED BY <2>1, PendingType DEF EveryCloseCounted, Pending, Tasks
<1>12. CASE Kill
  BY <1>0, <1>12 DEF Kill, historyVars
<1>13. CASE Restart
  BY <1>13 DEF Restart, EveryCloseCounted, Pending, FreshDaily, Tasks
<1> QED BY <1>1, <1>2, <1>3, <1>4, <1>6, <1>7, <1>8, <1>9, <1>10, <1>11, <1>12, <1>13
        DEF Next

\* The breaker's running total misses no close and counts none twice: it differs from
\* the net PnL of all closes by exactly those still awaiting their publish.
THEOREM EveryCloseCountedHolds == Spec => []EveryCloseCounted
<1>1. Init => EveryCloseCounted
  BY DEF Init, EveryCloseCounted, Pending, FreshDaily, Tasks
<1>2. Inv /\ EveryCloseCounted /\ [Next]_vars => EveryCloseCounted'
  BY EveryCloseCountedStep
<1> QED BY <1>1, <1>2, InvHolds, PTL DEF Spec

\* A counted total past the limit has tripped the breaker.
CountedLossTrips == LossTrips(daily.cum) => daily.tripped

LEMMA NoLossNoTrip == ~LossTrips(0)
<1>1. StartingBalance \in Nat \ {0} /\ LossRate \in Nat \ {0} /\ Scale \in Int
  BY EngineAssumption, RateAssumption
<1>2. StartingBalance * LossRate \in Int /\ StartingBalance * LossRate > 0
  BY <1>1
<1>3. 0 * Scale = 0
  BY <1>1
<1> HIDE <1>1
<1>4. ~(0 * Scale <= -(StartingBalance * LossRate))
  BY <1>2, <1>3
<1> QED BY <1>4 DEF LossTrips

LEMMA CountedLossTripsStep ==
    ASSUME Inv, CountedLossTrips, [Next]_vars
    PROVE  CountedLossTrips'
<1>1. CASE daily' = daily
  BY <1>1 DEF CountedLossTrips
<1>2. CASE daily' = FreshDaily
  BY <1>2, NoLossNoTrip DEF CountedLossTrips, FreshDaily
<1>3. ASSUME NEW t \in Tasks, CountClose(t) PROVE CountedLossTrips'
  BY <1>3 DEF CountClose, UpdatePnl, CountedLossTrips
<1>4. \/ daily' = daily \/ daily' = FreshDaily
      \/ \E t \in Tasks : CountClose(t)
  BY DEF Next, vars, engineVars, Deliver, FinishTrip, TakeSignal, SkipDuplicate,
         Flip, Decide, DecideAfterFlip, ReportFill, TakeMark, Age, ResetBreakers,
         Kill, Restart
<1> QED BY <1>1, <1>2, <1>3, <1>4

LEMMA CountedLossTripsHolds == Spec => []CountedLossTrips
<1>1. Init => CountedLossTrips
  BY NoLossNoTrip DEF Init, CountedLossTrips, FreshDaily
<1>2. Inv /\ CountedLossTrips /\ [Next]_vars => CountedLossTrips'
  BY CountedLossTripsStep
<1> QED BY <1>1, <1>2, InvHolds, PTL DEF Spec

\* Between closes, a loss past the limit has tripped the breaker.
THEOREM LossTripsBreakerHolds == Spec => []LossTripsBreaker
<1>1. Inv /\ EveryCloseCounted /\ CountedLossTrips => LossTripsBreaker
  BY DEF Inv, TypeOK, EveryCloseCounted, CountedLossTrips, LossTripsBreaker,
         Pending, Tasks
<1> QED BY <1>1, InvHolds, EveryCloseCountedHolds, CountedLossTripsHolds, PTL

\* A fill past the limit can only slip into the one await of the mark coroutine that
\* lies between account.close and the breaker update.
THEOREM FillPastLimitHolds == Spec => FillPastLimitOnlyMidClose
<1>1. ASSUME Inv, EveryCloseCounted, CountedLossTrips, [Next]_vars,
             LossTrips(sinceReset), ~(OpenSymbols' \subseteq OpenSymbols)
      PROVE  pc["mrk"] = "close"
  <2>1. FillStep
    BY <1>1, StepOpens
  <2>2. up /\ pc["sig"] \in {"loop", "flip"} /\ ~daily.tripped
    BY <2>1 DEF FillStep, Fill, Refused, Tripped
  <2>3. sinceReset # daily.cum
    BY <1>1, <2>2 DEF CountedLossTrips
  <2>4. Pending("sig") = 0
    BY <2>2 DEF Pending
  <2>5. Pending("mrk") # 0
    BY <1>1, <2>2, <2>3, <2>4 DEF EveryCloseCounted, Inv, TypeOK
  <2> QED BY <2>5 DEF Pending
<1>2. Inv /\ EveryCloseCounted /\ CountedLossTrips /\ [Next]_vars
        => [(LossTrips(sinceReset) /\ ~(OpenSymbols' \subseteq OpenSymbols))
               => pc["mrk"] = "close"]_vars
  BY <1>1
<1> QED BY <1>2, InvHolds, EveryCloseCountedHolds, CountedLossTripsHolds, PTL
        DEF Spec, FillPastLimitOnlyMidClose

\* While a breaker stays tripped the set of open positions only shrinks.
THEOREM NoFillWhileTrippedHolds == Spec => NoFillWhileTripped
<1>1. ASSUME Inv, [Next]_vars, Tripped
      PROVE  OpenSymbols' \subseteq OpenSymbols
  BY <1>1, StepOpens DEF FillStep, Fill, Refused
<1>2. Inv /\ [Next]_vars
        => [(up /\ up' /\ Tripped /\ Tripped') => OpenSymbols' \subseteq OpenSymbols]_vars
  BY <1>1
<1> QED BY <1>2, InvHolds, PTL DEF Spec, NoFillWhileTripped

-----------------------------------------------------------------------------
(* Signals.                                                                *)

\* A coroutine that ends its part of a close leaves the signal in hand.
LEMMA AnnounceKeeps ==
    ASSUME Inv, NoSignalDropped, NEW t \in Tasks, pc[t] \in {"close", "trip"}, AnnounceClose(t),
           UNCHANGED <<status, cur>>, up
    PROVE  NoSignalDropped'
<1>1. call[t] # Null
  BY DEF Inv, HandlerLocals
<1>2. CASE up' = FALSE
  BY <1>2 DEF NoSignalDropped
<1>3. CASE pc' = [pc EXCEPT ![t] = IF t = "sig" THEN "flip" ELSE "loop"]
  <2>1. pc'["sig"] \in {pc["sig"], "flip"}
    BY <1>3 DEF Inv, TypeOK, Tasks
  <2> QED BY <2>1 DEF NoSignalDropped
<1> QED BY <1>1, <1>2, <1>3, AnnounceTypes DEF Inv

\* The decision gives the signal in hand its outcome, or ends the process.
LEMMA DecideAnswers ==
    ASSUME Inv, NEW c \in Cids, NEW g \in Signals, Decide(c, g),
           \A d \in Cids : status[d] = "taken" => d = c
    PROVE  NoSignalDropped'
<1>1. CASE Veto(c, g)
  <2>1. status' = [status EXCEPT ![c] = "vetoed"]
    BY <1>1 DEF Veto, Mark
  <2> QED BY <2>1 DEF NoSignalDropped, Inv, TypeOK
<1>2. CASE FillRaises(c, g)
  BY <1>2 DEF FillRaises, NoSignalDropped
<1>3. CASE Fill(c, g)
  <2>1. status' = [status EXCEPT ![c] = "live"]
    BY <1>3 DEF Fill, Mark
  <2> QED BY <2>1 DEF NoSignalDropped, Inv, TypeOK
<1> QED BY <1>1, <1>2, <1>3 DEF Decide

LEMMA DroppedStep ==
    ASSUME Inv, NoSignalDropped, [Next]_vars
    PROVE  NoSignalDropped'
<1> USE DEF Inv
<1>1. CASE UNCHANGED vars
  BY <1>1 DEF vars, engineVars, historyVars, NoSignalDropped
<1>2. ASSUME NEW t \in Tasks, Deliver(t) PROVE NoSignalDropped'
  BY <1>2 DEF Deliver, historyVars, NoSignalDropped
<1>3. ASSUME NEW t \in Tasks, CountClose(t) PROVE NoSignalDropped'
  <2>1. pc[t] = "close" /\ up /\ UNCHANGED <<status, cur>>
    BY <1>3 DEF CountClose, At, historyVars
  <2>2. CASE pc' = [pc EXCEPT ![t] = "trip"]
    <3>1. pc'["sig"] = pc["sig"] \/ (pc["sig"] = "close" /\ pc'["sig"] = "trip")
      BY <2>1, <2>2 DEF TypeOK, Tasks
    <3> QED BY <2>1, <3>1 DEF NoSignalDropped
  <2>3. CASE AnnounceClose(t)
    BY <2>1, <2>3, AnnounceKeeps
  <2> QED BY <1>3, <2>2, <2>3 DEF CountClose, Goto
<1>4. ASSUME NEW t \in Tasks, FinishTrip(t) PROVE NoSignalDropped'
  <2>1. pc[t] = "trip" /\ up /\ UNCHANGED <<status, cur>> /\ AnnounceClose(t)
    BY <1>4 DEF FinishTrip, At, historyVars
  <2> QED BY <2>1, AnnounceKeeps
<1>5. ASSUME NEW g \in Signals, TakeSignal(g) PROVE NoSignalDropped'
  <2>1. sent + 1 \in Cids /\ up /\ pc["sig"] = "loop" /\ g.sym \in Symbols
    BY <1>5, NextCid, SignalFields DEF TakeSignal, At
  <2>2. \A d \in Cids : status[d] # "taken"
    BY <2>1 DEF NoSignalDropped
  <2>3. CASE SkipDuplicate(sent + 1, g)
    <3>1. status' = [status EXCEPT ![sent + 1] = "skipped"]
      BY <2>3 DEF SkipDuplicate, Mark
    <3> QED BY <2>2, <3>1 DEF NoSignalDropped, TypeOK
  <2>4. CASE Flip(sent + 1, g)
    <3> DEFINE k == [cid |-> sent + 1, sig |-> g]
    <3>1. /\ status' = [status EXCEPT ![sent + 1] = "taken", ![positions[g.sym].cid] = "closed"]
          /\ cur' = k /\ pc' = [pc EXCEPT !["sig"] = "close"]
      BY <2>4 DEF Flip, Close, Goto
    <3>2. \A d \in Cids : status'[d] = "taken" => d = sent + 1
      BY <2>2, <3>1 DEF TypeOK
    <3>3. k # Null /\ k.cid = sent + 1
      BY <2>1, NullAssumption
    <3>4. pc'["sig"] = "close"
      BY <3>1 DEF TypeOK, Tasks
    <3> HIDE DEF k
    <3> QED BY <3>1, <3>2, <3>3, <3>4 DEF NoSignalDropped
  <2>5. CASE Decide(sent + 1, g)
    BY <2>1, <2>2, <2>5, DecideAnswers
  <2> QED BY <1>5, <2>3, <2>4, <2>5 DEF TakeSignal
<1>6. CASE DecideAfterFlip
  <2>1. cur # Null /\ cur \in [cid : Cids, sig : Signals] /\ up
    BY <1>6 DEF HandlerLocals, DecideAfterFlip, At, TypeOK
  <2>2. cur.cid \in Cids /\ cur.sig \in Signals /\ Decide(cur.cid, cur.sig)
    BY <1>6, <2>1 DEF DecideAfterFlip
  <2>3. \A d \in Cids : status[d] = "taken" => d = cur.cid
    BY <2>1 DEF NoSignalDropped
  <2> QED BY <2>2, <2>3, DecideAnswers
<1>7. CASE ReportFill
  <2>1. pc["sig"] = "fill" /\ up /\ status' = status
    BY <1>7 DEF ReportFill, At, historyVars
  <2> QED BY <2>1 DEF NoSignalDropped
<1>8. ASSUME NEW s \in SymbolList, NEW px \in Prices, TakeMark(s, px)
      PROVE  NoSignalDropped'
  <2>1. s \in Symbols /\ UNCHANGED <<up, cur>>
    BY <1>8, EngineAssumption DEF TakeMark
  <2>2. CASE MarkUntracked(s) \/ MarkMoves(s, px)
    BY <2>1, <2>2 DEF MarkUntracked, MarkMoves, NoSignalDropped
  <2>3. CASE MarkCloses(s, px)
    <3>1. PICK x \in Int, r \in Reasons : Close("mrk", s, x, r)
      BY <2>1, <2>3, MarkClosesAt
    <3>2. status' = [status EXCEPT ![positions[s].cid] = "closed"]
      BY <2>1, <2>3, MarkClosesAt
    <3>3. pc'["sig"] = pc["sig"]
      BY <3>1 DEF Close, Goto, TypeOK, Tasks
    <3> QED BY <2>1, <3>2, <3>3 DEF NoSignalDropped, TypeOK
  <2> QED BY <1>8, <2>2, <2>3 DEF TakeMark
<1>9. ASSUME NEW s \in Symbols, Age(s) PROVE NoSignalDropped'
  BY <1>9 DEF Age, historyVars, NoSignalDropped
<1>10. CASE ResetBreakers \/ Kill
  BY <1>10 DEF ResetBreakers, Kill, NoSignalDropped, historyVars
<1>11. CASE Restart
  <2>1. \A c \in Cids : status'[c] # "taken"
    BY <1>11 DEF Restart
  <2> QED BY <2>1 DEF NoSignalDropped
<1> QED BY <1>1, <1>2, <1>3, <1>4, <1>5, <1>6, <1>7, <1>8, <1>9, <1>10, <1>11 DEF Next

\* A signal that _process_signal has taken is in its hands until it is filled or
\* refused, at every await and with any schema, as long as the process lives.
THEOREM NoSignalDroppedHolds == Spec => []NoSignalDropped
<1>1. Init => NoSignalDropped
  BY DEF Init, NoSignalDropped
<1>2. Inv /\ NoSignalDropped /\ [Next]_vars => NoSignalDropped'
  BY DroppedStep
<1> QED BY <1>1, <1>2, InvHolds, PTL DEF Spec
=============================================================================
