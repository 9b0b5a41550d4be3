----------------------------- MODULE TradeProofs -----------------------------
(***************************************************************************)
(* The life of a trade, proved: in the engine, where a trade is held by    *)
(* one position from its fill to its close and which therefore implements  *)
(* TradeLifecycle, and in the store, whose rows follow it.                 *)
(*                                                                         *)
(* The steps of the engine are of four kinds, and StepKinds says so once:  *)
(* a signal is settled without a fill, a trade opens, a trade ends, or     *)
(* nothing happens to any of them.                                         *)
(***************************************************************************)
EXTENDS TradeStore, PaperEngineProofs

\* Where the signal coroutine is while it flips.
Handling == {"close", "trip", "flip"}

Held(s) == positions[s] # Null

\* The signal that is being served: the next one, or the one flipped for.
Serves(c) ==
    \/ c = sent + 1 /\ sent < MaxSignals /\ sent' = c /\ pc["sig"] = "loop"
    \/ cur # Null /\ c = cur.cid /\ sent' = sent /\ pc["sig"] = "flip"

-----------------------------------------------------------------------------
(* The four kinds of step.                                                 *)

\* A message that is not about a trade's beginning or end.
Aside(m) == m = Null \/ m.chan \notin TradeTopics
NothingSaid == \A t \in Tasks : wire'[t] = wire[t] \/ Aside(wire'[t])
Says(t, chan, c) ==
    /\ wire[t] = Null
    /\ wire'[t] # Null /\ wire'[t].chan = chan /\ wire'[t].cid = c
    /\ \A u \in Tasks \ {t} : wire'[u] = wire[u]

Resting ==
    /\ UNCHANGED <<status, sent>>
    /\ \A s \in Symbols :
          /\ Held(s)' <=> Held(s)
          /\ Held(s) => positions'[s].cid = positions[s].cid /\ positions'[s].sig = positions[s].sig
    /\ NothingSaid
    /\ up' => up
    /\ pc'["sig"] \in Handling <=> pc["sig"] \in Handling
    /\ pc["sig"] \in Handling => cur' = cur

Settles(c, w) ==
    /\ Serves(c) /\ up
    /\ w \in {"vetoed", "skipped", "taken"}
    /\ w = "skipped" => pc["sig"] = "loop" /\ OpenSymbols # {}
    /\ status' = [status EXCEPT ![c] = w]
    /\ positions' = positions
    /\ NothingSaid
    /\ w = "taken" => ~up'
    /\ pc'["sig"] \in Handling => w = "taken" /\ pc' = pc /\ cur' = cur

Opens(c, s) ==
    /\ Serves(c) /\ up
    /\ Cardinality(OpenSymbols) < MaxPositions
    /\ ~Held(s) /\ Held(s)'
    /\ positions'[s].cid = c /\ positions'[s].sig.sym = s
    /\ \A u \in Symbols \ {s} : positions'[u] = positions[u]
    /\ status' = [status EXCEPT ![c] = "live"]
    /\ Says("sig", "trade.executed", c)
    /\ pc'["sig"] \notin Handling

\* ... at a mark, or at the signal c that flips it.
Ends(s, id) ==
    /\ up /\ Held(s) /\ id = positions[s].cid
    /\ positions' = [positions EXCEPT ![s] = Null]
    /\ up' = up
    /\ \/ /\ Says("mrk", "trade.closed", id)
          /\ UNCHANGED <<sent, cur>> /\ pc'["sig"] = pc["sig"]
          /\ status' = [status EXCEPT ![id] = "closed"]
       \/ /\ Says("sig", "trade.closed", id)
          /\ sent < MaxSignals /\ sent' = sent + 1 /\ pc["sig"] = "loop"
          /\ status' = [status EXCEPT ![sent + 1] = "taken", ![id] = "closed"]
          /\ cur' # Null /\ cur'.cid = sent + 1 /\ pc'["sig"] = "close"

Step ==
    \/ Resting
    \/ \E c \in Cids, w \in {"vetoed", "skipped", "taken"} : Settles(c, w)
    \/ \E c \in Cids, s \in Symbols : Opens(c, s)
    \/ \E s \in Symbols, id \in Cids : Ends(s, id)

LEMMA DecideKind ==
    ASSUME Inv, NEW c \in Cids, NEW g \in Signals, Decide(c, g),
           Serves(c), up, positions[g.sym] = Null, wire["sig"] = Null
    PROVE  Step
<1> USE DEF Inv
<1>0. g.sym \in Symbols /\ "sig" \in Tasks /\ pc["sig"] \in {"loop", "flip"}
  BY SignalFields DEF Tasks, Serves
<1>1. CASE Veto(c, g)
  <2>1. /\ status' = [status EXCEPT ![c] = "vetoed"] /\ positions' = positions
        /\ pc'["sig"] = "loop"
    BY <1>0, <1>1 DEF Veto, Mark, Goto, TypeOK
  <2>2. NothingSaid
    BY <1>0, <1>1 DEF Veto, Publish, NothingSaid, Aside, TradeTopics, TypeOK
  <2>3. Settles(c, "vetoed")
    BY <2>1, <2>2 DEF Settles, Handling
  <2> QED BY <2>3 DEF Step
<1>2. CASE FillRaises(c, g)
  <2>1. Settles(c, "taken")
    BY <1>2 DEF FillRaises, Settles, NothingSaid, Mark
  <2> QED BY <2>1 DEF Step
<1>3. CASE Fill(c, g)
  <2>1. FilledPosition(c, g) \in Position /\ FilledPosition(c, g).cid = c
        /\ FilledPosition(c, g).sig = g /\ FilledPosition(c, g) # Null
    BY <1>3, FilledType, NullAssumption DEF FilledPosition
  <2>2. positions' = [positions EXCEPT ![g.sym] = FilledPosition(c, g)]
    BY <1>3 DEF Fill, FilledPosition
  <2>3. Says("sig", "trade.executed", c)
    <3> DEFINE m == [chan |-> "trade.executed", cid |-> c, sym |-> g.sym, closed |-> FALSE]
    <3>1. wire' = [wire EXCEPT !["sig"] = m] /\ m \in Message
      BY <1>0, <1>3 DEF Fill, Publish, Message, Channels
    <3>2. m # Null
      BY <3>1, NullAssumption
    <3> QED BY <1>0, <3>1, <3>2 DEF Says, TypeOK
  <2>4. pc'["sig"] = "fill" /\ status' = [status EXCEPT ![c] = "live"]
    BY <1>0, <1>3 DEF Fill, Goto, Mark, TypeOK
  <2>5. Cardinality(OpenSymbols) < MaxPositions
    BY <1>3 DEF Fill, Refused, GuardAllows
  <2>6. Opens(c, g.sym)
    <3> HIDE DEF FilledPosition
    <3> QED BY <1>0, <2>1, <2>2, <2>3, <2>4, <2>5 DEF Opens, Held, Handling, TypeOK
  <2> QED BY <1>0, <2>6 DEF Step
<1> QED BY <1>1, <1>2, <1>3 DEF Decide

LEMMA CloseSays ==
    ASSUME TypeOK, NEW t \in Tasks, NEW s \in Symbols, positions[s] # Null,
           NEW x \in Int, NEW r \in Reasons, wire[t] = Null, Close(t, s, x, r)
    PROVE  Says(t, "trade.closed", positions[s].cid)
<1> DEFINE m == [chan |-> "trade.closed", cid |-> positions[s].cid, sym |-> s, closed |-> TRUE]
<1>1. wire' = [wire EXCEPT ![t] = m]
  BY DEF Close, Publish
<1>2. m \in Message
  BY PositionFields DEF TypeOK, Message, Channels
<1>3. m # Null
  BY <1>2, NullAssumption
<1> QED BY <1>1, <1>3 DEF Says, TypeOK

LEMMA TakeSignalKind ==
    ASSUME Inv, NEW g \in Signals, TakeSignal(g)
    PROVE  Step
<1> USE DEF Inv
<1> DEFINE c == sent + 1
<1>1. c \in Cids /\ Serves(c) /\ up /\ pc["sig"] = "loop" /\ wire["sig"] = Null
      /\ g.sym \in Symbols /\ "sig" \in Tasks
  BY NextCid, SignalFields DEF TakeSignal, At, Serves, Tasks
<1>2. CASE SkipDuplicate(c, g)
  <2>1. OpenSymbols # {} /\ UNCHANGED <<positions, pc, wire, up>>
        /\ status' = [status EXCEPT ![c] = "skipped"]
    BY <1>1, <1>2 DEF SkipDuplicate, Mark, OpenSymbols, engineVars
  <2>2. Settles(c, "skipped")
    BY <1>1, <2>1 DEF Settles, NothingSaid, Handling
  <2> QED BY <1>1, <2>2 DEF Step
<1>3. CASE Flip(c, g)
  <2> DEFINE s == g.sym
             x == IF lastMark[s] # 0 THEN lastMark[s] ELSE positions[s].entry
  <2>1. Held(s) /\ positions[s] \in Position /\ positions[s].cid \in Cids
    BY <1>1, <1>3, PositionFields DEF Flip, Held, TypeOK
  <2>2. Close("sig", s, x, "direction_flip") /\ x \in Int /\ "direction_flip" \in Reasons
    BY <1>1, <1>3, <2>1, FlipExitType DEF Flip, Held, Reasons
  <2>3. Says("sig", "trade.closed", positions[s].cid)
    BY <1>1, <2>1, <2>2, CloseSays DEF Held
  <2>4. positions' = [positions EXCEPT ![s] = Null] /\ pc'["sig"] = "close"
    BY <1>1, <2>2 DEF Close, Popped, Goto, TypeOK
  <2>5. cur' = [cid |-> c, sig |-> g] /\ cur' # Null
    <3>1. cur' = [cid |-> c, sig |-> g] /\ cur' \in [cid : Cids, sig : Signals]
      BY <1>1, <1>3 DEF Flip
    <3> QED BY <3>1, NullAssumption
  <2>6. status' = [status EXCEPT ![c] = "taken", ![positions[s].cid] = "closed"] /\ up' = up
    BY <1>3 DEF Flip
  <2>7. sent < MaxSignals /\ sent' = sent + 1
    BY DEF TakeSignal
  <2>8. Ends(s, positions[s].cid)
    BY <1>1, <2>1, <2>3, <2>4, <2>5, <2>6, <2>7 DEF Ends
  <2> QED BY <1>1, <2>1, <2>8 DEF Step
<1>4. CASE positions[g.sym] = Null /\ Decide(c, g)
  BY <1>1, <1>4, DecideKind
<1> QED BY <1>2, <1>3, <1>4 DEF TakeSignal

LEMMA TakeMarkKind ==
    ASSUME Inv, NEW s \in SymbolList, NEW px \in Prices, TakeMark(s, px)
    PROVE  Step
<1> USE DEF Inv
<1>1. /\ s \in Symbols /\ up /\ up' = up /\ wire["mrk"] = Null
      /\ UNCHANGED <<cur, sent>> /\ "mrk" \in Tasks /\ "sig" \in Tasks
  BY EngineAssumption DEF TakeMark, At, Tasks
<1>2. CASE MarkUntracked(s)
  <2>1. Resting
    BY <1>1, <1>2 DEF MarkUntracked, Resting, NothingSaid, Held
  <2> QED BY <2>1 DEF Step
<1>3. CASE MarkCloses(s, px)
  <2>1. PICK x \in Int, r \in Reasons : Close("mrk", s, x, r)
    BY <1>1, <1>3, MarkClosesAt
  <2>2. Held(s) /\ positions[s].cid \in Cids
        /\ status' = [status EXCEPT ![positions[s].cid] = "closed"]
    BY <1>1, <1>3, MarkClosesAt, PositionFields DEF Held
  <2>3. Says("mrk", "trade.closed", positions[s].cid)
    BY <1>1, <2>1, <2>2, CloseSays DEF Held
  <2>4. positions' = [positions EXCEPT ![s] = Null] /\ pc'["sig"] = pc["sig"]
    BY <1>1, <2>1 DEF Close, Popped, Goto, TypeOK
  <2>5. Ends(s, positions[s].cid)
    BY <1>1, <2>2, <2>3, <2>4 DEF Ends
  <2> QED BY <1>1, <2>2, <2>5 DEF Step
<1>4. CASE MarkMoves(s, px)
  <2>1. UNCHANGED <<pc, status>> /\ positions' = [positions EXCEPT ![s].mark = px]
        /\ positions[s] # Null /\ positions[s] \in Position
    BY <1>1, <1>4 DEF MarkMoves, TypeOK
  <2>2. NothingSaid
    BY <1>1, <1>4 DEF MarkMoves, Publish, NothingSaid, Aside, TradeTopics, TypeOK
  <2>3. positions'[s].cid = positions[s].cid /\ positions'[s].sig = positions[s].sig
        /\ positions'[s] # Null
    <3> DEFINE q == [positions[s] EXCEPT !.mark = px]
    <3>1. q \in Position /\ q.cid = positions[s].cid /\ q.sig = positions[s].sig
      BY <2>1, EngineAssumption DEF Position
    <3> QED BY <1>1, <2>1, <3>1, NullAssumption DEF TypeOK
  <2>4. Resting
    BY <1>1, <2>1, <2>2, <2>3 DEF Resting, Held, TypeOK
  <2> QED BY <2>4 DEF Step
<1> QED BY <1>2, <1>3, <1>4 DEF TakeMark

LEMMA AnnounceKind ==
    ASSUME Inv, NEW t \in Tasks, pc[t] \in {"close", "trip"}, up, AnnounceClose(t),
           UNCHANGED <<status, sent, positions, cur>>
    PROVE  Step
<1> USE DEF Inv
<1>1. up' => up
  OBVIOUS
<1>2. NothingSaid
  <2>1. wire \in [Tasks -> Message \cup {Null}]
    BY DEF TypeOK
  <2>2. CASE UNCHANGED wire
    BY <2>2 DEF NothingSaid
  <2>3. ASSUME NEW c, NEW s, Publish(t, "position.update", c, s, TRUE)
        PROVE  NothingSaid
    BY <2>1, <2>3 DEF Publish, NothingSaid, Aside, TradeTopics
  <2> QED BY <2>2, <2>3 DEF AnnounceClose
<1>3. pc'["sig"] \in Handling <=> pc["sig"] \in Handling
  BY DEF AnnounceClose, Goto, AfterClose, Handling, Tasks, TypeOK
<1>4. Resting
  BY <1>1, <1>2, <1>3 DEF Resting, Held
<1> QED BY <1>4 DEF Step

LEMMA CountCloseKind ==
    ASSUME Inv, NEW t \in Tasks, CountClose(t)
    PROVE  Step
<1>1. pc[t] = "close" /\ up /\ UNCHANGED <<status, sent, positions, cur>>
  BY DEF CountClose, At, historyVars
<1>2. CASE daily'.tripped
  <2>1. UNCHANGED up /\ pc' = [pc EXCEPT ![t] = "trip"]
    BY <1>2 DEF CountClose, Goto
  <2>2. NothingSaid
    BY <1>2 DEF CountClose, Publish, NothingSaid, Aside, TradeTopics, Inv, TypeOK
  <2>3. pc'["sig"] \in Handling <=> pc["sig"] \in Handling
    BY <1>1, <2>1 DEF Handling, Tasks, Inv, TypeOK
  <2>4. Resting
    BY <1>1, <2>1, <2>2, <2>3 DEF Resting, Held
  <2> QED BY <2>4 DEF Step
<1>3. CASE ~daily'.tripped
  BY <1>1, <1>3, AnnounceKind DEF CountClose
<1> QED BY <1>2, <1>3

LEMMA ReportKind ==
    ASSUME Inv, ReportFill
    PROVE  Step
<1>1. pc["sig"] = "fill" /\ pc' = [pc EXCEPT !["sig"] = "loop"]
      /\ UNCHANGED <<status, sent, positions, up>>
  BY DEF ReportFill, At, Goto, historyVars
<1>2. NothingSaid
  BY DEF ReportFill, Report, Publish, NothingSaid, Aside, TradeTopics, Inv, TypeOK
<1>3. pc["sig"] \notin Handling /\ pc'["sig"] \notin Handling
  BY <1>1 DEF Handling, Tasks, Inv, TypeOK
<1>4. Resting
  BY <1>1, <1>2, <1>3 DEF Resting, Held
<1> QED BY <1>4 DEF Step

LEMMA AgeKind ==
    ASSUME Inv, NEW s \in Symbols, Age(s)
    PROVE  Step
<1> DEFINE q == [positions[s] EXCEPT !.old = TRUE]
<1>1. positions[s] # Null /\ positions[s] \in Position
      /\ UNCHANGED <<up, pc, cur, wire, sent, status>>
  BY DEF Age, Inv, TypeOK, historyVars
<1>2. q \in Position /\ q.cid = positions[s].cid /\ q.sig = positions[s].sig /\ q # Null
  BY <1>1, NullAssumption DEF Position
<1>3. positions' = [positions EXCEPT ![s] = q]
  BY <1>1 DEF Age, Inv, TypeOK
<1> HIDE DEF q
<1>4. Resting
  BY <1>1, <1>2, <1>3 DEF Resting, Held, NothingSaid, Inv, TypeOK
<1> QED BY <1>4 DEF Step

\* Every step but a restart is of one of the four kinds.
LEMMA StepKinds ==
    ASSUME Inv, [Next]_vars
    PROVE  Step \/ Restart
<1>1. CASE UNCHANGED vars
  <2>1. Resting
    BY <1>1 DEF vars, engineVars, historyVars, Resting, Held, NothingSaid
  <2> QED BY <2>1 DEF Step
<1>2. ASSUME NEW t \in Tasks, Deliver(t) PROVE Step
  <2>1. NothingSaid
    BY <1>2 DEF Deliver, NothingSaid, Aside, Inv, TypeOK
  <2>2. Resting
    BY <1>2, <2>1 DEF Deliver, historyVars, Resting, Held
  <2> QED BY <2>2 DEF Step
<1>3. ASSUME NEW t \in Tasks, FinishTrip(t) PROVE Step
  BY <1>3, AnnounceKind DEF FinishTrip, At, historyVars
<1>4. CASE DecideAfterFlip
  <2>1. cur # Null /\ cur \in [cid : Cids, sig : Signals] /\ up /\ pc["sig"] = "flip"
        /\ wire["sig"] = Null /\ sent' = sent /\ positions[cur.sig.sym] = Null
    BY <1>4 DEF Inv, HandlerLocals, DecideAfterFlip, At, TypeOK
  <2>2. cur.cid \in Cids /\ cur.sig \in Signals /\ Decide(cur.cid, cur.sig) /\ Serves(cur.cid)
    BY <1>4, <2>1 DEF DecideAfterFlip, Serves
  <2> QED BY <2>1, <2>2, DecideKind
<1>5. CASE ResetBreakers \/ Kill
  <2>1. Resting
    BY <1>5 DEF ResetBreakers, Kill, historyVars, Resting, Held, NothingSaid
  <2> QED BY <2>1 DEF Step
<1> QED BY <1>1, <1>2, <1>3, <1>4, <1>5, CountCloseKind, TakeSignalKind, ReportKind,
           TakeMarkKind, AgeKind DEF Next

-----------------------------------------------------------------------------
(* A trade is held by one position from its fill to its close.             *)

\* A position is of a live trade, filed under its symbol, and of no other's.
HeldLives ==
    \A s \in Symbols : Held(s) =>
        /\ positions[s].sig.sym = s
        /\ status[positions[s].cid] = "live"
        /\ \A u \in Symbols : Held(u) /\ positions[u].cid = positions[s].cid => u = s

LiveHeld ==
    \A c \in Cids : status[c] = "live" => \E s \in Symbols : Held(s) /\ positions[s].cid = c

\* The signals have come in order ...
InOrder == \A c \in Cids : status[c] = "unsent" <=> c > sent

\* ... and the one in the hands of the handler is the one it flips for.
InHand ==
    /\ pc["sig"] \in Handling => cur # Null /\ status[cur.cid] = "taken"
    /\ up => \A c \in Cids : status[c] = "taken" => pc["sig"] \in Handling /\ c = cur.cid

Lives == HeldLives /\ LiveHeld /\ InOrder /\ InHand

LEMMA ServedStatus ==
    ASSUME Inv, Lives, NEW c \in Cids, Serves(c)
    PROVE  /\ status[c] \in {"unsent", "taken"}
           /\ status[c] = "taken" => pc["sig"] = "flip" /\ cur # Null /\ c = cur.cid /\ sent' = sent
           /\ status[c] = "unsent" => c = sent + 1 /\ sent' = c /\ pc["sig"] = "loop"
           /\ \A d \in Cids \ {c} : d > sent' <=> d > sent
           /\ ~(c > sent')
           /\ \A s \in Symbols : Held(s) => positions[s].cid # c
<1> USE DEF Inv
<1>1. sent \in Nat /\ \A d \in Cids : d \in Nat
  BY EngineAssumption DEF TypeOK, Cids
<1>2. CASE c = sent + 1 /\ sent' = c /\ pc["sig"] = "loop"
  <2>1. status[c] = "unsent"
    BY <1>1, <1>2 DEF Lives, InOrder
  <2>2. \A d \in Cids \ {c} : d > sent' <=> d > sent
    BY <1>1, <1>2
  <2>3. ~(c > sent')
    BY <1>1, <1>2
  <2> QED BY <1>2, <2>1, <2>2, <2>3 DEF Lives, HeldLives
<1>3. CASE cur # Null /\ c = cur.cid /\ sent' = sent /\ pc["sig"] = "flip"
  <2>1. status[c] = "taken"
    BY <1>3 DEF Lives, InHand, Handling
  <2> QED BY <1>1, <1>3, <2>1 DEF Lives, InOrder, HeldLives
<1> QED BY <1>2, <1>3 DEF Serves

LEMMA InitLives == Init => Lives
<1> SUFFICES ASSUME Init PROVE Lives
  OBVIOUS
<1>1. HeldLives /\ LiveHeld /\ InHand
  BY DEF Init, HeldLives, LiveHeld, InHand, Held, Handling, NoPositions, Tasks
<1>2. InOrder
  BY EngineAssumption DEF Init, InOrder, Cids
<1> QED BY <1>1, <1>2 DEF Lives

LEMMA RestLives ==
    ASSUME Inv, Lives, Resting
    PROVE  Lives'
BY DEF Lives, HeldLives, LiveHeld, InOrder, InHand, Resting

LEMMA SettleLives ==
    ASSUME Inv, Lives, NEW c \in Cids, NEW w \in {"vetoed", "skipped", "taken"}, Settles(c, w)
    PROVE  Lives'
<1> USE DEF Inv, Lives
<1>1. /\ status' = [status EXCEPT ![c] = w] /\ positions' = positions /\ Serves(c)
      /\ status \in [Cids -> {"unsent", "taken", "skipped", "vetoed", "live", "closed", "lost"}]
  BY DEF Settles, TypeOK
<1>2. \A s \in Symbols : Held(s) => positions[s].cid # c /\ positions[s].cid \in Cids
  BY <1>1, ServedStatus, PositionFields DEF Held, TypeOK
<1>3. HeldLives'
  BY <1>1, <1>2 DEF HeldLives, Held
<1>4. LiveHeld'
  BY <1>1 DEF LiveHeld, Held
<1>5. InOrder'
  BY <1>1, ServedStatus DEF InOrder
<1>6. InHand'
  BY <1>1, ServedStatus DEF InHand, Settles, Handling
<1> QED BY <1>3, <1>4, <1>5, <1>6

LEMMA OpenLives ==
    ASSUME Inv, Lives, NEW c \in Cids, NEW s \in Symbols, Opens(c, s)
    PROVE  Lives'
<1> USE DEF Inv, Lives
<1>1. /\ status' = [status EXCEPT ![c] = "live"] /\ Serves(c) /\ ~Held(s) /\ Held(s)'
      /\ positions'[s].cid = c /\ positions'[s].sig.sym = s
      /\ \A u \in Symbols \ {s} : positions'[u] = positions[u]
      /\ pc'["sig"] \notin Handling /\ up
      /\ status \in [Cids -> {"unsent", "taken", "skipped", "vetoed", "live", "closed", "lost"}]
  BY DEF Opens, TypeOK
<1>2. \A u \in Symbols : Held(u) => positions[u].cid # c /\ positions[u].cid \in Cids
  BY <1>1, ServedStatus, PositionFields DEF Held, TypeOK
<1>3. HeldLives'
  BY <1>1, <1>2 DEF HeldLives, Held
<1>4. LiveHeld'
  BY <1>1 DEF LiveHeld, Held
<1>5. InOrder'
  BY <1>1, ServedStatus DEF InOrder
<1>6. \A d \in Cids : status'[d] # "taken"
  BY <1>1, ServedStatus DEF InHand, Handling
<1>7. InHand'
  BY <1>1, <1>6 DEF InHand
<1> QED BY <1>3, <1>4, <1>5, <1>7

LEMMA EndLives ==
    ASSUME Inv, Lives, NEW s \in Symbols, NEW id \in Cids, Ends(s, id)
    PROVE  Lives'
<1> USE DEF Inv, Lives
<1>1. /\ Held(s) /\ id = positions[s].cid /\ status[id] = "live" /\ up /\ up' = up
      /\ positions' = [positions EXCEPT ![s] = Null]
      /\ positions \in [Symbols -> Position \cup {Null}]
      /\ status \in [Cids -> {"unsent", "taken", "skipped", "vetoed", "live", "closed", "lost"}]
  BY DEF Ends, HeldLives, TypeOK
<1>2. \A u \in Symbols \ {s} : (Held(u)' <=> Held(u)) /\ (Held(u) => positions[u].cid # id)
  BY <1>1 DEF HeldLives, Held
<1>3. \A u \in Symbols : Held(u) => positions[u].cid \in Cids
  BY PositionFields DEF Held, TypeOK
<1>4. CASE UNCHANGED <<sent, cur>> /\ pc'["sig"] = pc["sig"] /\ status' = [status EXCEPT ![id] = "closed"]
  <2>1. HeldLives' /\ LiveHeld'
    BY <1>1, <1>2, <1>3, <1>4 DEF HeldLives, LiveHeld, Held
  <2>2. InOrder'
    BY <1>1, <1>4 DEF InOrder
  <2>3. InHand'
    BY <1>1, <1>4 DEF InHand
  <2> QED BY <2>1, <2>2, <2>3
<1>5. CASE /\ sent < MaxSignals /\ sent' = sent + 1 /\ pc["sig"] = "loop"
           /\ status' = [status EXCEPT ![sent + 1] = "taken", ![id] = "closed"]
           /\ cur' # Null /\ cur'.cid = sent + 1 /\ pc'["sig"] = "close"
  <2>1. sent + 1 \in Cids /\ Serves(sent + 1)
    BY <1>5, NextCid DEF Serves
  <2>2. status[sent + 1] = "unsent" /\ sent + 1 # id
        /\ \A u \in Symbols : Held(u) => positions[u].cid # sent + 1
    BY <1>1, <1>5, <2>1, ServedStatus
  <2>3. HeldLives' /\ LiveHeld'
    BY <1>1, <1>2, <1>3, <1>5, <2>1, <2>2 DEF HeldLives, LiveHeld, Held
  <2>4. InOrder'
    BY <1>1, <1>5, <2>1, <2>2, ServedStatus DEF InOrder
  <2>5. InHand'
    BY <1>1, <1>5, <2>1, <2>2 DEF InHand, Handling
  <2> QED BY <2>3, <2>4, <2>5
<1> QED BY <1>4, <1>5 DEF Ends

LEMMA RestartLives ==
    ASSUME Inv, Lives, Restart
    PROVE  Lives'
<1>1. HeldLives' /\ LiveHeld' /\ InHand'
  BY DEF Restart, HeldLives, LiveHeld, InHand, Held, Handling, NoPositions, Tasks
<1>2. InOrder'
  BY DEF Restart, Lives, InOrder
<1> QED BY <1>1, <1>2 DEF Lives

LEMMA StepLives == Inv /\ Lives /\ [Next]_vars => Lives'
BY StepKinds, RestLives, SettleLives, OpenLives, EndLives, RestartLives DEF Step

LEMMA LivesHolds == Spec => []Lives
BY InitLives, StepLives, InvHolds, PTL DEF Spec

\* A live trade is held by exactly one position, filed under its symbol, and none is
\* held that has ended: no interleaving overwrites a trade or closes it twice.
THEOREM LiveIffHeldHolds == Spec => []LiveIffHeld
<1>1. Lives => LiveIffHeld
  BY DEF Lives, HeldLives, LiveHeld, LiveIffHeld, Held
<1> QED BY <1>1, LivesHolds, PTL

-----------------------------------------------------------------------------
(* The engine implements TradeLifecycle.                                   *)

Holder == [s \in Symbols |-> IF positions[s] = Null THEN 0 ELSE positions[s].cid]

\* The signal the handler serves is the one TradeLifecycle lets be served.
LEMMA ServesServing ==
    ASSUME Inv, Lives, NEW c \in Cids, Serves(c), up
    PROVE  Trades!Serving(c)
<1>1. status[c] \in {"unsent", "taken"}
  BY ServedStatus
<1>2. CASE status[c] = "taken"
  BY <1>2 DEF Trades!Serving
<1>3. CASE status[c] = "unsent"
  <2>1. c = sent + 1 /\ pc["sig"] = "loop"
    BY <1>3, ServedStatus
  <2>2. \A d \in Cids : status[d] # "taken"
    BY <2>1 DEF Lives, InHand, Handling
  <2>3. \A d \in Cids : d < c => ~(d > sent)
    BY <2>1, EngineAssumption DEF Inv, TypeOK, Cids
  <2>4. \A d \in Cids : d < c => status[d] # "unsent"
    BY <2>3 DEF Lives, InOrder
  <2> QED BY <1>3, <2>2, <2>4 DEF Trades!Serving, Trades!Cids, Cids
<1> QED BY <1>1, <1>2, <1>3

LEMMA HolderOpen ==
    ASSUME Inv
    PROVE  /\ Trades!Open = OpenSymbols
           /\ \A s \in Symbols : Holder[s] = 0 <=> ~Held(s)
<1>1. \A s \in Symbols : Held(s) => positions[s].cid \in Nat \ {0}
  BY PositionFields DEF Held, Inv, TypeOK, Cids
<1> QED BY <1>1 DEF Trades!Open, Trades!NoTrade, OpenSymbols, Holder, Held

LEMMA SettleImplements ==
    ASSUME Inv, Lives, NEW c \in Cids, NEW w \in {"vetoed", "skipped", "taken"}, Settles(c, w)
    PROVE  [Trades!Next]_(Trades!vars)
<1>1. /\ status' = [status EXCEPT ![c] = w] /\ Holder' = Holder /\ Serves(c) /\ up
      /\ status \in [Cids -> {"unsent", "taken", "skipped", "vetoed", "live", "closed", "lost"}]
  BY DEF Settles, Holder, Inv, TypeOK
<1>2. Trades!Serving(c) /\ c \in Trades!Cids
  BY <1>1, ServesServing DEF Trades!Cids, Cids
<1>3. CASE w = "vetoed"
  <2>1. Trades!Refuse(c)
    BY <1>1, <1>2, <1>3 DEF Trades!Refuse, Holder
  <2> QED BY <1>2, <2>1 DEF Trades!Next
<1>4. CASE w = "skipped"
  <2>1. status[c] = "unsent" /\ Trades!Open # {}
    BY <1>1, <1>4, ServedStatus, HolderOpen DEF Settles
  <2>2. Trades!Refuse(c)
    BY <1>1, <1>2, <1>4, <2>1 DEF Trades!Refuse, Holder
  <2> QED BY <1>2, <2>2 DEF Trades!Next
<1>5. CASE w = "taken" /\ status[c] = "unsent"
  <2>1. Trades!Drop(c)
    BY <1>1, <1>2, <1>5 DEF Trades!Drop, Holder
  <2> QED BY <1>2, <2>1 DEF Trades!Next
<1>6. CASE w = "taken" /\ status[c] = "taken"
  <2>1. status' = status
    BY <1>1, <1>6
  <2> QED BY <1>1, <2>1 DEF Trades!vars, Holder
<1> QED BY <1>1, <1>3, <1>4, <1>5, <1>6, ServedStatus

LEMMA OpenImplements ==
    ASSUME Inv, Lives, NEW c \in Cids, NEW s \in Symbols, Opens(c, s)
    PROVE  Trades!Next
<1>1. Trades!Serving(c) /\ c \in Trades!Cids
  BY ServesServing DEF Opens, Trades!Cids, Cids
<1>2. Holder' = [Holder EXCEPT ![s] = c]
  BY DEF Opens, Holder, Held
<1>3. Holder[s] = 0
  BY HolderOpen DEF Opens
<1>4. Trades!Cardinality(Trades!Open) < MaxPositions
  <2>1. Cardinality(Trades!Open) < MaxPositions
    BY HolderOpen DEF Opens
  <2>2. Trades!Cardinality(Trades!Open) = Cardinality(Trades!Open)
    BY DEF Cardinality, Trades!Cardinality, IsFiniteSet, Trades!IsFiniteSet
  <2> QED BY <2>1, <2>2
<1>5. status' = [status EXCEPT ![c] = "live"]
  BY DEF Opens
<1>6. Trades!Fill(c, s)
  BY <1>1, <1>2, <1>3, <1>4, <1>5 DEF Trades!Fill, Trades!NoTrade, Holder
<1> QED BY <1>1, <1>6 DEF Trades!Next

LEMMA EndImplements ==
    ASSUME Inv, Lives, NEW s \in Symbols, NEW id \in Cids, Ends(s, id)
    PROVE  Trades!Next
<1>1. Holder' = [Holder EXCEPT ![s] = 0] /\ Holder[s] = id /\ Holder[s] # 0
  <2>1. positions' = [positions EXCEPT ![s] = Null] /\ Held(s) /\ id = positions[s].cid
    BY DEF Ends
  <2>2. Holder[s] = id /\ Holder[s] # 0
    BY <2>1, HolderOpen DEF Holder, Held
  <2> QED BY <2>1, <2>2 DEF Holder, Inv, TypeOK
<1>2. CASE status' = [status EXCEPT ![id] = "closed"]
  <2>1. Trades!Close(s)
    BY <1>1, <1>2 DEF Trades!Close, Trades!NoTrade, Holder
  <2> QED BY <2>1 DEF Trades!Next
<1>3. CASE /\ sent < MaxSignals /\ sent' = sent + 1 /\ pc["sig"] = "loop"
           /\ status' = [status EXCEPT ![sent + 1] = "taken", ![id] = "closed"]
  <2>1. sent + 1 \in Cids /\ Serves(sent + 1) /\ up
    BY <1>3, NextCid DEF Serves, Inv, Ends
  <2>2. status[sent + 1] = "unsent" /\ Trades!Serving(sent + 1) /\ sent + 1 \in Trades!Cids
    BY <1>3, <2>1, ServedStatus, ServesServing DEF Trades!Cids, Cids
  <2>3. Trades!Flip(sent + 1, s)
    BY <1>1, <1>3, <2>2 DEF Trades!Flip, Trades!NoTrade, Holder
  <2> QED BY <2>2, <2>3 DEF Trades!Next
<1> QED BY <1>2, <1>3 DEF Ends

LEMMA StepImplements ==
    ASSUME Inv, Lives, [Next]_vars
    PROVE  [Trades!Next]_(Trades!vars)
<1>1. CASE Resting
  <2>1. Holder' = Holder /\ status' = status
    BY <1>1 DEF Resting, Holder, Held
  <2> QED BY <2>1 DEF Trades!vars, Holder
<1>2. CASE Restart
  <2>1. Trades!Restart
    BY <1>2 DEF Restart, NoPositions, Trades!Restart, Trades!Cids, Trades!NoTrade, Cids
  <2> QED BY <2>1 DEF Trades!Next
<1> QED BY <1>1, <1>2, StepKinds, SettleImplements, OpenImplements, EndImplements DEF Step

\* The engine implements TradeLifecycle: with its coroutines, publishes, marks and money
\* forgotten, a signal is answered once and in its turn, and a trade lives and ends once,
\* across every interleaving, exception and restart.
THEOREM ImplementsTradesHolds == Spec => ImplementsTrades
<1>1. Init => Trades!Init
  BY DEF Init, NoPositions, Trades!Init, Trades!NoTrade, Trades!Cids, Cids
<1>2. Inv /\ Lives /\ [Next]_vars => [Trades!Next]_(Trades!vars)
  BY StepImplements
<1> QED BY <1>1, <1>2, InvHolds, LivesHolds, PTL DEF Spec, ImplementsTrades, Trades!Spec

-----------------------------------------------------------------------------
(* What the bus carries and the tables hold.                               *)

\* A message that announces a close.
Told(m) == m # Null /\ m.chan = "trade.closed"

\* While rows wait for the orphan pass nothing runs, and no open row escapes it.
Boots ==
    boot # Null =>
        /\ ~up /\ inbox = <<>> /\ storing = Null
        /\ \A c \in Cids : rows[c] = "open" <=> c \in boot

RowsFollow ==
    \A c \in Cids :
        /\ rows[c] # "none" => status[c] \in {"live", "closed", "lost"}
        /\ up /\ rows[c] = "closed" => status[c] # "live"

\* What a former session took has ended, and nothing that is still said is about it.
Past ==
    /\ up => \A c \in Cids : c <= former =>
           rows[c] # "open" /\ status[c] \in {"vetoed", "skipped", "closed", "lost"}
    /\ \A k \in 1 .. Len(inbox) : inbox[k].cid > former
    /\ up => \A t \in Tasks : ~Aside(wire[t]) => wire[t].cid > former

\* A message is of a trade of this session, and that of a close comes before the close
\* of its row.
Agrees(m, st, row) ==
    /\ m.chan = "trade.executed" => st[m.cid] \in {"live", "closed"}
    /\ m.chan = "trade.closed" => st[m.cid] = "closed" /\ row[m.cid] # "closed"

Messages ==
    /\ \A k \in 1 .. Len(inbox) : inbox[k].chan \in TradeTopics /\ Agrees(inbox[k], status, rows)
    /\ up => \A t \in Tasks : wire[t] # Null => Agrees(wire[t], status, rows)

\* A close is announced once.
Once ==
    /\ \A j, k \in 1 .. Len(inbox) :
           j # k /\ Told(inbox[j]) /\ Told(inbox[k]) => inbox[j].cid # inbox[k].cid
    /\ up => \A t \in Tasks : Told(wire[t]) =>
           /\ \A k \in 1 .. Len(inbox) : Told(inbox[k]) => inbox[k].cid # wire[t].cid
           /\ \A u \in Tasks \ {t} : Told(wire[u]) => wire[u].cid # wire[t].cid

Booked == \A c \in Cids : closes[c] \in {0, 1} /\ (rows[c] # "closed" => closes[c] = 0)

StoreInv ==
    /\ Inv /\ Lives /\ StoreTypeOK
    /\ Boots /\ RowsFollow /\ Past /\ Messages /\ Once /\ Booked

-----------------------------------------------------------------------------
(* Steps of the engine.                                                    *)

\* What becomes of a signal's status in one session, and what is said of it.
Moves ==
    /\ sent' >= sent
    /\ \A c \in Cids :
        /\ status[c] \in {"vetoed", "skipped", "closed", "lost"} => status'[c] = status[c]
        /\ status[c] = "live" => status'[c] \in {"live", "closed"}
        /\ status'[c] = "lost" => status[c] = "lost"

Tells ==
    \/ NothingSaid
    \/ \E t \in Tasks, c \in Cids :
          Says(t, "trade.executed", c) /\ status'[c] = "live"
    \/ \E t \in Tasks, c \in Cids :
          Says(t, "trade.closed", c) /\ status[c] = "live" /\ status'[c] = "closed"

LEMMA StepTells ==
    ASSUME Inv, Lives, Step
    PROVE  Moves /\ Tells /\ (up' => up)
<1>0. status \in [Cids -> {"unsent", "taken", "skipped", "vetoed", "live", "closed", "lost"}]
      /\ sent \in Nat
  BY EngineAssumption DEF Inv, TypeOK
<1>1. CASE Resting
  BY <1>0, <1>1 DEF Resting, Moves, Tells
<1>2. ASSUME NEW c \in Cids, NEW w \in {"vetoed", "skipped", "taken"}, Settles(c, w)
      PROVE  Moves /\ Tells /\ (up' => up)
  <2>1. status[c] \in {"unsent", "taken"} /\ status' = [status EXCEPT ![c] = w]
        /\ sent' >= sent
    BY <1>0, <1>2, ServedStatus DEF Settles, Serves
  <2> QED BY <1>0, <1>2, <2>1 DEF Settles, Moves, Tells
<1>3. ASSUME NEW c \in Cids, NEW s \in Symbols, Opens(c, s)
      PROVE  Moves /\ Tells /\ (up' => up)
  <2>1. status[c] \in {"unsent", "taken"} /\ status' = [status EXCEPT ![c] = "live"]
        /\ sent' >= sent
    BY <1>0, <1>3, ServedStatus DEF Opens, Serves
  <2>2. Moves
    BY <1>0, <2>1 DEF Moves
  <2>3. Tells
    BY <1>0, <1>3, <2>1 DEF Opens, Tells, Tasks
  <2> QED BY <1>3, <2>2, <2>3 DEF Opens
<1>4. ASSUME NEW s \in Symbols, NEW id \in Cids, Ends(s, id)
      PROVE  Moves /\ Tells /\ (up' => up)
  <2>1. status[id] = "live"
    BY <1>4 DEF Ends, Lives, HeldLives
  <2>2. sent < MaxSignals /\ pc["sig"] = "loop" /\ sent' = sent + 1
          => sent + 1 \in Cids /\ status[sent + 1] = "unsent"
    BY NextCid, ServedStatus DEF Inv, Serves
  <2>3. Moves /\ status'[id] = "closed"
    BY <1>0, <1>4, <2>1, <2>2 DEF Ends, Moves
  <2>4. Tells
    BY <1>4, <2>1, <2>3 DEF Ends, Tells, Tasks
  <2> QED BY <1>4, <2>3, <2>4 DEF Ends
<1> QED BY <1>1, <1>2, <1>3, <1>4 DEF Step

LEMMA EngineStepNext ==
    ASSUME EngineStep
    PROVE  Next /\ up /\ UNCHANGED storeVars
<1>1. Next /\ UNCHANGED storeVars
  BY DEF EngineStep, Next
<1>2. up
  BY DEF EngineStep, CountClose, FinishTrip, TakeSignal, DecideAfterFlip, ReportFill,
         TakeMark, Age, ResetBreakers, Kill, At
<1> QED BY <1>1, <1>2

LEMMA EngineStepStore ==
    ASSUME StoreInv, EngineStep
    PROVE  StoreInv'
<1> USE DEF StoreInv
<1>1. Next /\ up /\ UNCHANGED <<subscribed, inbox, storing, rows, tuples, boot, closes, former>>
  BY EngineStepNext DEF storeVars
<1>2. Inv' /\ Lives' /\ Moves /\ Tells /\ (up' => up)
  <2>1. ~Restart
    BY <1>1 DEF Restart
  <2> QED BY <1>1, <2>1, StepInv, StepLives, StepKinds, StepTells
<1>3. StoreTypeOK' /\ Boots' /\ Booked'
  <2>1. former' \in 0 .. sent'
    BY <1>1, <1>2, EngineAssumption DEF StoreTypeOK, Moves, Inv, TypeOK
  <2> QED BY <1>1, <2>1 DEF StoreTypeOK, Boots, Booked
<1>4. RowsFollow'
  BY <1>1, <1>2 DEF RowsFollow, Moves
<1>5. ASSUME NEW m \in Message, Agrees(m, status, rows)
      PROVE  Agrees(m, status', rows')
  BY <1>1, <1>2, <1>5 DEF Agrees, Moves, Message
<1>6. inbox \in Seq(Message) /\ wire \in [Tasks -> Message \cup {Null}]
      /\ wire' \in [Tasks -> Message \cup {Null}]
  BY <1>2 DEF StoreTypeOK, Inv, TypeOK
<1>7. \A k \in 1 .. Len(inbox) : inbox[k] \in Message
  BY <1>6
<1>8. ASSUME NEW t \in Tasks, wire'[t] # Null, up' PROVE Agrees(wire'[t], status', rows')
  <2>1. CASE wire'[t] = wire[t]
    BY <1>1, <1>5, <1>6, <1>8, <2>1 DEF Messages
  <2>2. CASE Aside(wire'[t])
    BY <1>8, <2>2 DEF Aside, TradeTopics, Agrees
  <2>3. CASE /\ wire'[t].chan = "trade.executed" /\ status'[wire'[t].cid] = "live"
    BY <2>3 DEF Agrees
  <2>4. CASE /\ wire'[t].chan = "trade.closed" /\ status'[wire'[t].cid] = "closed"
             /\ status[wire'[t].cid] = "live"
    <3>1. wire'[t].cid \in Cids
      BY <1>6, <1>8 DEF Message
    <3>2. rows[wire'[t].cid] # "closed"
      BY <1>1, <2>4, <3>1 DEF RowsFollow
    <3> QED BY <1>1, <2>4, <3>2 DEF Agrees
  <2> QED BY <1>2, <2>1, <2>2, <2>3, <2>4 DEF Tells, NothingSaid, Says
<1>9. Messages'
  BY <1>1, <1>5, <1>7, <1>8 DEF Messages
<1>10. Once'
  <2>1. ASSUME NothingSaid PROVE \A t \in Tasks : Told(wire'[t]) => wire'[t] = wire[t]
    BY <2>1 DEF NothingSaid, Aside, TradeTopics, Told
  <2>2. CASE \A t \in Tasks : Told(wire'[t]) => wire'[t] = wire[t]
    BY <1>1, <2>2 DEF Once, Told
  <2>3. ASSUME NEW t \in Tasks, NEW c \in Cids, Says(t, "trade.closed", c), status[c] = "live"
        PROVE  Once'
    <3>1. wire'[t].cid = c /\ \A u \in Tasks \ {t} : wire'[u] = wire[u]
      BY <2>3 DEF Says
    <3>2. \A k \in 1 .. Len(inbox) : Told(inbox[k]) => inbox[k].cid # c
      BY <2>3 DEF Messages, Agrees, Told
    <3>3. \A u \in Tasks \ {t} : Told(wire[u]) => wire[u].cid # c
      BY <1>1, <2>3 DEF Messages, Agrees, Told
    <3> QED BY <1>1, <3>1, <3>2, <3>3 DEF Once, Told
  <2>4. ASSUME NEW t \in Tasks, NEW c \in Cids, Says(t, "trade.executed", c)
        PROVE  \A u \in Tasks : Told(wire'[u]) => wire'[u] = wire[u]
    BY <2>4 DEF Says, Told
  <2> QED BY <1>2, <2>1, <2>2, <2>3, <2>4 DEF Tells
<1>11. Past'
  <2>1. \A c \in Cids : c <= former' =>
           rows'[c] # "open" /\ status'[c] \in {"vetoed", "skipped", "closed", "lost"}
    BY <1>1, <1>2 DEF Past, Moves
  <2>2. \A c \in Cids : status[c] = "live" \/ status'[c] = "live" => c > former
    <3>1. former \in Int /\ former' = former /\ \A c \in Cids : c \in Int
      BY <1>1, EngineAssumption DEF StoreTypeOK, Inv, TypeOK, Cids
    <3>2. \A c \in Cids : ~(c <= former) => c > former
      BY <3>1
    <3> QED BY <1>1, <2>1, <3>1, <3>2 DEF Past
  <2>3. ASSUME NEW t \in Tasks, ~Aside(wire'[t]) PROVE wire'[t].cid > former
    BY <1>1, <1>2, <2>2, <2>3 DEF Past, Tells, NothingSaid, Says
  <2> QED BY <1>1, <2>1, <2>3 DEF Past
<1> QED BY <1>2, <1>3, <1>4, <1>9, <1>10, <1>11

-----------------------------------------------------------------------------
(* Steps of the bus, the subscriber and the boot.                          *)

LEMMA TailFacts ==
    ASSUME NEW S, NEW q \in Seq(S), q # <<>>
    PROVE  /\ Head(q) = q[1] /\ 1 \in 1 .. Len(q) /\ q[1] \in S
           /\ Tail(q) \in Seq(S)
           /\ \A k \in 1 .. Len(Tail(q)) : k + 1 \in 1 .. Len(q) /\ Tail(q)[k] = q[k + 1]
OBVIOUS

LEMMA AppendFacts ==
    ASSUME NEW S, NEW q \in Seq(S), NEW m \in S
    PROVE  /\ Append(q, m) \in Seq(S) /\ Len(Append(q, m)) = Len(q) + 1
           /\ \A k \in 1 .. Len(q) : Append(q, m)[k] = q[k]
           /\ Append(q, m)[Len(q) + 1] = m
OBVIOUS

LEMMA SameEngine ==
    ASSUME Inv, Lives, UNCHANGED vars
    PROVE  Inv' /\ Lives'
BY StepInv, StepLives

LEMMA DeliverStore ==
    ASSUME StoreInv, NEW t \in Tasks, Deliver2(t)
    PROVE  StoreInv'
<1> USE DEF StoreInv
<1>1. /\ wire[t] # Null /\ wire' = [wire EXCEPT ![t] = Null]
      /\ UNCHANGED <<up, sent, status, subscribed, storing, rows, tuples, boot, closes, former>>
      /\ inbox \in Seq(Message) /\ wire \in [Tasks -> Message \cup {Null}]
      /\ wire[t] \in Message
  BY DEF Deliver2, Deliver, historyVars, StoreTypeOK, Inv, TypeOK
<1>2. Inv' /\ Lives'
  BY StepInv, StepLives DEF Deliver2, Next
<1>3. RowsFollow' /\ Booked'
  BY <1>1 DEF RowsFollow, Booked
<1>4. CASE inbox' = inbox
  <2>1. StoreTypeOK' /\ Boots'
    BY <1>1, <1>4 DEF StoreTypeOK, Boots
  <2>2. \A u \in Tasks : wire'[u] # Null => wire'[u] = wire[u] /\ u # t
    BY <1>1
  <2>3. Messages' /\ Once' /\ Past'
    BY <1>1, <1>4, <2>2 DEF Messages, Once, Told, Past, Aside
  <2> QED BY <1>2, <1>3, <2>1, <2>3
<1>5. CASE up /\ wire[t].chan \in TradeTopics /\ inbox' = Append(inbox, wire[t])
  <2> DEFINE m == wire[t]
             n == Len(inbox) + 1
  <2>1. /\ inbox' \in Seq(Message) /\ Len(inbox') = n /\ inbox'[n] = m
        /\ \A k \in 1 .. Len(inbox) : inbox'[k] = inbox[k]
        /\ \A k \in 1 .. Len(inbox') : k = n \/ k \in 1 .. Len(inbox)
    BY <1>1, <1>5, AppendFacts
  <2>2. Agrees(m, status, rows)
    BY <1>1, <1>5 DEF Messages
  <2>3. \A u \in Tasks : wire'[u] # Null => wire'[u] = wire[u] /\ u # t
    BY <1>1
  <2>4. boot = Null
    BY <1>5 DEF Boots
  <2>5. StoreTypeOK' /\ Boots'
    BY <1>1, <2>1, <2>4 DEF StoreTypeOK, Boots
  <2>6. Messages'
    BY <1>1, <1>5, <2>1, <2>2, <2>3 DEF Messages
  <2>7. \A k \in 1 .. Len(inbox) : Told(m) /\ Told(inbox[k]) => inbox[k].cid # m.cid
    BY <1>5 DEF Once
  <2>8. \A u \in Tasks \ {t} : Told(m) /\ Told(wire[u]) => wire[u].cid # m.cid
    BY <1>5 DEF Once
  <2>13. Past'
    <3>1. m.cid > former
      BY <1>1, <1>5 DEF Past, Aside
    <3> QED BY <1>1, <2>1, <2>3, <3>1 DEF Past, Aside
  <2> HIDE DEF m
  <2>9. \A j, k \in 1 .. Len(inbox') :
           j # k /\ Told(inbox'[j]) /\ Told(inbox'[k]) => inbox'[j].cid # inbox'[k].cid
    BY <2>1, <2>7 DEF Once
  <2>10. \A u \in Tasks : Told(wire'[u]) => Told(wire[u]) /\ wire'[u] = wire[u] /\ u # t
    BY <2>3 DEF Told
  <2>11. \A u \in Tasks : Told(wire'[u]) =>
            /\ \A k \in 1 .. Len(inbox') : Told(inbox'[k]) => inbox'[k].cid # wire'[u].cid
            /\ \A v \in Tasks \ {u} : Told(wire'[v]) => wire'[v].cid # wire'[u].cid
    BY <1>5, <2>1, <2>8, <2>10 DEF Once
  <2>12. Once'
    BY <2>9, <2>11 DEF Once, Told
  <2> QED BY <1>2, <1>3, <2>5, <2>6, <2>12, <2>13
<1> QED BY <1>4, <1>5 DEF Deliver2

\* The subscriber drops the head of its inbox and closes no row of a message behind it.
LEMMA InboxShrinks ==
    ASSUME StoreInv, UNCHANGED <<up, sent, status, wire>>, inbox # <<>>, inbox' = Tail(inbox),
           \A m \in Message :
               Told(m) /\ rows[m.cid] # "closed" /\ rows'[m.cid] = "closed"
                   => Told(Head(inbox)) /\ Head(inbox).cid = m.cid
    PROVE  /\ Messages' /\ Once' /\ inbox' \in Seq(Message)
           /\ \A k \in 1 .. Len(inbox') : inbox'[k].cid > former
<1> USE DEF StoreInv
<1>1. /\ inbox \in Seq(Message) /\ inbox' \in Seq(Message) /\ Head(inbox) = inbox[1]
      /\ 1 \in 1 .. Len(inbox)
      /\ \A k \in 1 .. Len(inbox') : k + 1 \in 1 .. Len(inbox) /\ inbox'[k] = inbox[k + 1]
  BY TailFacts DEF StoreTypeOK
<1>2. \A k \in 1 .. Len(inbox') : k \in Nat \ {0}
  OBVIOUS
<1>3. \A k \in 1 .. Len(inbox) : inbox[k] \in Message
  BY <1>1
<1>4. \A t \in Tasks : wire[t] # Null => wire[t] \in Message
  BY DEF Inv, TypeOK
<1>5. Messages'
  <2>1. ASSUME NEW k \in 1 .. Len(inbox')
        PROVE  inbox'[k].chan \in TradeTopics /\ Agrees(inbox'[k], status', rows')
    <3> DEFINE m == inbox[k + 1]
    <3>1. inbox'[k] = m /\ m \in Message /\ m.chan \in TradeTopics /\ Agrees(m, status, rows)
      BY <1>1, <1>3 DEF Messages
    <3>2. Told(m) /\ Told(inbox[1]) => inbox[1].cid # m.cid
      BY <1>1, <1>2 DEF Once
    <3>3. m # Null
      BY <3>1, NullAssumption
    <3> HIDE DEF m
    <3> QED BY <1>1, <3>1, <3>2, <3>3 DEF Agrees, Told
  <2>2. ASSUME up, NEW t \in Tasks, wire[t] # Null
        PROVE  Agrees(wire[t], status', rows')
    <3>1. Agrees(wire[t], status, rows) /\ wire[t] \in Message
      BY <1>4, <2>2 DEF Messages
    <3>2. Told(wire[t]) /\ Told(inbox[1]) => inbox[1].cid # wire[t].cid
      BY <1>1, <2>2 DEF Once
    <3> QED BY <1>1, <2>2, <3>1, <3>2 DEF Agrees, Told
  <2> QED BY <2>1, <2>2 DEF Messages
<1>6. Once'
  <2>1. \A j, k \in 1 .. Len(inbox') :
           j # k /\ Told(inbox'[j]) /\ Told(inbox'[k]) => inbox'[j].cid # inbox'[k].cid
    BY <1>1, <1>2 DEF Once
  <2>2. \A t \in Tasks, k \in 1 .. Len(inbox') :
           up /\ Told(wire[t]) /\ Told(inbox'[k]) => inbox'[k].cid # wire[t].cid
    BY <1>1 DEF Once
  <2> QED BY <2>1, <2>2 DEF Once, Told
<1>7. \A k \in 1 .. Len(inbox') : inbox'[k].cid > former
  BY <1>1 DEF Past
<1> QED BY <1>1, <1>5, <1>6, <1>7

LEMMA StoreOpenStore ==
    ASSUME StoreInv, StoreOpen
    PROVE  StoreInv'
<1> USE DEF StoreInv
<1> DEFINE m == Head(inbox)
           c == m.cid
<1>1. /\ up /\ inbox # <<>> /\ inbox' = Tail(inbox) /\ storing' = c /\ m.chan = "trade.executed"
      /\ rows' = [rows EXCEPT ![c] = IF @ = "none" THEN "open" ELSE @]
      /\ UNCHANGED <<vars, subscribed, tuples, boot, closes, former>>
  BY DEF StoreOpen, Consuming
<1>2. UNCHANGED <<up, sent, status, wire>>
  BY <1>1 DEF vars, engineVars, historyVars
<1>3. m \in Message /\ c \in Cids /\ status[c] \in {"live", "closed"}
  <2>1. m = inbox[1] /\ 1 \in 1 .. Len(inbox) /\ m \in Message
    BY <1>1, TailFacts DEF StoreTypeOK
  <2> QED BY <1>1, <2>1 DEF Messages, Agrees, Message
<1> HIDE DEF m
<1>4. rows \in [Cids -> {"none", "open", "closed"}] /\ \A d \in Cids : rows'[d] = "closed" <=> rows[d] = "closed"
  BY <1>1, <1>3 DEF StoreTypeOK
<1>5. Inv' /\ Lives'
  BY <1>1, SameEngine
<1>6. /\ Messages' /\ Once' /\ inbox' \in Seq(Message)
      /\ \A k \in 1 .. Len(inbox') : inbox'[k].cid > former
  BY <1>1, <1>2, <1>4, InboxShrinks DEF Message
<1>7. StoreTypeOK'
  BY <1>1, <1>2, <1>3, <1>4, <1>6 DEF StoreTypeOK
<1>8. Boots'
  BY <1>1 DEF Boots
<1>9. RowsFollow'
  BY <1>1, <1>2, <1>3, <1>4 DEF RowsFollow
<1>10. Booked'
  BY <1>1, <1>4 DEF Booked
<1>11. Past'
  <2>1. c > former
    <3>1. m = inbox[1] /\ 1 \in 1 .. Len(inbox)
      BY <1>1, TailFacts DEF StoreTypeOK, m
    <3> QED BY <3>1 DEF Past
  <2>2. ~(c <= former)
    BY <1>3, <2>1, EngineAssumption DEF StoreTypeOK, Inv, TypeOK, Cids
  <2> QED BY <1>1, <1>2, <1>4, <1>6, <2>2 DEF Past
<1> QED BY <1>5, <1>6, <1>7, <1>8, <1>9, <1>10, <1>11

LEMMA StoreCloseStore ==
    ASSUME StoreInv, StoreClose
    PROVE  StoreInv'
<1> USE DEF StoreInv
<1> DEFINE m == Head(inbox)
           c == m.cid
           found == RowsOf(m)
<1>1. /\ up /\ inbox # <<>> /\ inbox' = Tail(inbox) /\ m.chan = "trade.closed"
      /\ rows' = [d \in Cids |-> IF d \in found THEN "closed" ELSE rows[d]]
      /\ closes' = [d \in Cids |-> IF d \in found THEN closes[d] + 1 ELSE closes[d]]
      /\ UNCHANGED <<vars, subscribed, storing, tuples, boot, former>>
  BY DEF StoreClose, Consuming
<1>2. UNCHANGED <<up, sent, status, wire>>
  BY <1>1 DEF vars, engineVars, historyVars
<1>3. m \in Message /\ c \in Cids /\ m # Null /\ status[c] = "closed" /\ rows[c] # "closed"
  <2>1. m = inbox[1] /\ 1 \in 1 .. Len(inbox) /\ m \in Message
    BY <1>1, TailFacts DEF StoreTypeOK
  <2> QED BY <1>1, <2>1, NullAssumption DEF Messages, Agrees, Message
<1>4. found \subseteq {c} /\ \A d \in found : rows[d] # "none"
  BY DEF RowsOf
<1> HIDE DEF m, found
<1>5. Inv' /\ Lives'
  BY <1>1, SameEngine
<1>6. /\ Messages' /\ Once' /\ inbox' \in Seq(Message)
      /\ \A k \in 1 .. Len(inbox') : inbox'[k].cid > former
  <2>1. ASSUME NEW n \in Message, rows[n.cid] # "closed", rows'[n.cid] = "closed"
        PROVE  n.cid = c
    BY <1>1, <1>4, <2>1 DEF Message
  <2> QED BY <1>1, <1>2, <1>3, <2>1, InboxShrinks DEF Told, m
<1>7. StoreTypeOK'
  BY <1>1, <1>2, <1>6 DEF StoreTypeOK
<1>8. Boots'
  BY <1>1 DEF Boots
<1>9. RowsFollow'
  BY <1>1, <1>2, <1>3, <1>4 DEF RowsFollow
<1>10. Booked'
  BY <1>1, <1>3, <1>4 DEF Booked
<1>11. Past'
  BY <1>1, <1>2, <1>6 DEF Past
<1> QED BY <1>5, <1>6, <1>7, <1>8, <1>9, <1>10, <1>11

LEMMA OtherStore ==
    ASSUME StoreInv, Subscribe \/ StoreTuple \/ StoreFails
    PROVE  StoreInv'
<1> USE DEF StoreInv
<1>1. UNCHANGED <<vars, rows, boot, closes, former>> /\ up
  BY DEF Subscribe, StoreTuple, StoreFails, Consuming
<1>2. UNCHANGED <<up, sent, status, wire>>
  BY <1>1 DEF vars, engineVars, historyVars
<1>3. Inv' /\ Lives' /\ RowsFollow' /\ Booked' /\ Boots'
  BY <1>1, <1>2, SameEngine DEF RowsFollow, Booked, Boots
<1>4. CASE inbox' = inbox
  <2>1. StoreTypeOK'
    BY <1>1, <1>2, <1>4 DEF StoreTypeOK, Subscribe, StoreTuple, StoreFails
  <2>2. Messages' /\ Once' /\ Past'
    BY <1>1, <1>2, <1>4 DEF Messages, Once, Told, Past
  <2> QED BY <1>3, <2>1, <2>2
<1>5. CASE inbox # <<>> /\ inbox' = Tail(inbox) /\ UNCHANGED <<subscribed, storing, tuples>>
  <2>1. /\ Messages' /\ Once' /\ inbox' \in Seq(Message)
        /\ \A k \in 1 .. Len(inbox') : inbox'[k].cid > former
    BY <1>1, <1>2, <1>5, InboxShrinks
  <2>2. StoreTypeOK' /\ Past'
    BY <1>1, <1>2, <1>5, <2>1 DEF StoreTypeOK, Past
  <2> QED BY <1>3, <2>1, <2>2
<1> QED BY <1>4, <1>5 DEF Subscribe, StoreTuple, StoreFails, Consuming

LEMMA BootStore ==
    ASSUME StoreInv, BootFetch \/ (\E c \in Cids : BootClose(c)) \/ BootFails
    PROVE  StoreInv'
<1> USE DEF StoreInv
<1>1. ~up /\ UNCHANGED vars
  BY DEF BootFetch, BootClose, BootFails
<1>2. UNCHANGED <<up, sent, status, wire>>
  BY <1>1 DEF vars, engineVars, historyVars
<1>3. Inv' /\ Lives'
  BY <1>1, SameEngine
<1>4. CASE BootFetch
  <2>1. inbox' = <<>> /\ inbox' \in Seq(Message) /\ storing' = Null /\ subscribed' = FALSE
        /\ boot' = {c \in Cids : rows[c] = "open"} /\ UNCHANGED <<rows, tuples, closes, former>>
    <3>1. inbox' = <<>> /\ <<>> \in Seq(Message)
      BY <1>4 DEF BootFetch
    <3> QED BY <1>4, <3>1 DEF BootFetch
  <2>2. StoreTypeOK'
    BY <1>2, <2>1 DEF StoreTypeOK
  <2>3. Boots' /\ RowsFollow' /\ Booked'
    BY <1>1, <1>2, <2>1 DEF Boots, RowsFollow, Booked
  <2>4. Messages' /\ Once' /\ Past'
    BY <1>1, <1>2, <2>1 DEF Messages, Once, Past
  <2> QED BY <1>3, <2>2, <2>3, <2>4
<1>5. ASSUME NEW c \in Cids, BootClose(c) PROVE StoreInv'
  <2>1. /\ c \in boot /\ rows[c] = "open" /\ inbox = <<>> /\ boot # Null /\ boot \subseteq Cids
        /\ boot' = boot \ {c} /\ rows' = [rows EXCEPT ![c] = "closed"]
        /\ closes' = [closes EXCEPT ![c] = closes[c] + 1]
        /\ UNCHANGED <<subscribed, inbox, storing, tuples, former>>
        /\ rows \in [Cids -> {"none", "open", "closed"}] /\ closes \in [Cids -> Nat]
    BY <1>5 DEF BootClose, Boots, StoreTypeOK
  <2>2. StoreTypeOK'
    BY <1>2, <2>1 DEF StoreTypeOK
  <2>3. Boots' /\ RowsFollow' /\ Booked'
    BY <1>1, <1>2, <2>1 DEF Boots, RowsFollow, Booked
  <2>4. Messages' /\ Once' /\ Past'
    BY <1>1, <1>2, <2>1 DEF Messages, Once, Past
  <2> QED BY <1>3, <2>2, <2>3, <2>4
<1>6. CASE BootFails
  <2>1. UNCHANGED <<subscribed, inbox, storing, rows, tuples, closes, former>> /\ boot' = Null
    BY <1>6 DEF BootFails
  <2>2. StoreTypeOK' /\ Boots' /\ RowsFollow' /\ Booked' /\ Messages' /\ Once' /\ Past'
    BY <1>1, <1>2, <2>1 DEF StoreTypeOK, Boots, RowsFollow, Booked, Messages, Once, Past
  <2> QED BY <1>3, <2>2
<1> QED BY <1>4, <1>5, <1>6

LEMMA BootDoneStore ==
    ASSUME StoreInv, BootDone
    PROVE  StoreInv'
<1> USE DEF StoreInv
<1>1. /\ boot = {} /\ Restart /\ boot' = Null /\ former' = sent /\ sent' = sent
      /\ UNCHANGED <<subscribed, inbox, storing, rows, tuples, closes>>
  BY DEF BootDone, Restart
<1>2. boot # Null
  BY <1>1, StoreAssumption
<1>3. Inv' /\ Lives'
  BY <1>1, StepInv, StepLives DEF Next
<1>4. inbox = <<>> /\ \A c \in Cids : rows[c] # "open"
  BY <1>1, <1>2 DEF Boots
<1>5. StoreTypeOK' /\ Boots' /\ Booked'
  BY <1>1, EngineAssumption DEF StoreTypeOK, Boots, Booked, Inv, TypeOK
<1>6. RowsFollow'
  BY <1>1, <1>4 DEF RowsFollow, Restart
<1>7. Messages' /\ Once'
  BY <1>1, <1>4 DEF Messages, Once, Restart, Told
<1>8. Past'
  <2>1. \A c \in Cids : c <= sent => status[c] # "unsent"
    BY EngineAssumption DEF Lives, InOrder, Inv, TypeOK, Cids
  <2>2. \A c \in Cids : c <= sent => status'[c] \in {"vetoed", "skipped", "closed", "lost"}
    BY <1>1, <2>1 DEF Restart, Inv, TypeOK
  <2>3. \A t \in Tasks : Aside(wire'[t])
    BY <1>1 DEF Restart, Aside
  <2> QED BY <1>1, <1>4, <2>2, <2>3 DEF Past
<1> QED BY <1>3, <1>5, <1>6, <1>7, <1>8

LEMMA InitStore == StoreInit => StoreInv
<1> SUFFICES ASSUME StoreInit PROVE StoreInv
  OBVIOUS
<1>1. Inv /\ Lives
  BY InitInv, InitLives DEF StoreInit
<1>2. StoreTypeOK
  <2>1. <<>> \in Seq(Message)
    OBVIOUS
  <2>2. inbox \in Seq(Message)
    BY <2>1 DEF StoreInit
  <2>3. former \in 0 .. sent
    BY DEF StoreInit, Init
  <2> QED BY <2>2, <2>3 DEF StoreInit, StoreTypeOK
<1>3. Boots /\ RowsFollow /\ Booked
  BY DEF StoreInit, Boots, RowsFollow, Booked
<1>4. Messages /\ Once
  BY DEF StoreInit, Init, Messages, Once, Told, Tasks
<1>5. Past
  <2>1. \A t \in Tasks : Aside(wire[t])
    BY DEF StoreInit, Init, Aside
  <2>2. \A c \in Cids : rows[c] # "open" /\ ~(c <= former)
    BY EngineAssumption DEF StoreInit, Cids
  <2>3. \A k \in 1 .. Len(inbox) : FALSE
    BY DEF StoreInit
  <2> QED BY <2>1, <2>2, <2>3 DEF Past
<1> QED BY <1>1, <1>2, <1>3, <1>4, <1>5 DEF StoreInv

LEMMA StepStore == StoreInv /\ [StoreNext]_allVars => StoreInv'
<1> SUFFICES ASSUME StoreInv, [StoreNext]_allVars PROVE StoreInv'
  OBVIOUS
<1>1. CASE UNCHANGED allVars
  <2>1. UNCHANGED <<vars, up, sent, status, wire>> /\ UNCHANGED <<subscribed, inbox, storing, rows, tuples, boot, closes, former>>
    BY <1>1 DEF allVars, storeVars, vars, engineVars, historyVars
  <2>2. Inv' /\ Lives'
    BY <2>1, SameEngine DEF StoreInv
  <2> QED BY <2>1, <2>2 DEF StoreInv, StoreTypeOK, Boots, RowsFollow, Past, Messages, Once, Booked, Told
<1> QED BY <1>1, EngineStepStore, DeliverStore, StoreOpenStore, StoreCloseStore, OtherStore,
           BootStore, BootDoneStore DEF StoreNext

LEMMA StoreInvHolds == StoreSpec => []StoreInv
BY InitStore, StepStore, PTL DEF StoreSpec

\* The subscriber, the tables and the boot keep their types.
THEOREM StoreTypes == StoreSpec => []StoreTypeOK
<1>1. StoreInv => StoreTypeOK
  BY DEF StoreInv
<1> QED BY <1>1, StoreInvHolds, PTL

\* The row of a trade the engine holds is never closed, whatever the bus loses or reorders
\* and wherever a boot is cut short.
THEOREM RowClosedOnlyAfterTradeHolds == StoreSpec => []RowClosedOnlyAfterTrade
<1>1. StoreInv => RowClosedOnlyAfterTrade
  BY DEF StoreInv, StoreTypeOK, RowsFollow, RowClosedOnlyAfterTrade
<1> QED BY <1>1, StoreInvHolds, PTL

\* No exit is booked twice, by the subscriber, the orphan pass or both.
THEOREM RowClosedOnceHolds == StoreSpec => []RowClosedOnce
<1>1. StoreInv => RowClosedOnce
  BY DEF StoreInv, Booked, RowClosedOnce
<1> QED BY <1>1, StoreInvHolds, PTL

\* A finished boot leaves no open row of a former session, be its trade lost or closed,
\* and none appears later.
THEOREM NoOrphanOnceUpHolds == StoreSpec => []NoOrphanOnceUp
<1>1. StoreInv => NoOrphanOnceUp
  BY DEF StoreInv, Past, NoOrphanOnceUp
<1> QED BY <1>1, StoreInvHolds, PTL
=============================================================================
