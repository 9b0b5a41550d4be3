------------------------------ MODULE TradeStore ------------------------------
(***************************************************************************)
(* The paper engine together with the storage side of a trade: the bus     *)
(* (pub/sub, at most once), StorageSubscriber._consume_trades              *)
(* (storage/subscriber.py), the `trades` and `rl_tuples` rows              *)
(* (storage/postgres.py) and the orphan pass of main.py at boot.           *)
(*                                                                         *)
(* The subscriber is a third coroutine of the engine's process: it dies    *)
(* with it, and what the bus had handed to it is lost.                     *)
(***************************************************************************)
EXTENDS PaperEngine, Sequences

CONSTANTS
    StoreMayFail    \* may a database statement raise?

ASSUME StoreAssumption ==
    /\ StoreMayFail \in BOOLEAN
    /\ \A rows \in SUBSET Cids : rows # Null   \* a set of rows is not "not booting"

VARIABLES
    subscribed,  \* has psubscribe("trade.*") been confirmed?
    inbox,       \* messages handed to the subscriber and not yet consumed
    storing,     \* the id whose rl_tuple insert is next, or Null
    rows,        \* trades: "none", "open" or "closed", by correlation_id
    tuples,      \* ids whose rl_tuple row exists
    boot,        \* rows the orphan pass has yet to close; Null: not booting
    closes,      \* history: how often the row was closed
    former       \* history: the signals taken by former sessions, 1 .. former

storeVars == <<subscribed, inbox, storing, rows, tuples, boot, closes, former>>
allVars == <<vars, storeVars>>

TradeTopics == {"trade.executed", "trade.closed"}

StoreInit ==
    /\ Init
    /\ subscribed = FALSE
    /\ inbox = <<>>
    /\ storing = Null
    /\ rows = [c \in Cids |-> "none"]
    /\ tuples = {}
    /\ boot = Null
    /\ closes = [c \in Cids |-> 0]
    /\ former = 0

-----------------------------------------------------------------------------
(* The bus.                                                                *)

\* PUBLISH reaches the server: whoever is subscribed gets a copy
Deliver2(t) ==
    /\ Deliver(t)
    /\ inbox' = IF up /\ subscribed /\ wire[t].chan \in TradeTopics
                THEN Append(inbox, wire[t]) ELSE inbox
    /\ UNCHANGED <<subscribed, storing, rows, tuples, boot, closes, former>>

Subscribe ==
    /\ up /\ ~subscribed
    /\ subscribed' = TRUE
    /\ UNCHANGED <<vars, inbox, storing, rows, tuples, boot, closes, former>>

-----------------------------------------------------------------------------
(* _consume_trades; an exception is logged and the message is dropped.     *)

Consuming == up /\ storing = Null /\ inbox # <<>>

\* INSERT ... ON CONFLICT (correlation_id) DO NOTHING
StoreOpen ==
    /\ Consuming /\ Head(inbox).chan = "trade.executed"
    /\ LET c == Head(inbox).cid
       IN  /\ rows' = [rows EXCEPT ![c] = IF @ = "none" THEN "open" ELSE @]
           /\ storing' = c
    /\ inbox' = Tail(inbox)
    /\ UNCHANGED <<vars, subscribed, tuples, boot, closes, former>>

\* the second statement of the same message
\* (a mutant: without a message in hand)
StoreTupleAlways ==
    /\ up
    /\ tuples' = tuples \cup {storing}
    /\ storing' = Null
    /\ UNCHANGED <<vars, subscribed, inbox, rows, boot, closes, former>>
StoreTuple ==
    /\ up /\ storing # Null
    /\ tuples' = tuples \cup {storing}
    /\ storing' = Null
    /\ UNCHANGED <<vars, subscribed, inbox, rows, boot, closes, former>>

\* which rows the UPDATE of a close finds: WHERE correlation_id, if there is such a
\* row (mutants: the open rows of its symbol, all rows of its symbol)
RowsOfSymbol(m) == {c \in Cids : rows[c] = "open"}
RowsEver(m) == {c \in Cids : rows[c] # "none"}
RowsOf(m) == {c \in Cids : c = m.cid /\ rows[c] # "none"}

\* the UPDATE has no guard on closed_ts
StoreClose ==
    /\ Consuming /\ Head(inbox).chan = "trade.closed"
    /\ LET found == RowsOf(Head(inbox)) IN
       /\ rows' = [c \in Cids |-> IF c \in found THEN "closed" ELSE rows[c]]
       /\ closes' = [c \in Cids |-> IF c \in found THEN closes[c] + 1 ELSE closes[c]]
    /\ inbox' = Tail(inbox)
    /\ UNCHANGED <<vars, subscribed, storing, tuples, boot, former>>

\* the first statement raises, or the second does
StoreFails ==
    /\ StoreMayFail
    /\ \/ Consuming /\ inbox' = Tail(inbox) /\ UNCHANGED storing
       \/ up /\ storing # Null /\ storing' = Null /\ UNCHANGED inbox
    /\ UNCHANGED <<vars, subscribed, rows, tuples, boot, closes, former>>

-----------------------------------------------------------------------------
(* main.py: the orphan pass runs before any task is created.               *)

\* close_orphan_positions fetches the rows with closed_ts IS NULL ...
BootFetch ==
    /\ ~up /\ boot = Null
    /\ boot' = {c \in Cids : rows[c] = "open"}
    /\ subscribed' = FALSE /\ inbox' = <<>> /\ storing' = Null
    /\ UNCHANGED <<vars, rows, tuples, closes, former>>

\* ... and updates them one by one, AND closed_ts IS NULL
BootClose(c) ==
    /\ ~up /\ boot # Null /\ c \in boot
    /\ boot' = boot \ {c}
    /\ rows' = [rows EXCEPT ![c] = "closed"]
    /\ closes' = [closes EXCEPT ![c] = IF rows[c] = "open" THEN @ + 1 ELSE @]
    /\ UNCHANGED <<vars, subscribed, inbox, storing, tuples, former>>

\* a statement raises, or the container is killed, before the pass is done
BootFails ==
    /\ ~up /\ boot # Null /\ (MayBeKilled \/ StoreMayFail)
    /\ boot' = Null
    /\ UNCHANGED <<vars, subscribed, inbox, storing, rows, tuples, closes, former>>

\* the pass is done: the engine and the subscriber start
\* (a mutant: they do not wait for it)
BootDoneAnyway ==
    /\ boot # Null
    /\ Restart
    /\ boot' = Null
    /\ former' = sent
    /\ UNCHANGED <<subscribed, inbox, storing, rows, tuples, closes>>
BootDone ==
    /\ boot = {}
    /\ Restart
    /\ boot' = Null
    /\ former' = sent
    /\ UNCHANGED <<subscribed, inbox, storing, rows, tuples, closes>>

-----------------------------------------------------------------------------

\* every step of the engine but those the storage side takes part in
EngineStep ==
    /\ \/ \E t \in Tasks : CountClose(t) \/ FinishTrip(t)
       \/ \E g \in Signals : TakeSignal(g)
       \/ DecideAfterFlip \/ ReportFill
       \/ \E s \in SymbolList, px \in Prices : TakeMark(s, px)
       \/ \E s \in Symbols : Age(s)
       \/ ResetBreakers \/ Kill
    /\ UNCHANGED storeVars

StoreNext ==
    \/ EngineStep
    \/ \E t \in Tasks : Deliver2(t)
    \/ Subscribe \/ StoreOpen \/ StoreTuple \/ StoreClose \/ StoreFails
    \/ BootFetch \/ (\E c \in Cids : BootClose(c)) \/ BootFails \/ BootDone

StoreSpec == StoreInit /\ [][StoreNext]_allVars

-----------------------------------------------------------------------------
(* Properties.                                                             *)

StoreTypeOK ==
    /\ subscribed \in BOOLEAN
    /\ inbox \in Seq(Message)
    /\ storing \in Cids \cup {Null}
    /\ rows \in [Cids -> {"none", "open", "closed"}]
    /\ tuples \subseteq Cids
    /\ boot = Null \/ boot \subseteq Cids
    /\ closes \in [Cids -> Nat]
    /\ former \in 0 .. sent

\* A row is never closed while the engine holds its trade: the dashboard does not
\* lose a live position.
RowClosedOnlyAfterTrade ==
    up => \A c \in Cids : rows[c] = "closed" => status[c] \notin {"taken", "live"}

\* The exit is booked once: update_trade_close adds the exit fee to `fees`, without
\* a guard on closed_ts, and the orphan pass closes rows too.
RowClosedOnce == \A c \in Cids : closes[c] <= 1

\* Once the engine is up again, no row of a former session is open, whether its trade
\* was live when the process ended or closed with its trade.closed message lost, and
\* however often the boot was interrupted; and no message opens one later.
NoOrphanOnceUp ==
    up => \A c \in Cids : c <= former => rows[c] # "open"

Quiet ==
    /\ up /\ inbox = <<>> /\ storing = Null
    /\ \A t \in Tasks : pc[t] = "loop" /\ wire[t] = Null

\* With every message handled, no row of a trade the engine has closed is still open.
ClosureReachesRow ==
    Quiet => \A c \in Cids : status[c] = "closed" => rows[c] # "open"
=============================================================================
