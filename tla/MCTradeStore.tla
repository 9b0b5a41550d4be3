----------------------------- MODULE MCTradeStore -----------------------------
(* Small instances of TradeStore; amounts as in MCPaperEngine.               *)
EXTENDS TradeStore

CONSTANTS BTC

\* what the Director sends for a close of 1000: stop 2 %, target 4 %, leverage 5
Long == [sym |-> BTC, side |-> "LONG", size |-> 45000, lev |-> 5,
         entry |-> Null, sl |-> 980, tp |-> 1040]
Short == [Long EXCEPT !.side = "SHORT", !.sl = 1020, !.tp = 960]

BothSides == {Long, Short}
LongOnly == {Long}

StorePrices == {900, 1000}
LiteralReasons == {"sl", "tp", "liq", "manual"}
=============================================================================
