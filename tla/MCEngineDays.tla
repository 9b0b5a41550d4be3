----------------------------- MODULE MCEngineDays -----------------------------
(* One symbol, longs that are stopped out; amounts as in MCPaperEngine.      *)
EXTENDS EngineDays

CONSTANTS BTC

\* filled at 1000 and stopped at 820: one such loss is 1.6 % of the balance
Long == [sym |-> BTC, side |-> "LONG", size |-> 45000, lev |-> 5,
         entry |-> 1000, sl |-> 820, tp |-> 1300]

DaySignals == {Long}
DayPrices == {810}
LiteralReasons == {"sl", "tp", "liq", "manual"}
=============================================================================
