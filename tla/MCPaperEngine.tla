---------------------------- MODULE MCPaperEngine ----------------------------
(* Small instances of PaperEngine.  Amounts are in units of 1/500 USD, so a  *)
(* balance of 500000 is the 1000 USD of settings.py, and the rates are its.  *)
EXTENDS PaperEngine, TLC

CONSTANTS BTC, ETH

\* a Director signal: stop and target 2 % and 4 % from the close it saw, lev 5
Directed(s, side, close) ==
    [sym |-> s, side |-> side, size |-> 45000, lev |-> 5, entry |-> Null,
     sl |-> IF side = "LONG" THEN (close * 98) \div 100 ELSE (close * 102) \div 100,
     tp |-> IF side = "LONG" THEN (close * 104) \div 100 ELSE (close * 96) \div 100]

\* POST /test/signal: any stop, an explicit fill price
Posted(s, side, entry, lev, sl, tp) ==
    [sym |-> s, side |-> side, size |-> 45000, lev |-> lev, entry |-> entry,
     sl |-> sl, tp |-> tp]

MCSignals ==
    {Directed(s, side, 1000) : s \in {BTC, ETH}, side \in Sides}
    \cup {Posted(s, "LONG", 1125, 5, 850, 1300) : s \in {BTC, ETH}}

\* ... and two that calc_isolated_margin and calc_qty cannot compute with
FaultySignals ==
    MCSignals \cup {Posted(s, "SHORT", Null, 0, 1020, 960) : s \in {BTC, ETH}}
              \cup {Posted(s, "SHORT", -1000, 5, 1020, 960) : s \in {BTC, ETH}}

DirectedSignals == {Directed(BTC, side, 1000) : side \in Sides}

MCPrices == {900, 1000, 1125}

LiteralReasons == {"sl", "tp", "liq", "manual"}

AllReasons == Reasons \cup {"manual"}

OneSignals == {g \in MCSignals : g.sym = BTC}

SymbolSymmetry == Permutations({BTC, ETH})
=============================================================================
