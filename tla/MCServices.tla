----------------------------- MODULE MCServices -----------------------------
(* A small instance of Services: three minutes across a funding, two prices *)
(* and forecasts up and flat; two symbols with an article per cycle, scores  *)
(* beyond their range or neutral; two trades of one symbol and three         *)
(* versions of the prompt; two pages and two connections.                    *)
EXTENDS Services

MCForecasts == {<<1, 2, 1>>, <<2, 2, 2>>}
MCRelevances == {1, 3}
MCScores == {-3}
MCIndexScores == {2}
MCOutcomes == {-50, 20}
MCWiring == {"register", "row", "update"}
MCNoWiring == {}
=============================================================================
