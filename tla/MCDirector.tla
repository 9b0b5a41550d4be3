------------------------------ MODULE MCDirector ------------------------------
(* Small instances of Director: three of the five agents, as a task tells    *)
(* the portfolio agent's result from the others' and no more.                *)
EXTENDS Director

OneSymbol == <<"BTCUSDT">>
Panel == {"quant", "ml", "portfolio"}
===============================================================================
