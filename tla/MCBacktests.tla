----------------------------- MODULE MCBacktests -----------------------------
(* A small instance of Backtests: up to six bars, two apart, a day each, of  *)
(* which some may be missing, the first at the begin of the period and in    *)
(* some histories the last at its end; pages of two, prices at which every   *)
(* return is exact.                                                          *)
EXTENDS Backtests

MCScripts == {"1", "2", "3", "4", "5", "6", "kronos"}

\* A quiet bar at each of two prices, and one that touches both levels of a
\* position of either side entered at 8.
MCBars == {[high |-> 8, low |-> 8, close |-> 8],
           [high |-> 16, low |-> 8, close |-> 16],
           [high |-> 12, low |-> 4, close |-> 8]}

\* Scripts that replay windows need six bars for two windows and two folds.
MCHistories ==
    [s \in MCScripts |->
        CASE s \in {"1", "6", "kronos"} -> [{2, 4, 6, 8, 10, 12} -> MCBars] \cup [{2, 4, 8, 10, 12} -> MCBars]
          [] s = "5" -> [{2, 4, 6, 8} -> MCBars] \cup [{2, 6, 14} -> MCBars]
          [] s = "3" -> [{2, 4, 6, 8, 10} -> MCBars]
          [] OTHER -> [{2, 4, 6} -> MCBars] \cup [{2, 14} -> MCBars]]

MCFolds == << <<0, 1, 6>>, <<1, 2, 6>> >>
MCGrid == << <<1, 2>>, <<2, 1>> >>
MCLeverages == <<1, 3>>
MCSignals == {"long", "short", "none"}

MCReadings ==
    {[rsi |-> "none", macd |-> "none", ema |-> "none", bb |-> "none", strong |-> FALSE, volume |-> FALSE]}
        \cup [rsi : {"low", "high"}, macd : {"up", "down"}, ema : {"up", "down"},
              bb : {"below", "above"}, strong : {TRUE}, volume : {TRUE}]
=============================================================================
