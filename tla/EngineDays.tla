------------------------------ MODULE EngineDays ------------------------------
(***************************************************************************)
(* PaperEngine with a calendar, to ask what "daily" means in               *)
(* DailyLossBreaker: nothing in the code clears _cumulative_pnl but the    *)
(* reset endpoint.  The day turns only while no close is under way, so     *)
(* that no close belongs to two days.                                      *)
(***************************************************************************)
EXTENDS PaperEngine

VARIABLE today    \* net PnL of the closes of the current day

dayVars == <<vars, today>>

DayInit == Init /\ today = 0

\* realised starts again from 0 with the process, the day goes on
Within ==
    /\ Next
    /\ today' = IF up THEN today + (realised' - realised) ELSE today

Midnight ==
    /\ \A t \in Tasks : pc[t] = "loop"
    /\ today' = 0
    /\ UNCHANGED vars

DayNext == Within \/ Midnight

DaySpec == DayInit /\ [][DayNext]_dayVars

\* "Trips when cumulative daily PnL drops below threshold_pct" (breakers.py): when the
\* breaker trips, the day's own closes have lost the limit.
DailyMeansToday ==
    [][(~daily.tripped /\ daily'.tripped) => LossTrips(today)]_dayVars
=============================================================================
