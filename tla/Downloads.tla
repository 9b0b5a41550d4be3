------------------------------ MODULE Downloads ------------------------------
(***************************************************************************)
(* How the backtest scripts (src/backend/scripts) fetch a history of bars: *)
(* the exchange answers at most Limit bars per request, oldest first, and  *)
(* a script moves a cursor past the last bar it got until it reaches the   *)
(* end of its period.  Each script has its own loop, with its own step and *)
(* its own reason to stop.  The exchange is external.                      *)
(***************************************************************************)
EXTENDS Integers, FiniteSets, Sequences, SequencesExt

CONSTANTS
    Scripts,    \* the scripts that are run: "1" to "6", and "kronos"
    Histories,  \* what the exchange may hold for each script: functions from
                \* open times to bars
    Limit,      \* the most bars in an answer (limit = 1000)
    DailyLimit, \* the days script 3 asks for (limit = 365)
    Interval,   \* the time from one bar to the next (60_000 ms, or an hour)
    Start, End  \* the period asked for (start_ms, end_ms)

ASSUME PagingAssumption ==
    /\ Limit \in Nat /\ Limit > 1 /\ DailyLimit \in Nat \ {0}
    /\ Interval \in Nat \ {0}
    /\ Start \in Int /\ End \in Int /\ Start < End

\* The exchange holds finitely many bars, at least an interval apart.
ASSUME HistoryAssumption ==
    \A s \in Scripts : \A h \in Histories[s] :
        /\ IsFiniteSet(DOMAIN h) /\ DOMAIN h \subseteq Int
        /\ \A t, u \in DOMAIN h : t < u => t + Interval <= u

VARIABLES
    script,     \* the script that runs
    history,    \* the bars of the exchange, by open time
    cursor,     \* the startTime of the next request
    rows,       \* the open times received so far
    pc          \* "fetch", "fetched", and what Backtests adds to them

downloadVars == <<script, history, cursor, rows, pc>>

Fetching(s) == pc = "fetch" /\ script = s

\* The members of a set of times, oldest first.
Ascending(times) ==
    [k \in 1 .. Cardinality(times) |->
        CHOOSE t \in times : Cardinality({u \in times : u < t}) = k - 1]

\* The exchange's answer: the oldest bars from startTime to endTime.
Page(from, to) ==
    LET times == Ascending({t \in DOMAIN history : from <= t /\ t <= to})
    IN  SubSeq(times, 1, IF Len(times) < Limit THEN Len(times) ELSE Limit)

\* What every loop does with a page: an empty one ends it, any other is kept.
Receive(page, next, enough) ==
    /\ pc' = IF page = <<>> \/ enough \/ next >= End THEN "fetched" ELSE "fetch"
    /\ rows' = rows \o page
    /\ cursor' = IF page = <<>> THEN cursor ELSE next
    /\ UNCHANGED <<script, history>>

\* a mutant: the next request starts one bar too late
PastTheLastBar_Late(page) == Last(page) + 2 * Interval

\* The loop of scripts 1, 6 and kronos goes on at the bar after the last one.
PastTheLastBar(page) == Last(page) + Interval

FetchKlinesBinance1 ==
    /\ Fetching("1")
    /\ LET page == Page(cursor, End)
       IN  Receive(page, PastTheLastBar(page), FALSE)

FetchKlinesBinance6 ==
    /\ Fetching("6")
    /\ LET page == Page(cursor, End)
       IN  Receive(page, PastTheLastBar(page), FALSE)

FetchKlinesBinanceK ==
    /\ Fetching("kronos")
    /\ LET page == Page(cursor, End)
       IN  Receive(page, PastTheLastBar(page), FALSE)

\* Script 2 sends no endTime, steps by a millisecond and stops at a short page.
FetchKlines2 ==
    /\ Fetching("2")
    /\ LET page == Page(cursor, End + Interval)
       IN  Receive(page, Last(page) + 1, Len(page) < Limit)

\* Script 4 stops when the last bar is not past the cursor.
Fetch1hKlines ==
    /\ Fetching("4")
    /\ LET page == Page(cursor, End)
       IN  Receive(page, Last(page) + 1, Last(page) <= cursor)

\* Script 5 stops at a short page.
FetchKlines5 ==
    /\ Fetching("5")
    /\ LET page == Page(cursor, End)
       IN  Receive(page, Last(page) + 1, Len(page) < Limit)

\* Script 3 makes one request without a period: the newest days.
FetchBtcDaily ==
    /\ Fetching("3")
    /\ LET times == Ascending(DOMAIN history)
           first == IF Len(times) > DailyLimit THEN Len(times) - DailyLimit + 1 ELSE 1
       IN  rows' = SubSeq(times, first, Len(times))
    /\ pc' = "fetched"
    /\ UNCHANGED <<script, history, cursor>>

\* resp.raise_for_status(): no script catches it.
RequestFails ==
    /\ pc = "fetch"
    /\ pc' = "failed"
    /\ UNCHANGED <<script, history, cursor, rows>>

DownloadInit ==
    /\ script \in Scripts
    /\ history \in Histories[script]
    /\ cursor = Start
    /\ rows = <<>>
    /\ pc = "fetch"

FetchPage ==
    \/ FetchKlinesBinance1 \/ FetchKlinesBinance6 \/ FetchKlinesBinanceK
    \/ FetchKlines2 \/ Fetch1hKlines \/ FetchKlines5 \/ FetchBtcDaily

-----------------------------------------------------------------------------
\* A finished download has every bar of its period, once and in order, however
\* the pages fall: nothing is skipped or fetched twice where one page ends and
\* the next begins, and no loop stops early.  A bar that opens in the very
\* millisecond the period ends at may be missing (the loops of 1, 6 and kronos
\* stop there), and script 2, which sends no endTime, may have one more; script
\* 3 asks for the newest bars instead.
DownloadComplete ==
    pc \notin {"fetch", "failed"} =>
        LET wanted == {t \in DOMAIN history : Start <= t /\ t < End}
            newest == {t \in DOMAIN history :
                          Cardinality({u \in DOMAIN history : u > t}) < DailyLimit}
        IN  /\ \A k \in 1 .. Len(rows) - 1 : rows[k] < rows[k + 1]
            /\ IF script = "3" THEN ToSet(rows) = newest
               ELSE wanted \subseteq ToSet(rows)
=============================================================================
