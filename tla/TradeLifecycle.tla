---------------------------- MODULE TradeLifecycle ----------------------------
(***************************************************************************)
(* What the paper engine promises the rest of the system about trades,     *)
(* said without coroutines, publishes, money or marks.  A signal is filled,*)
(* refused or skipped once; a filled one is the live trade of one symbol   *)
(* until it is closed, once; a restart forgets what was live or half       *)
(* served.                                                                 *)
(***************************************************************************)
EXTENDS Integers, FiniteSets

CONSTANTS Symbols, MaxSignals, MaxOpen

NoTrade == 0
Cids == 1 .. MaxSignals

VARIABLES
    status,   \* of each signal
    holder    \* the live trade of each symbol, or NoTrade

vars == <<status, holder>>

Open == {s \in Symbols : holder[s] # NoTrade}

Init ==
    /\ status = [c \in Cids |-> "unsent"]
    /\ holder = [s \in Symbols |-> NoTrade]

\* the signal that may be served now: the one in hand, else the next to arrive
Serving(c) ==
    \/ status[c] = "taken"
    \/ /\ status[c] = "unsent"
       /\ \A d \in Cids : (d < c => status[d] # "unsent") /\ status[d] # "taken"

\* refused by breaker or guard, or skipped as a duplicate of a live trade
Refuse(c) ==
    /\ Serving(c)
    /\ \/ status' = [status EXCEPT ![c] = "vetoed"]
       \/ status[c] = "unsent" /\ Open # {}
          /\ status' = [status EXCEPT ![c] = "skipped"]
    /\ UNCHANGED holder

Fill(c, s) ==
    /\ Serving(c)
    /\ holder[s] = NoTrade
    /\ Cardinality(Open) < MaxOpen
    /\ status' = [status EXCEPT ![c] = "live"]
    /\ holder' = [holder EXCEPT ![s] = c]

\* the first half of a flip: the opposite trade ends, the signal is in hand
Flip(c, s) ==
    /\ Serving(c) /\ status[c] = "unsent"
    /\ holder[s] # NoTrade
    /\ status' = [status EXCEPT ![c] = "taken", ![holder[s]] = "closed"]
    /\ holder' = [holder EXCEPT ![s] = NoTrade]

\* the process dies while it serves the signal
Drop(c) ==
    /\ Serving(c) /\ status[c] = "unsent"
    /\ status' = [status EXCEPT ![c] = "taken"]
    /\ UNCHANGED holder

Close(s) ==
    /\ holder[s] # NoTrade
    /\ status' = [status EXCEPT ![holder[s]] = "closed"]
    /\ holder' = [holder EXCEPT ![s] = NoTrade]

Restart ==
    /\ status' = [c \in Cids |->
                    IF status[c] \in {"taken", "live"} THEN "lost" ELSE status[c]]
    /\ holder' = [s \in Symbols |-> NoTrade]

Next ==
    \/ \E c \in Cids : Refuse(c) \/ Drop(c)
    \/ \E c \in Cids, s \in Symbols : Fill(c, s) \/ Flip(c, s)
    \/ \E s \in Symbols : Close(s)
    \/ Restart

Spec == Init /\ [][Next]_vars
=============================================================================
