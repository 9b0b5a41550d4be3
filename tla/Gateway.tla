------------------------------- MODULE Gateway -------------------------------
(***************************************************************************)
(* How the browser gets its events: the go gateway's subscriber hands the  *)
(* messages of the bus to the hub, whose one goroutine (Hub.Run) writes    *)
(* each event to every connection under a read lock; a goroutine for each  *)
(* connection (ServeWS) adds it and removes it under the write lock.  In   *)
(* the browser each page has a hook (useWebSocket) that connects again     *)
(* when its socket closes.                                                 *)
(*                                                                         *)
(* Go's RWMutex lets no new reader in while a writer waits.  The critical  *)
(* sections of ServeWS are single steps; that of Run is not.  A write ends *)
(* at once, except when its peer leaves what was written before.           *)
(* Connections are numbered as they are made.  The network and the bus     *)
(* are external.                                                           *)
(***************************************************************************)
EXTENDS Integers, FiniteSets, Sequences

CONSTANTS
    Pages,      \* the pages that use the hook
    SendBuffer, \* the capacity of the channel h.send (256)
    MaxConns    \* bound: the connections made

ASSUME GatewayAssumption == SendBuffer \in Nat \ {0} /\ MaxConns \in Nat \ {0}

VARIABLES
    mounted,    \* the pages on display
    timers,     \* the pages that are to connect: at once, or when 3 s are over
    current,    \* wsRef.current: the last connection of each page, or 0
    conns,      \* each connection: its page, its link, what its ServeWS does,
                \* and whether its peer leaves what was written
    clients,    \* h.clients
    send,       \* the number of events in h.send
    hub,        \* Hub.Run: "idle", "event" in hand, or "writing" it
    unwritten   \* the connections the loop over h.clients has still to visit

pageVars == <<mounted, timers, current>>
hubVars == <<send, hub, unwritten>>
gatewayVars == <<pageVars, conns, clients, hubVars>>

Ids == DOMAIN conns

-----------------------------------------------------------------------------
(* The browser.                                                            *)

\* connect(): a request that the gateway upgrades.
Connect(p) ==
    /\ p \in timers /\ Len(conns) < MaxConns
    /\ conns' = Append(conns, [page |-> p, link |-> "up", serve |-> "upgraded", full |-> FALSE])
    /\ current' = [current EXCEPT ![p] = Len(conns')]
    /\ timers' = timers \ {p}
    /\ UNCHANGED <<mounted, clients, hubVars>>

\* A link ends, cut by the network or closed by either side; sock.onclose sets
\* the timer, whether the page is still there or not.
Closed(ids) ==
    /\ conns' = [c \in Ids |-> IF c \in ids THEN [conns[c] EXCEPT !.link = "closed"] ELSE conns[c]]
    /\ timers' = timers \cup {conns[c].page : c \in {d \in ids : conns[d].link = "up"}}

LinkBreaks ==
    /\ \E c \in Ids : conns[c].link = "up" /\ Closed({c})
    /\ UNCHANGED <<mounted, current, clients, hubVars>>

\* The effect's clean-up closes the last socket, and no timer.
Unmount(p) ==
    /\ p \in mounted
    /\ mounted' = mounted \ {p}
    /\ Closed({current[p]} \ {0})
    /\ UNCHANGED <<current, clients, hubVars>>

\* A peer that had stopped reading takes what was written to it.
PeerReads ==
    /\ \E c \in Ids : conns[c].full /\ conns' = [conns EXCEPT ![c].full = FALSE]
    /\ UNCHANGED <<pageVars, clients, hubVars>>

-----------------------------------------------------------------------------
(* Hub.ServeWS.                                                            *)

NoReader == hub # "writing"

\* Lock() is called.
AskToJoin(c) ==
    /\ conns[c].serve = "upgraded"
    /\ conns' = [conns EXCEPT ![c].serve = "joining"]
    /\ UNCHANGED <<pageVars, clients, hubVars>>

Register(c) ==
    /\ conns[c].serve = "joining" /\ NoReader
    /\ clients' = clients \cup {c}
    /\ conns' = [conns EXCEPT ![c].serve = "reading"]
    /\ UNCHANGED <<pageVars, hubVars>>

\* ReadMessage returns an error, and the deferred function calls Lock().
ReadFails(c) ==
    /\ conns[c].serve = "reading" /\ conns[c].link = "closed"
    /\ conns' = [conns EXCEPT ![c].serve = "leaving"]
    /\ UNCHANGED <<pageVars, clients, hubVars>>

Unregister(c) ==
    /\ conns[c].serve = "leaving" /\ NoReader
    /\ clients' = clients \ {c}
    /\ conns' = [conns EXCEPT ![c].serve = "ended"]
    /\ UNCHANGED <<pageVars, hubVars>>

ServeWS(c) == c \in Ids /\ (AskToJoin(c) \/ Register(c) \/ ReadFails(c) \/ Unregister(c))

-----------------------------------------------------------------------------
(* Subscriber.Run, Hub.Broadcast and Hub.Run.                              *)

\* A message of the bus: an event that finds the channel full is dropped.
Broadcast ==
    /\ send' = IF send < SendBuffer THEN send + 1 ELSE send
    /\ UNCHANGED <<pageVars, conns, clients, hub, unwritten>>

\* The next event; one that cannot be marshalled is passed over.
TakeEvent ==
    /\ hub = "idle" /\ send > 0
    /\ hub' \in {"event", "idle"}
    /\ send' = send - 1
    /\ UNCHANGED <<pageVars, conns, clients, unwritten>>

\* RLock waits for the writers that wait.
ReadLock ==
    /\ hub = "event" /\ \A c \in Ids : conns[c].serve \notin {"joining", "leaving"}
    /\ hub' = "writing"
    /\ unwritten' = clients
    /\ UNCHANGED <<pageVars, conns, clients, send>>

\* One WriteMessage.  It waits while what was written before is not taken; an
\* error closes the connection, which leaves the map by its own ServeWS.
Write ==
    /\ hub = "writing"
    /\ \E c \in unwritten :
          /\ unwritten' = unwritten \ {c}
          /\ \/ conns[c].link = "closed" /\ UNCHANGED <<conns, timers>>
             \/ /\ conns[c].link = "up" /\ ~conns[c].full
                /\ \/ Closed({c})
                   \/ \E full \in BOOLEAN : conns' = [conns EXCEPT ![c].full = full] /\ UNCHANGED timers
    /\ UNCHANGED <<mounted, current, clients, send, hub>>

\* a mutant: a connection that is to leave keeps the lock
ReadUnlock_OnlyIfClean ==
    /\ hub = "writing" /\ unwritten = {} /\ \A c \in clients : conns[c].link = "up"
    /\ hub' = "idle"
    /\ UNCHANGED <<pageVars, conns, clients, send, unwritten>>

ReadUnlock ==
    /\ hub = "writing" /\ unwritten = {}
    /\ hub' = "idle"
    /\ UNCHANGED <<pageVars, conns, clients, send, unwritten>>

Run == TakeEvent \/ ReadLock \/ Write \/ ReadUnlock

-----------------------------------------------------------------------------
GatewayInit ==
    /\ mounted = Pages /\ timers = Pages /\ current = [p \in Pages |-> 0]
    /\ conns = <<>> /\ clients = {}
    /\ send = 0 /\ hub = "idle" /\ unwritten = {}

GatewayNext ==
    \/ \E p \in Pages : Connect(p) \/ Unmount(p)
    \/ LinkBreaks \/ PeerReads
    \/ \E c \in Ids : ServeWS(c)
    \/ Broadcast \/ Run

-----------------------------------------------------------------------------
\* The map holds exactly the connections between the two critical sections of
\* their ServeWS, and those the loop of Run has still to visit stay in it: the
\* map is never written while it is iterated.
GatewayTypeOK ==
    /\ mounted \cup timers \subseteq Pages
    /\ \A p \in Pages : current[p] \in 0 .. Len(conns)
    /\ clients = {c \in Ids : conns[c].serve \in {"reading", "leaving"}}
    /\ unwritten \subseteq clients /\ (hub # "writing" => unwritten = {})
    /\ hub \in {"idle", "event", "writing"} /\ send \in 0 .. SendBuffer

Full(c) == c \in Ids /\ conns[c].full
Dead(c) == c \in Ids /\ conns[c].link = "closed"

\* As long as no peer stays for ever without reading or closing, the hub comes
\* back from every event and every connection whose link is gone leaves the map,
\* however breaks, stalls, joins and events interleave: no goroutine waits for a
\* lock that another holds for ever.  (One peer that never reads again and never
\* closes stops all events: WriteMessage has no deadline.)
DeadConnectionsLeave ==
    (\A c \in 1 .. MaxConns : []<>~Full(c)) =>
        /\ []<>(hub # "writing")
        /\ \A c \in 1 .. MaxConns : []<>(~Dead(c) \/ c \notin clients)
=============================================================================
