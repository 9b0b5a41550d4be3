------------------------------- MODULE Director -------------------------------
(***************************************************************************)
(* agents/director.py with the five agents it consults.  Every cycle the   *)
(* scheduler starts one task per symbol; a task broadcasts an              *)
(* AnalyzeRequest and waits for the results that a collector coroutine     *)
(* files under the request's correlation id, until all are there or        *)
(* agent_timeout_s is over.  Tasks of several symbols, and of several      *)
(* cycles of one symbol, overlap at every await.                           *)
(*                                                                         *)
(* Each agent serves its own subscription one request at a time.  What an  *)
(* agent or a model says is data: only the portfolio agent's approval and  *)
(* the chosen action matter to the control.  An exception ends one task    *)
(* and nothing else, because nobody awaits the tasks.                      *)
(***************************************************************************)
EXTENDS Integers, Sequences, FiniteSets, Functions

CONSTANTS
    SymbolList,   \* settings.symbol_list, in order
    Agents,       \* _REQUIRED_AGENTS
    Portfolio,    \* the one whose approval is needed
    MaxCycles     \* bound: cycles of the scheduler in one behaviour

ASSUME DirectorAssumption ==
    /\ SymbolList \in Seq(STRING) /\ SymbolList # <<>>
    /\ IsFiniteSet(Agents) /\ Portfolio \in Agents
    /\ MaxCycles \in Nat

Symbols == {SymbolList[i] : i \in 1 .. Len(SymbolList)}

\* requests, in the order in which their tasks are created, and their symbols
Rids == 1 .. (MaxCycles * Len(SymbolList))
SymbolOf(r) == SymbolList[((r - 1) % Len(SymbolList)) + 1]

\* a *Result or MLSignal; ok is PortfolioResult.approved, TRUE in the others
Result == [agent : Agents, rid : Rids, ok : BOOLEAN]

VARIABLES
    cycles,    \* cycles started
    pc,        \* where the task of each request is
    pending,   \* self._pending: the dict of results so far, by request
    event,     \* requests whose event in self._events is set
    results,   \* the task's copy of what it waited for
    action,    \* DirectorDecision.action: "hold", or "trade" for buy and sell
    hot,       \* symbols whose last signal is less than _signal_cooldown_s old
    queue,     \* requests each agent has received and not answered
    bus        \* results on their way to the collector

VARIABLES      \* history
    said,      \* results ever published
    rows,      \* requests whose decision is in the `decisions` table
    signalled, \* requests whose Signal was published
    recent     \* signals of each symbol in the current cooldown period

taskVars == <<pending, event, results, action>>
histVars == <<said, rows, signalled, recent>>
vars == <<cycles, pc, taskVars, hot, queue, bus, histVars>>

Stages == {"unborn", "new", "publishing", "waiting", "asking", "inserting",
           "deciding", "signalling", "done", "failed"}

Actions == {"hold", "trade"}

Init ==
    /\ cycles = 0
    /\ pc = [r \in Rids |-> "unborn"]
    /\ pending = [r \in {} |-> {}]
    /\ event = {}
    /\ results = [r \in Rids |-> {}]
    /\ action = [r \in Rids |-> "hold"]
    /\ hot = {}
    /\ queue = [a \in Agents |-> <<>>]
    /\ bus = {}
    /\ said = {} /\ rows = {} /\ signalled = {}
    /\ recent = [s \in Symbols |-> 0]

\* self._pending with self._pending[r] = got
WithEntry(r, got) ==
    [k \in DOMAIN pending \cup {r} |-> IF k = r THEN got ELSE pending[k]]

Goto(r, stage) == pc' = [pc EXCEPT ![r] = stage]

-----------------------------------------------------------------------------
(* The scheduler and the agents.                                           *)

\* one create_task per symbol, without an await between them
Schedule ==
    /\ cycles < MaxCycles
    /\ cycles' = cycles + 1
    /\ LET n == Len(SymbolList)
           born == (cycles * n + 1) .. (cycles * n + n)
       IN  pc' = [r \in Rids |-> IF r \in born THEN "new" ELSE pc[r]]
    /\ UNCHANGED <<taskVars, hot, queue, bus, histVars>>

\* the agent works on the oldest request and publishes its result
Answer(a, ok) ==
    /\ queue[a] # <<>>
    /\ a # Portfolio => ok
    /\ LET m == [agent |-> a, rid |-> Head(queue[a]), ok |-> ok]
       IN  bus' = bus \cup {m} /\ said' = said \cup {m}
    /\ queue' = [queue EXCEPT ![a] = Tail(@)]
    /\ UNCHANGED <<cycles, pc, taskVars, hot, rows, signalled, recent>>

\* too few klines, or an exception that the agent logs
GiveUp(a) ==
    /\ queue[a] # <<>>
    /\ queue' = [queue EXCEPT ![a] = Tail(@)]
    /\ UNCHANGED <<cycles, pc, taskVars, hot, bus, histVars>>

-----------------------------------------------------------------------------
(* _collect_results.                                                       *)

Complete(got) == \A a \in Agents : \E m \in got : m.agent = a

\* the entry of a request gains a result, and its event is set with the last one
File(m, before) ==
    /\ pending' = WithEntry(m.rid, before \cup {m})
    /\ event' = IF Complete(before \cup {m}) THEN event \cup {m.rid} ELSE event

\* a result for a request that nobody waits for any more is dropped
\* (a mutant: it opens a new entry)
CollectAll(m) ==
    /\ m \in bus
    /\ bus' = bus \ {m}
    /\ File(m, IF m.rid \in DOMAIN pending THEN pending[m.rid] ELSE {})
    /\ UNCHANGED <<cycles, pc, results, action, hot, queue, histVars>>
Collect(m) ==
    /\ m \in bus
    /\ bus' = bus \ {m}
    /\ IF m.rid \in DOMAIN pending THEN File(m, pending[m.rid])
       ELSE UNCHANGED <<pending, event>>
    /\ UNCHANGED <<cycles, pc, results, action, hot, queue, histVars>>

-----------------------------------------------------------------------------
(* _analyze_symbol.                                                        *)

Begin(r) ==
    /\ pc[r] = "new"
    /\ pending' = WithEntry(r, {})
    /\ Goto(r, "publishing")
    /\ UNCHANGED <<cycles, event, results, action, hot, queue, bus, histVars>>

\* the request reaches the agents that are subscribed by now
Broadcast(r, listening) ==
    /\ pc[r] = "publishing"
    /\ queue' = [a \in Agents |->
                    IF a \in listening THEN Append(queue[a], r) ELSE queue[a]]
    /\ Goto(r, "waiting")
    /\ UNCHANGED <<cycles, taskVars, hot, bus, histVars>>

\* the finally clause (a mutant: the event is left)
ForgetEntry(r) ==
    /\ pending' = Restrict(pending, DOMAIN pending \ {r})
    /\ UNCHANGED event
Forget(r) ==
    /\ pending' = Restrict(pending, DOMAIN pending \ {r})
    /\ event' = event \ {r}

\* take what is there and forget the request
TakeResults(r) ==
    /\ results' = [results EXCEPT ![r] = pending[r]]
    /\ Forget(r)

Wake(r) ==
    /\ pc[r] = "waiting" /\ r \in event
    /\ TakeResults(r)
    /\ Goto(r, "asking")
    /\ UNCHANGED <<cycles, action, hot, queue, bus, histVars>>

\* (mutants: go on with what there is; no time-out before the first result)
TimeOutAnyway(r) ==
    /\ pc[r] = "waiting"
    /\ TakeResults(r)
    /\ Goto(r, IF \E m \in pending[r] : m.agent = Portfolio THEN "asking" ELSE "done")
    /\ UNCHANGED <<cycles, action, hot, queue, bus, histVars>>
TimeOutLater(r) ==
    /\ pc[r] = "waiting" /\ pending[r] # {}
    /\ TakeResults(r)
    /\ Goto(r, IF Complete(pending[r]) THEN "asking" ELSE "done")
    /\ UNCHANGED <<cycles, action, hot, queue, bus, histVars>>

\* the time-out may still find that the last result has just come
TimeOut(r) ==
    /\ pc[r] = "waiting"
    /\ TakeResults(r)
    /\ Goto(r, IF Complete(pending[r]) THEN "asking" ELSE "done")
    /\ UNCHANGED <<cycles, action, hot, queue, bus, histVars>>

-----------------------------------------------------------------------------
(* _analyze_symbol_with_results.                                           *)

Approved(r) == \E m \in results[r] : m.agent = Portfolio /\ m.ok

\* the language model decides, unless the portfolio agent has blocked the symbol
\* (a mutant: the approval is only part of the prompt)
ChooseAlways(r, act) ==
    /\ pc[r] = "asking"
    /\ action' = [action EXCEPT ![r] = act]
    /\ Goto(r, "inserting")
    /\ UNCHANGED <<cycles, pending, event, results, hot, queue, bus, histVars>>
Choose(r, act) ==
    /\ pc[r] = "asking"
    /\ ~Approved(r) => act = "hold"
    /\ action' = [action EXCEPT ![r] = act]
    /\ Goto(r, "inserting")
    /\ UNCHANGED <<cycles, pending, event, results, hot, queue, bus, histVars>>

\* the decision is stored before anything is done about it
Insert(r) ==
    /\ pc[r] = "inserting"
    /\ rows' = rows \cup {r}
    /\ Goto(r, "deciding")
    /\ UNCHANGED <<cycles, taskVars, hot, queue, bus, said, signalled, recent>>

\* hold, or suppressed by the cooldown of the symbol ...
Refrain(r) ==
    /\ pc[r] = "deciding"
    /\ action[r] = "hold" \/ SymbolOf(r) \in hot
    /\ Goto(r, "done")
    /\ UNCHANGED <<cycles, taskVars, hot, queue, bus, histVars>>

\* ... else the cooldown starts, in the same segment as its check
\* (a mutant: it is checked and never started)
CommitLate(r) ==
    /\ pc[r] = "deciding"
    /\ action[r] # "hold" /\ SymbolOf(r) \notin hot
    /\ Goto(r, "signalling")
    /\ UNCHANGED <<cycles, taskVars, hot, queue, bus, histVars>>
Commit(r) ==
    /\ pc[r] = "deciding"
    /\ action[r] # "hold" /\ SymbolOf(r) \notin hot
    /\ hot' = hot \cup {SymbolOf(r)}
    /\ Goto(r, "signalling")
    /\ UNCHANGED <<cycles, taskVars, queue, bus, histVars>>

SendSignal(r) ==
    /\ pc[r] = "signalling"
    /\ signalled' = signalled \cup {r}
    /\ recent' = [recent EXCEPT ![SymbolOf(r)] = @ + 1]
    /\ Goto(r, "done")
    /\ UNCHANGED <<cycles, taskVars, hot, queue, bus, said, rows>>

\* the model raises or answers with a field missing; the insert raises
Fail(r) ==
    /\ \/ pc[r] = "asking" /\ Approved(r)
       \/ pc[r] = "inserting"
    /\ Goto(r, "failed")
    /\ UNCHANGED <<cycles, taskVars, hot, queue, bus, histVars>>

\* five minutes have passed; no publish takes that long
Cool(s) ==
    /\ s \in hot
    /\ \A r \in Rids : pc[r] = "signalling" => SymbolOf(r) # s
    /\ hot' = hot \ {s}
    /\ recent' = [recent EXCEPT ![s] = 0]
    /\ UNCHANGED <<cycles, pc, taskVars, queue, bus, said, rows, signalled>>

-----------------------------------------------------------------------------

Task(r) ==
    \/ Begin(r) \/ Wake(r) \/ TimeOut(r)
    \/ \E listening \in SUBSET Agents : Broadcast(r, listening)
    \/ \E act \in Actions : Choose(r, act)
    \/ Insert(r) \/ Refrain(r) \/ Commit(r) \/ SendSignal(r) \/ Fail(r)

Next ==
    \/ Schedule
    \/ \E a \in Agents : GiveUp(a)
    \/ \E a \in Agents, ok \in BOOLEAN : Answer(a, ok)
    \/ \E m \in bus : Collect(m)
    \/ \E r \in Rids : Task(r)
    \/ \E s \in Symbols : Cool(s)

Spec == Init /\ [][Next]_vars

\* The loop resumes every task that can run; the timer, the model and the database
\* answer or fail.  The agents and the scheduler owe nothing.
FairSpec == Spec /\ \A r \in Rids : WF_vars(Task(r))

-----------------------------------------------------------------------------
(* Properties.                                                             *)

\* Types of every variable.
TypeOK ==
    /\ cycles \in 0 .. MaxCycles
    /\ pc \in [Rids -> Stages]
    /\ pending \in [DOMAIN pending -> SUBSET Result]
    /\ DOMAIN pending \subseteq Rids /\ event \subseteq DOMAIN pending
    /\ results \in [Rids -> SUBSET Result]
    /\ action \in [Rids -> Actions]
    /\ hot \subseteq Symbols
    /\ queue \in [Agents -> Seq(Rids)]
    /\ bus \subseteq Result /\ said \subseteq Result
    /\ rows \subseteq Rids /\ signalled \subseteq Rids
    /\ recent \in [Symbols -> Nat]

\* The two dicts hold exactly the requests that a task waits for: a result that is
\* late, or that arrives while another cycle of its symbol runs, leaves nothing behind.
NothingLeaks ==
    /\ DOMAIN pending = {r \in Rids : pc[r] \in {"publishing", "waiting"}}
    /\ event = {r \in DOMAIN pending : Complete(pending[r])}

\* "A signal is only published when all 5 agents respond" (README.md): every decision
\* rests on an answer of every agent to that very request, not to an earlier cycle's, and
\* a signal on the portfolio agent's approval of that very request.
FullPanel ==
    /\ \A r \in rows \cup signalled : \A a \in Agents :
           \E m \in said : m.agent = a /\ m.rid = r
    /\ \A r \in signalled : \A m \in said :
           (m.rid = r /\ m.agent = Portfolio) => m.ok

\* "4. If action != hold: publish Signal to signal.execute", "5. Persist DirectorDecision
\* via DecisionWriter" (director.py:8-9): a stored decision to trade has its signal, unless
\* the cooldown suppressed it.  The code stores the decision first.
SignalBeforeRow ==
    \A r \in rows : action[r] = "trade" => r \in signalled \/ SymbolOf(r) \in hot

\* "5-minute cooldown per symbol after any signal" (README.md): however the tasks of two
\* cycles overlap, one symbol has at most one signal in a cooldown period.
OneSignalPerCooldown == \A s \in Symbols : recent[s] <= 1

\* Every analysis comes to an end, whatever the agents do.
AnalysesEnd ==
    \A r \in Rids : (pc[r] = "new") ~> (pc[r] \in {"done", "failed"})
===============================================================================
