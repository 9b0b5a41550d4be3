---------------------------- MODULE DirectorProofs ----------------------------
(***************************************************************************)
(* Theorems about Director, for every list of symbols, set of agents and   *)
(* number of overlapping cycles: its types and dicts, and the safety of    *)
(* its decisions.  Each safety property rests on one inductive invariant   *)
(* and on the Dicts.                                                       *)
(***************************************************************************)
EXTENDS Director, TLAPS

\* The symbol of a request is one of the list.
LEMMA SymbolType == \A r \in Rids : SymbolOf(r) \in Symbols
BY DirectorAssumption DEF Rids, SymbolOf, Symbols

-----------------------------------------------------------------------------
(* The dicts.                                                              *)

\* The requests of the cycles to come have no task yet.
Unborn == \A r \in Rids : r > cycles * Len(SymbolList) => pc[r] = "unborn"

\* TypeOK alone is not inductive: the copy that a task takes is of an entry it owns,
\* which NothingLeaks says it has; and a cycle starts only tasks that are unborn.
Dicts == TypeOK /\ NothingLeaks /\ Unborn

\* What filing does: the entry exists before and after, and its event is set exactly
\* when an answer of every agent is there.
LEMMA FileKeeps ==
    ASSUME Dicts, NEW m \in Result, m.rid \in DOMAIN pending, pc' = pc,
           File(m, pending[m.rid])
    PROVE  /\ DOMAIN pending' = DOMAIN pending
           /\ pending' \in [DOMAIN pending' -> SUBSET Result]
           /\ event' = {r \in DOMAIN pending' : Complete(pending'[r])}
<1> DEFINE got == pending[m.rid] \cup {m}
<1>1. /\ pending' = [k \in DOMAIN pending |-> IF k = m.rid THEN got ELSE pending[k]]
      /\ event' = IF Complete(got) THEN event \cup {m.rid} ELSE event
  BY DEF File, WithEntry
<1>2. event = {r \in DOMAIN pending : Complete(pending[r])}
  BY DEF Dicts, NothingLeaks
<1>3. Complete(pending[m.rid]) => Complete(got)
  BY DEF Complete
<1>4. got \subseteq Result
  BY DEF Dicts, TypeOK
<1> HIDE DEF got
<1> QED BY <1>1, <1>2, <1>3, <1>4 DEF Dicts, TypeOK

LEMMA DictsInit == Init => Dicts
BY DirectorAssumption DEF Init, Dicts, TypeOK, NothingLeaks, Unborn, Actions, Stages

\* A task that moves between stages in which it owns no entry.
LEMMA DictsMove ==
    ASSUME Dicts, NEW r \in Rids, NEW stage \in Stages \ {"publishing", "waiting"},
           pc[r] \notin {"unborn", "publishing", "waiting"}, Goto(r, stage),
           UNCHANGED <<cycles, pending, event, results, queue, bus, said>>,
           action' \in [Rids -> Actions], hot' \subseteq Symbols,
           rows' \subseteq Rids, signalled' \subseteq Rids,
           recent' \in [Symbols -> Nat]
    PROVE  Dicts'
BY DEF Dicts, TypeOK, NothingLeaks, Unborn, Goto, Complete

\* A task that takes its results and forgets its entry.
LEMMA DictsTake ==
    ASSUME Dicts, NEW r \in Rids, NEW stage \in Stages \ {"publishing", "waiting"},
           pc[r] = "waiting", Goto(r, stage), TakeResults(r),
           UNCHANGED <<cycles, action, hot, queue, bus, histVars>>
    PROVE  Dicts'
<1>1. r \in DOMAIN pending /\ pending[r] \subseteq Result
  BY DEF Dicts, TypeOK, NothingLeaks
<1>2. /\ pending' = [k \in DOMAIN pending \ {r} |-> pending[k]]
      /\ event' = event \ {r}
      /\ results' = [results EXCEPT ![r] = pending[r]]
  BY DEF TakeResults, Forget, Restrict
<1>3. TypeOK'
  BY <1>1, <1>2 DEF Dicts, TypeOK, Goto, histVars
<1>4. NothingLeaks'
  BY <1>1, <1>2 DEF Dicts, TypeOK, NothingLeaks, Goto, Complete
<1>5. Unborn'
  BY DEF Dicts, Unborn, TypeOK, Goto
<1> QED BY <1>3, <1>4, <1>5 DEF Dicts

LEMMA DictsSchedule ==
    ASSUME Dicts, Schedule
    PROVE  Dicts'
<1> DEFINE n == Len(SymbolList)
           born == (cycles * n + 1) .. (cycles * n + n)
<1>1. /\ n \in Nat /\ cycles \in Nat /\ MaxCycles \in Nat
      /\ cycles < MaxCycles /\ cycles' = cycles + 1
      /\ pc' = [r \in Rids |-> IF r \in born THEN "new" ELSE pc[r]]
      /\ UNCHANGED <<taskVars, hot, queue, bus, histVars>>
  BY DirectorAssumption DEF Schedule, Dicts, TypeOK
<1>2. cycles' * n = cycles * n + n /\ cycles * n \in Nat
  BY <1>1
<1>3. \A r \in Rids : r \in Nat
  BY <1>1 DEF Rids
<1>4. \A r \in Rids : r \in born => pc[r] = "unborn"
  BY <1>1, <1>2, <1>3 DEF Dicts, Unborn
<1>5. \A r \in Rids : r > cycles' * n => r \notin born /\ r > cycles * n
  BY <1>1, <1>2, <1>3
<1> HIDE DEF born, n
<1>6. TypeOK'
  BY <1>1 DEF Dicts, TypeOK, taskVars, histVars, Stages
<1>7. NothingLeaks'
  BY <1>1, <1>4 DEF Dicts, NothingLeaks, TypeOK, taskVars, Complete
<1>8. Unborn'
  BY <1>1, <1>5 DEF Dicts, Unborn, n
<1> QED BY <1>6, <1>7, <1>8 DEF Dicts

\* A cycle starts the tasks of its own requests and touches no other.
LEMMA ScheduleStarts ==
    ASSUME Dicts, Schedule
    PROVE  \A r \in Rids : pc'[r] = pc[r] \/ (pc[r] = "unborn" /\ pc'[r] = "new")
<1> DEFINE n == Len(SymbolList)
           born == (cycles * n + 1) .. (cycles * n + n)
<1>1. /\ pc' = [r \in Rids |-> IF r \in born THEN "new" ELSE pc[r]]
      /\ n \in Nat /\ cycles \in Nat /\ MaxCycles \in Nat
  BY DirectorAssumption DEF Schedule, Dicts, TypeOK
<1>2. \A r \in Rids : r \in Nat
  BY <1>1 DEF Rids
<1>3. \A r \in Rids : r \in born => pc[r] = "unborn"
  BY <1>1, <1>2 DEF Dicts, Unborn
<1> QED BY <1>1, <1>3

LEMMA DictsStep ==
    ASSUME Dicts, [Next]_vars
    PROVE  Dicts'
<1> USE DEF Dicts
<1>1. CASE UNCHANGED vars
  BY <1>1 DEF TypeOK, NothingLeaks, Unborn, vars, taskVars, histVars, Complete
<1>2. CASE Schedule
  BY <1>2, DictsSchedule
<1>3. ASSUME NEW a \in Agents, NEW ok \in BOOLEAN, Answer(a, ok) PROVE Dicts'
  <2>1. queue[a] \in Seq(Rids) /\ queue[a] # <<>>
    BY <1>3 DEF Answer, TypeOK
  <2>2. Head(queue[a]) \in Rids /\ Tail(queue[a]) \in Seq(Rids)
    BY <2>1
  <2>3. [agent |-> a, rid |-> Head(queue[a]), ok |-> ok] \in Result
    BY <2>2 DEF Result
  <2> QED BY <1>3, <2>2, <2>3
          DEF Answer, TypeOK, NothingLeaks, Unborn, taskVars, Complete
<1>4. ASSUME NEW a \in Agents, GiveUp(a) PROVE Dicts'
  <2>1. Tail(queue[a]) \in Seq(Rids)
    BY <1>4 DEF GiveUp, TypeOK
  <2> QED BY <1>4, <2>1
          DEF GiveUp, TypeOK, NothingLeaks, Unborn, taskVars, histVars, Complete
<1>5. ASSUME NEW m \in bus, Collect(m) PROVE Dicts'
  <2>1. m \in Result /\ m.rid \in Rids
    BY DEF TypeOK, Result
  <2>2. /\ bus' \subseteq bus
        /\ UNCHANGED <<cycles, pc, results, action, hot, queue, histVars>>
    BY <1>5 DEF Collect
  <2>3. CASE m.rid \notin DOMAIN pending
    BY <1>5, <2>2, <2>3
       DEF Collect, TypeOK, NothingLeaks, Unborn, histVars, Complete
  <2>4. CASE m.rid \in DOMAIN pending
    <3>1. File(m, pending[m.rid])
      BY <1>5, <2>4 DEF Collect
    <3>2. /\ DOMAIN pending' = DOMAIN pending
          /\ pending' \in [DOMAIN pending' -> SUBSET Result]
          /\ event' = {r \in DOMAIN pending' : Complete(pending'[r])}
      BY <2>1, <2>2, <2>4, <3>1, FileKeeps
    <3> QED BY <2>2, <3>2 DEF TypeOK, NothingLeaks, Unborn, histVars
  <2> QED BY <2>3, <2>4
<1>6. ASSUME NEW r \in Rids, Begin(r) PROVE Dicts'
  <2>1. /\ pc[r] = "new" /\ pc' = [pc EXCEPT ![r] = "publishing"]
        /\ pending' = [k \in DOMAIN pending \cup {r} |->
                         IF k = r THEN {} ELSE pending[k]]
        /\ UNCHANGED <<cycles, event, results, action, hot, queue, bus, histVars>>
    BY <1>6 DEF Begin, WithEntry, Goto
  <2>2. ~Complete({})
    BY DirectorAssumption DEF Complete
  <2> QED BY <2>1, <2>2 DEF TypeOK, NothingLeaks, Unborn, Stages, histVars, Complete
<1>7. ASSUME NEW r \in Rids, NEW listening \in SUBSET Agents, Broadcast(r, listening)
      PROVE  Dicts'
  <2>1. \A a \in Agents : Append(queue[a], r) \in Seq(Rids)
    BY DEF TypeOK
  <2> QED BY <1>7, <2>1 DEF Broadcast, Goto, TypeOK, NothingLeaks, Unborn, Stages,
                            taskVars, histVars, Complete
<1>8. ASSUME NEW r \in Rids, Wake(r) \/ TimeOut(r) PROVE Dicts'
  BY <1>8, DictsTake DEF Wake, TimeOut, Stages
<1>9. ASSUME NEW r \in Rids, NEW act \in Actions, Choose(r, act) PROVE Dicts'
  <2>1. action' \in [Rids -> Actions]
    BY <1>9 DEF Choose, TypeOK
  <2> QED BY <1>9, <2>1, DictsMove DEF Choose, TypeOK, Stages, histVars
<1>10. ASSUME NEW r \in Rids,
              Insert(r) \/ Refrain(r) \/ Commit(r) \/ SendSignal(r) \/ Fail(r)
       PROVE  Dicts'
  <2>1. \E stage \in Stages \ {"publishing", "waiting"} : Goto(r, stage)
    BY <1>10 DEF Insert, Refrain, Commit, SendSignal, Fail, Stages
  <2>2. /\ pc[r] \notin {"unborn", "publishing", "waiting"}
        /\ UNCHANGED <<cycles, taskVars, queue, bus, said>>
    BY <1>10 DEF Insert, Refrain, Commit, SendSignal, Fail, histVars
  <2>3. /\ hot' \subseteq Symbols /\ rows' \subseteq Rids
        /\ signalled' \subseteq Rids /\ recent' \in [Symbols -> Nat]
    <3>1. CASE Insert(r)
      BY <3>1 DEF Insert, TypeOK
    <3>2. CASE Refrain(r) \/ Fail(r)
      BY <3>2 DEF Refrain, Fail, histVars, TypeOK
    <3>3. CASE Commit(r)
      BY <3>3, SymbolType DEF Commit, histVars, TypeOK
    <3>4. CASE SendSignal(r)
      <4>1. recent' = [recent EXCEPT ![SymbolOf(r)] = recent[SymbolOf(r)] + 1]
        BY <3>4 DEF SendSignal
      <4>2. SymbolOf(r) \in Symbols /\ recent[SymbolOf(r)] + 1 \in Nat
        BY SymbolType DEF TypeOK
      <4>3. recent' \in [Symbols -> Nat]
        BY <4>1, <4>2 DEF TypeOK
      <4> QED BY <3>4, <4>3 DEF SendSignal, TypeOK
    <3> QED BY <1>10, <3>1, <3>2, <3>3, <3>4
  <2> QED BY <2>1, <2>2, <2>3, DictsMove DEF TypeOK, taskVars
<1>11. ASSUME NEW s \in Symbols, Cool(s) PROVE Dicts'
  BY <1>11 DEF Cool, TypeOK, NothingLeaks, Unborn, taskVars, Complete
<1> QED BY <1>1, <1>2, <1>3, <1>4, <1>5, <1>6, <1>7, <1>8, <1>9, <1>10, <1>11
        DEF Next, Task

\* The collector's dicts keep their types and hold exactly what a task waits for.
THEOREM DictsHold == Spec => []Dicts
<1> QED BY DictsInit, DictsStep, PTL DEF Spec

\* Types of every variable of the Director.
THEOREM DirectorTypes == Spec => []TypeOK
<1>1. Dicts => TypeOK
  BY DEF Dicts
<1> QED BY <1>1, DictsHold, PTL

\* No entry outlives its task's wait and no event is set without its results, however
\* late the results come.
THEOREM NothingLeaksHolds == Spec => []NothingLeaks
<1>1. Dicts => NothingLeaks
  BY DEF Dicts
<1> QED BY <1>1, DictsHold, PTL

-----------------------------------------------------------------------------
(* The decisions.                                                          *)

\* No task goes back to before its broadcast.
Early == {"unborn", "new", "publishing"}

LEMMA Onwards ==
    ASSUME Dicts, [Next]_vars
    PROVE  \A r \in Rids : pc[r] \notin Early => pc'[r] \notin Early
<1> USE DEF Dicts, TypeOK, Early
<1>1. CASE UNCHANGED pc
  BY <1>1
<1>2. CASE Schedule
  <2>1. \A r \in Rids : pc'[r] = pc[r] \/ (pc[r] = "unborn" /\ pc'[r] = "new")
    BY <1>2, ScheduleStarts
  <2> QED BY <2>1
<1>3. ASSUME NEW r \in Rids, Task(r)
      PROVE  \A q \in Rids : pc[q] \notin Early => pc'[q] \notin Early
  <2>1. \E stage \in Stages : Goto(r, stage) /\ (stage \in Early => pc[r] \in Early)
    BY <1>3 DEF Task, Begin, Wake, TimeOut, Broadcast, Choose, Insert, Refrain, Commit,
                SendSignal, Fail, Stages
  <2> QED BY <2>1 DEF Goto
<1>4. [Next]_vars => UNCHANGED pc \/ Schedule \/ \E r \in Rids : Task(r)
  BY DEF Next, GiveUp, Answer, Collect, Cool, vars
<1> QED BY <1>1, <1>2, <1>3, <1>4

-----------------------------------------------------------------------------
(* What a decision rests on.                                               *)

\* Everything filed or taken was said, to the request it is filed under.
Heard ==
    /\ bus \subseteq said
    /\ \A r \in DOMAIN pending : \A m \in pending[r] : m \in said /\ m.rid = r
    /\ \A r \in Rids : \A m \in results[r] : m \in said /\ m.rid = r

LEMMA HeardStep ==
    ASSUME Dicts, Heard, [Next]_vars
    PROVE  Heard'
<1> USE DEF Dicts, TypeOK, Heard
<1>1. CASE UNCHANGED <<pending, results, bus, said>>
  BY <1>1
<1>2. ASSUME NEW a \in Agents, NEW ok \in BOOLEAN, Answer(a, ok) PROVE Heard'
  BY <1>2 DEF Answer, taskVars
<1>3. ASSUME NEW m \in bus, Collect(m) PROVE Heard'
  <2>1. m \in said /\ bus' \subseteq bus /\ said' = said /\ results' = results
    BY <1>3 DEF Collect, histVars
  <2>2. CASE m.rid \notin DOMAIN pending
    BY <1>3, <2>1, <2>2 DEF Collect
  <2>3. CASE m.rid \in DOMAIN pending
    <3>1. pending' = [k \in DOMAIN pending |->
                         IF k = m.rid THEN pending[k] \cup {m} ELSE pending[k]]
      BY <1>3, <2>3 DEF Collect, File, WithEntry
    <3> QED BY <2>1, <3>1
  <2> QED BY <2>2, <2>3
<1>4. ASSUME NEW r \in Rids, Begin(r) PROVE Heard'
  BY <1>4 DEF Begin, WithEntry, histVars
<1>5. ASSUME NEW r \in Rids, Wake(r) \/ TimeOut(r) PROVE Heard'
  <2>1. /\ pending' = [k \in DOMAIN pending \ {r} |-> pending[k]]
        /\ results' = [results EXCEPT ![r] = pending[r]]
        /\ bus' = bus /\ said' = said
    BY <1>5 DEF Wake, TimeOut, TakeResults, Forget, Restrict, histVars
  <2>2. r \in DOMAIN pending
    BY <1>5 DEF Wake, TimeOut, NothingLeaks
  <2> QED BY <2>1, <2>2
<1>6. [Next]_vars =>
        \/ UNCHANGED <<pending, results, bus, said>>
        \/ \E a \in Agents, ok \in BOOLEAN : Answer(a, ok)
        \/ \E m \in bus : Collect(m)
        \/ \E r \in Rids : Begin(r) \/ Wake(r) \/ TimeOut(r)
  BY DEF Next, Task, vars, taskVars, histVars, Schedule, GiveUp, Broadcast, Choose, Insert,
         Refrain, Commit, SendSignal, Fail, Cool
<1> QED BY <1>1, <1>2, <1>3, <1>4, <1>5, <1>6

\* A decision rests on a complete panel, and one to trade on the portfolio agent's
\* approval; it is in the table before anything is done about it.
Grounded ==
    /\ \A r \in Rids : pc[r] \in {"asking", "inserting", "deciding", "signalling"} =>
          Complete(results[r])
    /\ \A r \in Rids : pc[r] \in {"inserting", "deciding", "signalling"} =>
          (action[r] = "hold" \/ Approved(r))
    /\ \A r \in Rids : pc[r] \in {"deciding", "signalling"} => r \in rows
    /\ \A r \in Rids : pc[r] = "signalling" => action[r] # "hold"
    /\ \A r \in rows : pc[r] \in {"deciding", "signalling", "done"}
    /\ \A r \in rows : Complete(results[r])
    /\ signalled \subseteq {r \in rows : Approved(r)}

LEMMA GroundedStep ==
    ASSUME Dicts, Grounded, [Next]_vars
    PROVE  Grounded'
<1> USE DEF Dicts, TypeOK, Grounded, Approved
<1>1. CASE UNCHANGED <<pc, results, action, rows, signalled>>
  BY <1>1
<1>2. CASE Schedule
  <2>1. \A r \in Rids : pc'[r] = pc[r] \/ (pc[r] = "unborn" /\ pc'[r] = "new")
    BY <1>2, ScheduleStarts
  <2> QED BY <1>2, <2>1 DEF Schedule, taskVars, histVars
<1>3. ASSUME NEW r \in Rids, Begin(r) PROVE Grounded'
  BY <1>3 DEF Begin, Goto, histVars
<1>4. ASSUME NEW r \in Rids, NEW listening \in SUBSET Agents, Broadcast(r, listening)
      PROVE  Grounded'
  BY <1>4 DEF Broadcast, Goto, taskVars, histVars
<1>5. ASSUME NEW r \in Rids, Wake(r) \/ TimeOut(r) PROVE Grounded'
  <2>1. /\ results' = [results EXCEPT ![r] = pending[r]]
        /\ UNCHANGED <<action, rows, signalled>>
        /\ pc[r] = "waiting"
    BY <1>5 DEF Wake, TimeOut, TakeResults, histVars
  <2>2. \/ Goto(r, "asking") /\ Complete(pending[r])
        \/ Goto(r, "done")
    BY <1>5 DEF Wake, TimeOut, NothingLeaks
  <2>3. pc' \in [Rids -> Stages] /\ \A q \in Rids : q # r =>
            pc'[q] = pc[q] /\ results'[q] = results[q]
    BY <2>1, <2>2 DEF Goto, Stages
  <2>4. /\ \/ pc'[r] = "asking" /\ Complete(results'[r])
           \/ pc'[r] = "done"
        /\ r \notin rows
    BY <2>1, <2>2 DEF Goto
  <2> QED BY <2>1, <2>3, <2>4
<1>6. ASSUME NEW r \in Rids, NEW act \in Actions, Choose(r, act) PROVE Grounded'
  BY <1>6 DEF Choose, Goto, histVars
<1>7. ASSUME NEW r \in Rids, Insert(r) PROVE Grounded'
  BY <1>7 DEF Insert, Goto, taskVars
<1>8. ASSUME NEW r \in Rids, Refrain(r) \/ Fail(r) PROVE Grounded'
  BY <1>8 DEF Refrain, Fail, Goto, taskVars, histVars
<1>9. ASSUME NEW r \in Rids, Commit(r) PROVE Grounded'
  BY <1>9 DEF Commit, Goto, taskVars, histVars
<1>10. ASSUME NEW r \in Rids, SendSignal(r) PROVE Grounded'
  BY <1>10 DEF SendSignal, Goto, taskVars
<1>11. [Next]_vars =>
         \/ UNCHANGED <<pc, results, action, rows, signalled>>
         \/ Schedule
         \/ \E r \in Rids : Task(r)
  BY DEF Next, vars, taskVars, histVars, GiveUp, Answer, Collect, Cool
<1> QED BY <1>1, <1>2, <1>3, <1>4, <1>5, <1>6, <1>7, <1>8, <1>9, <1>10, <1>11 DEF Task

THEOREM GroundedHolds == Spec => [](Heard /\ Grounded)
<1>1. Init => Heard /\ Grounded
  BY DEF Init, Heard, Grounded
<1>2. Dicts /\ Heard /\ Grounded /\ [Next]_vars => Heard' /\ Grounded'
  BY HeardStep, GroundedStep
<1> QED BY <1>1, <1>2, DictsHold, PTL DEF Spec

-----------------------------------------------------------------------------
(* One answer of an agent to a request.                                    *)

\* A request is in a queue once.
Once(q) == \A i, j \in 1 .. Len(q) : q[i] = q[j] => i = j

\* An agent receives a request once, when it is published, and answers it at most once.
AnsweredOnce ==
    /\ \A a \in Agents : Once(queue[a])
    /\ \A a \in Agents : \A i \in 1 .. Len(queue[a]) :
          /\ pc[queue[a][i]] \notin Early
          /\ \A m \in said : m.agent = a => m.rid # queue[a][i]
    /\ \A m \in said : pc[m.rid] \notin Early
    /\ \A m1, m2 \in said : (m1.agent = m2.agent /\ m1.rid = m2.rid) => m1 = m2

\* What is left of a queue is what was there but its head.
LEMMA TailOnce ==
    ASSUME NEW S, NEW q \in Seq(S), q # <<>>, Once(q)
    PROVE  /\ Once(Tail(q)) /\ Tail(q) \in Seq(S)
           /\ \E i \in 1 .. Len(q) : Head(q) = q[i]
           /\ \A i \in 1 .. Len(Tail(q)) :
                 Tail(q)[i] # Head(q) /\ \E j \in 1 .. Len(q) : Tail(q)[i] = q[j]
<1>1. /\ Len(q) \in Nat \ {0} /\ Head(q) = q[1] /\ Tail(q) \in Seq(S)
      /\ Len(Tail(q)) = Len(q) - 1
      /\ \A i \in 1 .. Len(Tail(q)) : Tail(q)[i] = q[i + 1]
  OBVIOUS
<1>2. \A i \in 1 .. Len(Tail(q)) : i \in Int /\ i + 1 \in 1 .. Len(q) /\ i + 1 # 1
  BY <1>1
<1>3. 1 \in 1 .. Len(q)
  BY <1>1
<1>4. Once(Tail(q))
  BY <1>1, <1>2 DEF Once
<1> QED BY <1>1, <1>2, <1>3, <1>4 DEF Once

\* A new request joins the others.
LEMMA AppendOnce ==
    ASSUME NEW S, NEW q \in Seq(S), NEW r, Once(q), \A i \in 1 .. Len(q) : q[i] # r
    PROVE  /\ Once(Append(q, r))
           /\ \A i \in 1 .. Len(Append(q, r)) :
                 \/ Append(q, r)[i] = r
                 \/ \E j \in 1 .. Len(q) : Append(q, r)[i] = q[j]
<1>1. Len(q) \in Nat /\ Len(Append(q, r)) = Len(q) + 1
  OBVIOUS
<1>2. \A i \in 1 .. Len(Append(q, r)) :
        \/ i = Len(q) + 1 /\ Append(q, r)[i] = r
        \/ i \in 1 .. Len(q) /\ Append(q, r)[i] = q[i]
  BY <1>1
<1> QED BY <1>1, <1>2 DEF Once

LEMMA AnsweredOnceStep ==
    ASSUME Dicts, Heard, AnsweredOnce, [Next]_vars
    PROVE  AnsweredOnce'
<1> USE DEF AnsweredOnce, TypeOK, Dicts, Early
<1>1. ASSUME UNCHANGED <<queue, said>> PROVE AnsweredOnce'
  <2>1. \A a \in Agents : \A i \in 1 .. Len(queue[a]) : queue[a][i] \in Rids
    OBVIOUS
  <2>2. \A m \in said : m.rid \in Rids
    BY DEF Result
  <2> QED BY <1>1, <2>1, <2>2, Onwards DEF Early
<1>2. ASSUME NEW a \in Agents, queue[a] # <<>>, pc' = pc,
             queue' = [queue EXCEPT ![a] = Tail(queue[a])],
             \/ said' = said
             \/ \E ok \in BOOLEAN :
                    said' = said \cup {[agent |-> a, rid |-> Head(queue[a]), ok |-> ok]}
      PROVE  AnsweredOnce'
  <2> DEFINE q == queue[a]
  <2>1. q \in Seq(Rids) /\ q # <<>> /\ Once(q)
    BY <1>2
  <2>2. /\ Once(Tail(q)) /\ \E i \in 1 .. Len(q) : Head(q) = q[i]
        /\ \A i \in 1 .. Len(Tail(q)) :
              Tail(q)[i] # Head(q) /\ \E j \in 1 .. Len(q) : Tail(q)[i] = q[j]
    BY <2>1, TailOnce
  <2>4. /\ pc[Head(q)] \notin Early
        /\ \A m \in said : m.agent = a => m.rid # Head(q)
    BY <2>2
  <2>5. \A i \in 1 .. Len(Tail(q)) :
          /\ pc[Tail(q)[i]] \notin Early
          /\ \A m \in said : m.agent = a => m.rid # Tail(q)[i]
    BY <2>2
  <2>6. \A b \in Agents : queue'[b] = IF b = a THEN Tail(q) ELSE queue[b]
    BY <1>2
  <2> HIDE DEF q
  <2>7. \A b \in Agents : Once(queue'[b])
    BY <2>2, <2>6
  <2>8. \A m \in said' : m \in said \/ (m.agent = a /\ m.rid = Head(q))
    BY <1>2 DEF q
  <2>9. ASSUME NEW b \in Agents, NEW i \in 1 .. Len(queue'[b])
        PROVE  /\ pc[queue'[b][i]] \notin Early
               /\ \A m \in said' : m.agent = b => m.rid # queue'[b][i]
    <3>1. CASE b = a
      <4>1. queue'[b] = Tail(q)
        BY <2>6, <3>1
      <4> QED BY <2>2, <2>5, <2>8, <3>1, <4>1
    <3>2. CASE b # a
      <4>1. queue'[b] = queue[b]
        BY <2>6, <3>2
      <4> QED BY <2>8, <3>2, <4>1
    <3> QED BY <3>1, <3>2
  <2>10. \A m1, m2 \in said' : (m1.agent = m2.agent /\ m1.rid = m2.rid) => m1 = m2
    BY <1>2, <2>4, <2>8 DEF q
  <2> QED BY <1>2, <2>4, <2>7, <2>8, <2>9, <2>10
<1>3. ASSUME NEW r \in Rids, NEW listening \in SUBSET Agents, Broadcast(r, listening)
      PROVE  AnsweredOnce'
  <2>1. /\ pc[r] = "publishing" /\ pc' = [pc EXCEPT ![r] = "waiting"] /\ said' = said
        /\ \A a \in Agents :
              queue'[a] = IF a \in listening THEN Append(queue[a], r) ELSE queue[a]
    BY <1>3 DEF Broadcast, Goto, histVars
  <2>2. \A m \in said : m.rid # r /\ m.rid \in Rids
    BY <2>1 DEF Result
  <2>3. ASSUME NEW a \in Agents
        PROVE  /\ Once(queue'[a])
               /\ \A i \in 1 .. Len(queue'[a]) :
                     \/ queue'[a][i] = r
                     \/ \E j \in 1 .. Len(queue[a]) : queue'[a][i] = queue[a][j]
    <3>1. queue[a] \in Seq(Rids) /\ Once(queue[a])
      OBVIOUS
    <3>2. \A i \in 1 .. Len(queue[a]) : queue[a][i] # r
      BY <2>1
    <3>3. queue'[a] = Append(queue[a], r) \/ queue'[a] = queue[a]
      BY <2>1
    <3> HIDE DEF AnsweredOnce, TypeOK, Dicts
    <3>4. CASE queue'[a] = queue[a]
      BY <3>1, <3>4
    <3>5. CASE queue'[a] = Append(queue[a], r)
      <4>1. /\ Once(Append(queue[a], r))
            /\ \A i \in 1 .. Len(Append(queue[a], r)) :
                  \/ Append(queue[a], r)[i] = r
                  \/ \E j \in 1 .. Len(queue[a]) : Append(queue[a], r)[i] = queue[a][j]
        BY <3>1, <3>2, AppendOnce
      <4> QED BY <3>5, <4>1
    <3> QED BY <3>3, <3>4, <3>5
  <2>4. ASSUME NEW a \in Agents, NEW i \in 1 .. Len(queue'[a])
        PROVE  /\ pc'[queue'[a][i]] \notin Early
               /\ \A m \in said' : m.agent = a => m.rid # queue'[a][i]
    <3>1. CASE queue'[a][i] = r
      BY <2>1, <2>2, <3>1
    <3>2. CASE \E j \in 1 .. Len(queue[a]) : queue'[a][i] = queue[a][j]
      <4>1. PICK j \in 1 .. Len(queue[a]) : queue'[a][i] = queue[a][j]
        BY <3>2
      <4>2. /\ queue[a][j] \in Rids /\ pc[queue[a][j]] \notin Early
            /\ \A m \in said : m.agent = a => m.rid # queue[a][j]
        OBVIOUS
      <4> QED BY <2>1, <4>1, <4>2
    <3> QED BY <2>3, <3>1, <3>2
  <2> QED BY <2>1, <2>2, <2>3, <2>4
<1>4. [Next]_vars =>
        \/ UNCHANGED <<queue, said>>
        \/ \E a \in Agents : GiveUp(a)
        \/ \E a \in Agents, ok \in BOOLEAN : Answer(a, ok)
        \/ \E r \in Rids, listening \in SUBSET Agents : Broadcast(r, listening)
  BY DEF Next, Task, vars, taskVars, histVars, Schedule, Collect, Begin, Wake, TimeOut,
         Choose, Insert, Refrain, Commit, SendSignal, Fail, Cool
<1>5. ASSUME NEW a \in Agents, GiveUp(a) PROVE AnsweredOnce'
  BY <1>2, <1>5 DEF GiveUp, histVars
<1>6. ASSUME NEW a \in Agents, NEW ok \in BOOLEAN, Answer(a, ok) PROVE AnsweredOnce'
  BY <1>2, <1>6 DEF Answer
<1> QED BY <1>1, <1>3, <1>4, <1>5, <1>6

\* A decision is stored only after every agent has answered that very request, and a
\* signal published only when the portfolio agent's answer to it was an approval.
THEOREM FullPanelHolds == Spec => []FullPanel
<1>1. Init => AnsweredOnce
  BY DEF Init, AnsweredOnce, Once
<1>2. Dicts /\ Heard /\ AnsweredOnce /\ [Next]_vars => AnsweredOnce'
  BY AnsweredOnceStep
<1>3. ASSUME Dicts, Heard, Grounded, NEW r \in rows \cup signalled, NEW a \in Agents
      PROVE  \E m \in said : m.agent = a /\ m.rid = r
  <2>1. r \in Rids /\ Complete(results[r])
    BY <1>3 DEF Grounded, Dicts, TypeOK
  <2>2. PICK m \in results[r] : m.agent = a
    BY <2>1 DEF Complete
  <2> QED BY <1>3, <2>1, <2>2 DEF Heard
<1>4. ASSUME Dicts, Heard, Grounded, AnsweredOnce, NEW r \in signalled,
             NEW m \in said, m.rid = r, m.agent = Portfolio
      PROVE  m.ok
  <2>1. r \in Rids /\ Approved(r)
    BY <1>4 DEF Grounded, Dicts, TypeOK
  <2>2. PICK k \in results[r] : k.agent = Portfolio /\ k.ok
    BY <2>1 DEF Approved
  <2>3. k \in said /\ k.rid = r
    BY <1>4, <2>1, <2>2 DEF Heard
  <2> QED BY <1>4, <2>1, <2>2, <2>3 DEF AnsweredOnce
<1>5. Dicts /\ Heard /\ Grounded /\ AnsweredOnce => FullPanel
  BY <1>3, <1>4 DEF FullPanel
<1> QED BY <1>1, <1>2, <1>5, DictsHold, GroundedHolds, PTL DEF Spec

-----------------------------------------------------------------------------
(* The cooldown.                                                           *)

\* A symbol has a signal only while it is hot, and at most one; and the task that is
\* about to signal has the cooldown of its symbol to itself.
Cooling ==
    /\ \A s \in Symbols : recent[s] <= 1
    /\ \A s \in Symbols : s \notin hot => recent[s] = 0
    /\ \A r \in Rids : pc[r] = "signalling" =>
          SymbolOf(r) \in hot /\ recent[SymbolOf(r)] = 0
    /\ \A r1, r2 \in Rids :
          (pc[r1] = "signalling" /\ pc[r2] = "signalling" /\ SymbolOf(r1) = SymbolOf(r2))
             => r1 = r2

LEMMA CoolingStep ==
    ASSUME Dicts, Cooling, [Next]_vars
    PROVE  Cooling'
<1> USE DEF Dicts, TypeOK, Cooling
<1>1. ASSUME UNCHANGED <<hot, recent>>,
             \A r \in Rids : pc'[r] = "signalling" => pc[r] = "signalling"
      PROVE  Cooling'
  BY <1>1, SymbolType
<1>2. ASSUME NEW r \in Rids, Commit(r) PROVE Cooling'
  <2>1. /\ SymbolOf(r) \notin hot /\ hot' = hot \cup {SymbolOf(r)} /\ recent' = recent
        /\ pc' = [pc EXCEPT ![r] = "signalling"]
    BY <1>2 DEF Commit, Goto, histVars
  <2> QED BY <2>1, SymbolType
<1>3. ASSUME NEW r \in Rids, SendSignal(r) PROVE Cooling'
  <2>1. /\ pc[r] = "signalling" /\ pc' = [pc EXCEPT ![r] = "done"] /\ hot' = hot
        /\ recent' = [recent EXCEPT ![SymbolOf(r)] = recent[SymbolOf(r)] + 1]
    BY <1>3 DEF SendSignal, Goto
  <2>2. \A q \in Rids : pc'[q] = "signalling" => q # r /\ pc[q] = "signalling"
    BY <2>1
  <2>3. \A q \in Rids : pc'[q] = "signalling" => SymbolOf(q) # SymbolOf(r)
    BY <2>1, <2>2
  <2>4. \A s \in Symbols : recent'[s] = IF s = SymbolOf(r) THEN 1 ELSE recent[s]
    BY <2>1, SymbolType
  <2> QED BY <2>1, <2>2, <2>3, <2>4, SymbolType
<1>4. ASSUME NEW s \in Symbols, Cool(s) PROVE Cooling'
  <2>1. /\ \A r \in Rids : pc[r] = "signalling" => SymbolOf(r) # s
        /\ hot' = hot \ {s} /\ recent' = [recent EXCEPT ![s] = 0] /\ pc' = pc
    BY <1>4 DEF Cool
  <2> QED BY <2>1, SymbolType
<1>5. CASE Schedule
  <2>1. \A r \in Rids : pc'[r] = pc[r] \/ (pc[r] = "unborn" /\ pc'[r] = "new")
    BY <1>5, ScheduleStarts
  <2> QED BY <1>1, <1>5, <2>1 DEF Schedule, histVars
<1>6. ASSUME NEW r \in Rids,
             \E stage \in Stages \ {"signalling"} : Goto(r, stage),
             UNCHANGED <<hot, recent>>
      PROVE  Cooling'
  BY <1>1, <1>6 DEF Goto
<1>7. [Next]_vars =>
        \/ UNCHANGED <<pc, hot, recent>>
        \/ Schedule
        \/ \E r \in Rids : Commit(r) \/ SendSignal(r)
        \/ \E s \in Symbols : Cool(s)
        \/ \E r \in Rids : /\ \E stage \in Stages \ {"signalling"} : Goto(r, stage)
                           /\ UNCHANGED <<hot, recent>>
  <2>1. ASSUME NEW r \in Rids, Task(r), ~Commit(r), ~SendSignal(r)
        PROVE  /\ \E stage \in Stages \ {"signalling"} : Goto(r, stage)
               /\ UNCHANGED <<hot, recent>>
    BY <2>1 DEF Task, histVars, Begin, Broadcast, Wake, TimeOut, Choose, Insert, Refrain,
                Fail, Stages
  <2> QED BY <2>1 DEF Next, vars, histVars, GiveUp, Answer, Collect
<1> QED BY <1>1, <1>2, <1>3, <1>4, <1>5, <1>6, <1>7

\* However the tasks of overlapping cycles interleave, a symbol has at most one signal
\* in a cooldown period.
THEOREM OneSignalPerCooldownHolds == Spec => []OneSignalPerCooldown
<1>1. Init => Cooling
  BY SymbolType DEF Init, Cooling
<1>2. Dicts /\ Cooling /\ [Next]_vars => Cooling'
  BY CoolingStep
<1>3. Cooling => OneSignalPerCooldown
  BY DEF Cooling, OneSignalPerCooldown
<1> QED BY <1>1, <1>2, <1>3, DictsHold, PTL DEF Spec
===============================================================================
