------------------------------ MODULE Learning ------------------------------
(***************************************************************************)
(* What the program learns from its trades: the reward computer that hears *)
(* of each closed position (RewardComputer, compute_reward), the policy it *)
(* trains (PPOPolicy), and the prompt of the director, rewritten from the  *)
(* rewarded trades (PromptEvolutionEngine) and read through a cache        *)
(* (PromptStore).                                                          *)
(*                                                                         *)
(* Three links tie a trade to its reward, and the program has none of them *)
(* (Wiring = {}): nothing calls register_open, the rl_tuples row names no  *)
(* trade, and neither does the position.update of a close.  With all three *)
(* the handlers can be checked as their docstrings mean them.              *)
(*                                                                         *)
(* The engine and the language model are external.                         *)
(***************************************************************************)
EXTENDS Integers, FiniteSets, Sequences, SequencesExt

CONSTANTS
    Wiring,         \* a subset of {"register", "row", "update"}
    Markets,        \* the symbols traded
    Outcomes,       \* realized P&L of a trade, in percent of its size
    Ratios,         \* tp_pct / sl_pct of a trade
    MinTrain,       \* min_train_samples
    MaxBuffer,      \* max_buffer_size
    MaxTrades,      \* bound: the trades opened
    MaxVersions     \* bound: the versions of the director's prompt

ASSUME LearningAssumption ==
    /\ Wiring \subseteq {"register", "row", "update"}
    /\ Outcomes \subseteq Int /\ Ratios \subseteq Nat
    /\ {MinTrain, MaxBuffer, MaxTrades, MaxVersions} \subseteq Nat \ {0}

VARIABLES
    opened,         \* the symbols of the trades opened so far, by trade
    open,           \* the trade open on each symbol, or 0
    unstored,       \* trades whose rl_tuples row is still to be inserted
    tuples,         \* rl_tuples: the reward of each row, or Null
    updates,        \* closed positions announced and not handled
    entryInfo,      \* _entry_info: the trade registered for each symbol, or 0
    computer,       \* the reward computer: what it does, and the close at hand
    buffer,         \* PPOPolicy._buffer, oldest first
    policy,         \* whether the policy has been trained: is_trained
    active,         \* agent_prompts: the active version, 0 before the first
    cache,          \* PromptStore._cache: the version it holds, or 0
    prompts,        \* _current_prompt and current_prompt: what each reader got
    reading,        \* the version each reader has read and not yet cached
    evolution       \* what the evolution task does

rewardVars == <<opened, open, unstored, tuples, updates, entryInfo, computer, buffer, policy>>
promptVars == <<active, cache, prompts, reading, evolution>>
learningVars == <<rewardVars, promptVars>>

Null == <<>>     \* a reward r is <<r>>
Listening == [phase |-> "listen", close |-> 0, entry |-> 0, reward |-> 0, row |-> FALSE]
Readers == {"director", "evolution"}

-----------------------------------------------------------------------------
(* The engine's trades, and their rows.                                    *)

\* A trade opens; wired, register_open overwrites what its symbol has.
OpenTrade(s) ==
    /\ open[s] = 0 /\ Len(opened) < MaxTrades
    /\ opened' = Append(opened, s)
    /\ open' = [open EXCEPT ![s] = Len(opened')]
    /\ unstored' = unstored \cup {Len(opened')}
    /\ entryInfo' = IF "register" \in Wiring THEN [entryInfo EXCEPT ![s] = Len(opened')] ELSE entryInfo
    /\ UNCHANGED <<tuples, updates, computer, buffer, policy, promptVars>>

\* StorageSubscriber on trade.executed: the row's reward is NULL.  A statement
\* that raises leaves the trade without a row.
InsertTuple ==
    /\ \E id \in unstored :
          /\ unstored' = unstored \ {id}
          /\ tuples' \in {tuples, [n \in DOMAIN tuples \cup {id} |-> IF n = id THEN Null ELSE tuples[n]]}
    /\ UNCHANGED <<opened, open, updates, entryInfo, computer, buffer, policy, promptVars>>

CloseTrade(s) ==
    /\ open[s] # 0
    /\ \E pnl \in Outcomes : updates' = Append(updates, [symbol |-> s, trade |-> open[s], pnl |-> pnl])
    /\ open' = [open EXCEPT ![s] = 0]
    /\ UNCHANGED <<opened, unstored, tuples, entryInfo, computer, buffer, policy, promptVars>>

-----------------------------------------------------------------------------
(* compute_reward, in 1/10000.  pnl is in percent of the position.         *)

Within(lo, hi, x) == IF x < lo THEN lo ELSE IF x > hi THEN hi ELSE x

ComputeReward(pnl, ratio) ==
    LET win == IF pnl > 0 THEN 2000 ELSE IF pnl = 0 THEN 0 ELSE -1000
        fall == IF pnl < 0 THEN -pnl ELSE 0
        late == IF pnl < 0 THEN 500 ELSE 0     \* a loss counts as all its time in loss
    IN  Within(-50000, 50000,
               40 * Within(-100, 100, pnl) + win + 400 * Within(0, 5, ratio) - 45 * fall - late)

-----------------------------------------------------------------------------
(* RewardComputer._handle_close: it awaits the features, the statement and *)
(* the training in turn.                                                   *)

\* a mutant: the entry is looked up and stays
HandleClose_KeepsEntry ==
    /\ computer.phase = "listen" /\ updates # <<>>
    /\ \E ratio \in Ratios :
          LET u == Head(updates)
          IN  computer' = [phase |-> "features", close |-> u.trade, entry |-> entryInfo[u.symbol],
                           reward |-> ComputeReward(u.pnl, IF entryInfo[u.symbol] = 0 THEN 2 ELSE ratio),
                           row |-> FALSE]
    /\ updates' = Tail(updates)
    /\ UNCHANGED <<opened, open, unstored, tuples, entryInfo, buffer, policy, promptVars>>

\* The entry registered for the symbol, if any, is taken out; without one the
\* stop and take profit are 2 % and 4 %.
HandleClose ==
    /\ computer.phase = "listen" /\ updates # <<>>
    /\ \E ratio \in Ratios :
          LET u == Head(updates)
          IN  /\ computer' = [phase |-> "features", close |-> u.trade, entry |-> entryInfo[u.symbol],
                              reward |-> ComputeReward(u.pnl, IF entryInfo[u.symbol] = 0 THEN 2 ELSE ratio),
                              row |-> FALSE]
              /\ entryInfo' = [entryInfo EXCEPT ![u.symbol] = 0]
    /\ updates' = Tail(updates)
    /\ UNCHANGED <<opened, open, unstored, tuples, buffer, policy, promptVars>>

BuildNextState ==
    /\ computer.phase = "features"
    /\ computer' = [computer EXCEPT !.phase = "store"]
    /\ UNCHANGED <<opened, open, unstored, tuples, updates, entryInfo, buffer, policy, promptVars>>

\* "row" only records that the trade has its row when the statement runs.
\* UPDATE rl_tuples ... WHERE action->>'correlation_id' = $1 AND reward IS NULL.
Matches(id) == {"row", "update"} \subseteq Wiring /\ id \in DOMAIN tuples /\ tuples[id] = Null

UpdateTuple ==
    /\ computer.phase = "store"
    /\ tuples' = IF Matches(computer.close) THEN [tuples EXCEPT ![computer.close] = <<computer.reward>>] ELSE tuples
    /\ computer' = [computer EXCEPT !.phase = "policy", !.row = computer.close \in DOMAIN tuples]
    /\ UNCHANGED <<opened, open, unstored, updates, entryInfo, buffer, policy, promptVars>>

\* PPOPolicy.update: a deque drops its oldest element when it is full.
UpdatePolicy ==
    /\ computer.phase = "policy"
    /\ IF computer.entry = 0
       THEN computer' = Listening /\ UNCHANGED buffer
       ELSE /\ LET kept == IF Len(buffer) = MaxBuffer THEN Tail(buffer) ELSE buffer
               IN  buffer' = Append(kept, [entry |-> computer.entry, reward |-> computer.reward])
            /\ computer' = [computer EXCEPT !.phase = "train"]
    /\ UNCHANGED <<opened, open, unstored, tuples, updates, entryInfo, policy, promptVars>>

\* PPOPolicy.maybe_train in its thread: too few samples, an error that is
\* logged, or a training on the newest MinTrain samples.
MaybeTrain ==
    /\ computer.phase = "train"
    /\ policy' \in (IF Len(buffer) < MinTrain THEN {policy} ELSE {policy, TRUE})
    /\ computer' = Listening
    /\ UNCHANGED <<opened, open, unstored, tuples, updates, entryInfo, buffer, promptVars>>

\* The process ends and starts anew; one cause is run(), which catches nothing: a
\* statement that raises ends the task, and gather() the process.  What was in
\* memory is gone, the open positions and the policy too; the tables stay.
ProcessRestarts ==
    /\ open' = [s \in Markets |-> 0] /\ unstored' = {} /\ updates' = <<>>
    /\ entryInfo' = [s \in Markets |-> 0] /\ computer' = Listening
    /\ buffer' = <<>> /\ policy' = FALSE
    /\ cache' = 0 /\ prompts' = [r \in Readers |-> 0] /\ reading' = [r \in Readers |-> 0]
    /\ evolution' = "sleep"
    /\ UNCHANGED <<opened, tuples, active>>

RewardComputer ==
    \/ HandleClose \/ BuildNextState \/ UpdateTuple \/ UpdatePolicy \/ MaybeTrain

-----------------------------------------------------------------------------
(* PromptStore.                                                            *)

\* get() finds the prompt in the cache.
GetCached(r) == cache # 0 /\ prompts' = [prompts EXCEPT ![r] = cache] /\ UNCHANGED reading

\* get() awaits the active row; without one, or when the statement raises, the
\* reader takes its default.
GetActive(r) ==
    /\ cache = 0 /\ reading[r] = 0
    /\ \/ active # 0 /\ reading' = [reading EXCEPT ![r] = active] /\ UNCHANGED prompts
       \/ prompts' = [prompts EXCEPT ![r] = 0] /\ UNCHANGED reading

\* ... and puts what it read into the cache.
GetFills(r) ==
    /\ reading[r] # 0
    /\ cache' = reading[r]
    /\ prompts' = [prompts EXCEPT ![r] = reading[r]]
    /\ reading' = [reading EXCEPT ![r] = 0]

\* The director asks every tenth cycle.
DirectorGets ==
    /\ reading["director"] = 0
    /\ GetCached("director") \/ GetActive("director")
    /\ UNCHANGED <<active, cache, evolution, rewardVars>>

DirectorFills ==
    /\ GetFills("director")
    /\ UNCHANGED <<active, evolution, rewardVars>>

-----------------------------------------------------------------------------
(* PromptEvolutionEngine.run and run_once.                                 *)

\* get_recent_closed_trades: closed trades joined with their rewards.
Rewarded == {id \in DOMAIN tuples : "row" \in Wiring /\ tuples[id] # Null}

\* No row names an agent, so that every reward is the director's.
ScoreAgents == IF Rewarded = {} THEN {} ELSE {"director"}

Go(from, to) == evolution = from /\ evolution' = to

\* The interval is over.  It is long: no read of the director lasts through it.
Wake ==
    /\ Go("sleep", "score")
    /\ reading["director"] = 0 /\ active < MaxVersions
    /\ UNCHANGED <<active, cache, prompts, reading, rewardVars>>

ReadTrades ==
    /\ \/ ScoreAgents # {} /\ Go("score", "get")
       \/ Go("score", "sleep")      \* no trades, or the statement raises
    /\ UNCHANGED <<active, cache, prompts, reading, rewardVars>>

EvolutionGets ==
    /\ GetCached("evolution") \/ GetActive("evolution")
    /\ IF reading'["evolution"] = 0 THEN Go("get", "ask") ELSE Go("get", "fill")
    /\ UNCHANGED <<active, cache, rewardVars>>

EvolutionFills ==
    /\ GetFills("evolution")
    /\ Go("fill", "ask")
    /\ UNCHANGED <<active, rewardVars>>

\* The language model answers with a prompt, or the cycle is given up.
AskModel ==
    /\ Go("ask", "save") \/ Go("ask", "sleep")
    /\ UNCHANGED <<active, cache, prompts, reading, rewardVars>>

\* save_agent_prompt: one transaction deactivates every version and inserts the
\* next one.
SaveAgentPrompt ==
    /\ \/ Go("save", "invalidate") /\ active' = active + 1
       \/ Go("save", "sleep") /\ UNCHANGED active
    /\ UNCHANGED <<cache, prompts, reading, rewardVars>>

\* a mutant: save() leaves the cache alone
Invalidate_Not ==
    /\ Go("invalidate", "sleep")
    /\ UNCHANGED <<active, cache, prompts, reading, rewardVars>>

Invalidate ==
    /\ Go("invalidate", "sleep")
    /\ cache' = 0
    /\ UNCHANGED <<active, prompts, reading, rewardVars>>

Evolution ==
    \/ Wake \/ ReadTrades \/ EvolutionGets \/ EvolutionFills
    \/ AskModel \/ SaveAgentPrompt \/ Invalidate

-----------------------------------------------------------------------------
LearningInit ==
    /\ opened = <<>> /\ open = [s \in Markets |-> 0]
    /\ unstored = {} /\ tuples = <<>> /\ updates = <<>>
    /\ entryInfo = [s \in Markets |-> 0] /\ computer = Listening
    /\ buffer = <<>> /\ policy = FALSE
    /\ active = 0 /\ cache = 0
    /\ prompts = [r \in Readers |-> 0] /\ reading = [r \in Readers |-> 0]
    /\ evolution = "sleep"

LearningNext ==
    \/ \E s \in Markets : OpenTrade(s) \/ CloseTrade(s)
    \/ InsertTuple \/ RewardComputer \/ ProcessRestarts
    \/ DirectorGets \/ DirectorFills \/ Evolution

-----------------------------------------------------------------------------
LearningTypeOK ==
    /\ \A s \in Markets : {open[s], entryInfo[s]} \subseteq 0 .. Len(opened)
    /\ unstored \cup DOMAIN tuples \subseteq 1 .. Len(opened)
    /\ computer.phase \in {"listen", "features", "store", "policy", "train"}
    /\ -50000 <= computer.reward /\ computer.reward <= 50000
    /\ Len(buffer) <= MaxBuffer /\ policy \in BOOLEAN
    /\ {active, cache} \cup {prompts[r] : r \in Readers} \cup {reading[r] : r \in Readers} \subseteq 0 .. MaxVersions
    /\ evolution \in {"sleep", "score", "get", "fill", "ask", "save", "invalidate"}

\* The entry of a trade is learnt from once: no registered entry state enters the
\* policy's buffer with the rewards of two closes, however closes, openings of
\* the same symbol and restarts interleave with the handler's awaits, and none
\* whose experience is still being handled is registered any more.
EntryUsedOnce ==
    /\ \A j, k \in DOMAIN buffer : j # k => buffer[j].entry # buffer[k].entry
    /\ \A s \in Markets, k \in DOMAIN buffer : entryInfo[s] # buffer[k].entry
    /\ (computer.entry # 0 /\ computer.phase # "train") =>
           /\ \A s \in Markets : entryInfo[s] # computer.entry
           /\ \A k \in DOMAIN buffer : buffer[k].entry # computer.entry

\* get() may undo an invalidation: it awaits the row, a save commits and empties
\* the cache, and then it caches what it read.  The cache is then one version
\* behind until the next save's invalidation (and two just before it), never
\* more: a save always ends the error of the one before.
CachedPromptAtMostOneBehind ==
    cache # 0 => active - cache \in 0 .. (IF evolution = "invalidate" THEN 2 ELSE 1)

\* The reward of a close reaches the row of its trade (update_rl_tuple_reward
\* after insert_rl_tuple), so that the evolution finds it: once the computer is
\* past its statement, a trade whose row was there has its reward.
HandledCloseIsRewarded ==
    (computer.phase = "policy" /\ computer.row) => tuples[computer.close] # Null
=============================================================================
