---------------------------- MODULE ServicesProofs ----------------------------
(***************************************************************************)
(* Theorems about the parts of Services, for every value of its constants. *)
(* An invariant of a part is proved over the steps of that part; the steps *)
(* of the others leave its variables alone.                                *)
(***************************************************************************)
EXTENDS Services, SumProofs, SequenceTheorems, TLAPS

\* Every step is one of the learning part or leaves it alone.
LEMMA LearningSteps ==
    ASSUME [ServicesNext]_servicesVars
    PROVE  LearningNext \/ UNCHANGED learningVars
BY DEF ServicesNext, servicesVars, FeedStep, ForecastStep, NewsStep, LearningStep, GatewayStep,
       OnlyMarket, OnlyNews, OnlyGateway

\* Every step is one of the feed, the storage and the forecasts or leaves them alone.
LEMMA MarketSteps ==
    ASSUME [ServicesNext]_servicesVars
    PROVE  MarketNext \/ UNCHANGED marketVars
BY DEF ServicesNext, servicesVars, FeedStep, ForecastStep, NewsStep, LearningStep, GatewayStep,
       OnlyNews, OnlyLearning, OnlyGateway, MarketNext

\* Every step is one of the gateway or leaves it alone.
LEMMA GatewaySteps ==
    ASSUME [ServicesNext]_servicesVars
    PROVE  GatewayNext \/ UNCHANGED gatewayVars
BY DEF ServicesNext, servicesVars, FeedStep, ForecastStep, NewsStep, LearningStep, GatewayStep,
       OnlyMarket, OnlyNews, OnlyLearning

-----------------------------------------------------------------------------
(* The cache of the prompts.                                               *)

\* What CachedPromptAtMostOneBehind needs to be inductive: a read of the evolution
\* is of the active version; one of the director that began before the last save is
\* one version behind, and only until it ends, which it does before the next cycle.
CacheInv ==
    /\ active \in Nat /\ cache \in Nat /\ reading \in [Readers -> Nat]
    /\ evolution \in {"sleep", "score", "get", "fill", "ask", "save", "invalidate"}
    /\ reading["evolution"] # 0 => evolution = "fill" /\ reading["evolution"] = active
    /\ reading["director"] # 0 =>
           active - reading["director"] \in 0 .. (IF evolution \in {"sleep", "invalidate"} THEN 1 ELSE 0)
    /\ cache # 0 => active - cache \in 0 .. (IF evolution = "invalidate" THEN 2 ELSE 1)

\* A save makes every version one older, and comes when no read is under way but the
\* director's of the active version.
LEMMA CacheSave == ASSUME CacheInv, SaveAgentPrompt PROVE CacheInv'
BY DEF CacheInv, SaveAgentPrompt, Go, Readers

LEMMA CacheStep == ASSUME CacheInv, LearningNext PROVE CacheInv'
<1> USE DEF CacheInv, Readers
<1>1. ASSUME promptVars' = promptVars PROVE CacheInv'
  BY <1>1 DEF promptVars
<1>2. CASE \E s \in Markets : OpenTrade(s) \/ CloseTrade(s)
  BY <1>1, <1>2 DEF OpenTrade, CloseTrade
<1>3. CASE InsertTuple
  BY <1>1, <1>3 DEF InsertTuple
<1>4. CASE RewardComputer
  BY <1>1, <1>4 DEF RewardComputer, HandleClose, BuildNextState, UpdateTuple, UpdatePolicy, MaybeTrain
<1>5. CASE ProcessRestarts
  BY <1>5 DEF ProcessRestarts
<1>6. CASE DirectorGets
  BY <1>6 DEF DirectorGets, GetCached, GetActive
<1>7. CASE DirectorFills
  BY <1>7 DEF DirectorFills, GetFills
<1>8. CASE Evolution
  <2>1. CASE Wake \/ ReadTrades \/ AskModel
    BY <2>1 DEF Wake, ReadTrades, AskModel, Go
  <2>2. CASE EvolutionGets
    BY <2>2 DEF EvolutionGets, GetCached, GetActive, Go
  <2>3. CASE EvolutionFills
    BY <2>3 DEF EvolutionFills, GetFills, Go
  <2>4. CASE SaveAgentPrompt
    BY <2>4, CacheSave
  <2>5. CASE Invalidate
    BY <2>5 DEF Invalidate, Go
  <2> QED BY <1>8, <2>1, <2>2, <2>3, <2>4, <2>5 DEF Evolution
<1> QED BY <1>2, <1>3, <1>4, <1>5, <1>6, <1>7, <1>8 DEF LearningNext

\* However the director's reads of its prompt interleave with the evolution's saves
\* (PromptStore.get, save and invalidate), the cache is at most one version behind
\* the active one, and two only between a save and its invalidation.
THEOREM CachedPromptHolds == ServicesSpec => []CachedPromptAtMostOneBehind
<1>1. ServicesInit => CacheInv
  BY DEF ServicesInit, LearningInit, CacheInv, Readers
<1>2. CacheInv /\ [ServicesNext]_servicesVars => CacheInv'
  <2> SUFFICES ASSUME CacheInv, [ServicesNext]_servicesVars PROVE CacheInv'
    OBVIOUS
  <2>1. CASE LearningNext
    BY <2>1, CacheStep
  <2>2. CASE UNCHANGED learningVars
    BY <2>2 DEF learningVars, promptVars, CacheInv
  <2> QED BY <2>1, <2>2, LearningSteps
<1>3. CacheInv => CachedPromptAtMostOneBehind
  BY DEF CacheInv, CachedPromptAtMostOneBehind
<1> QED BY <1>1, <1>2, <1>3, PTL DEF ServicesSpec

-----------------------------------------------------------------------------
(* The entries of the trades.                                              *)

\* What EntryUsedOnce needs to be inductive: a registered entry is that of a trade
\* of its symbol, so that no two symbols share one, and a new trade's entry is new.
EntryInv ==
    /\ opened \in Seq(Markets)
    /\ entryInfo \in [Markets -> 0 .. Len(opened)]
    /\ \A s \in Markets : entryInfo[s] # 0 => opened[entryInfo[s]] = s
    /\ computer.entry \in 0 .. Len(opened)
    /\ computer.phase \in {"listen", "features", "store", "policy", "train"}
    /\ computer = [phase |-> computer.phase, close |-> computer.close, entry |-> computer.entry,
                   reward |-> computer.reward, row |-> computer.row]
    /\ DOMAIN buffer = 1 .. Len(buffer) /\ Len(buffer) \in Nat
    /\ \A k \in DOMAIN buffer : buffer[k].entry \in 1 .. Len(opened)
    /\ DOMAIN updates = 1 .. Len(updates) /\ Len(updates) \in Nat
    /\ \A k \in DOMAIN updates : updates[k].symbol \in Markets
    /\ EntryUsedOnce

\* A new trade's number is greater than every entry in use.
LEMMA EntryOpens == ASSUME EntryInv, NEW s \in Markets, OpenTrade(s) PROVE EntryInv'
<1>1. /\ opened' \in Seq(Markets) /\ Len(opened') = Len(opened) + 1
      /\ opened'[Len(opened')] = s
      /\ \A n \in 1 .. Len(opened) : opened'[n] = opened[n]
      /\ Len(opened) \in Nat
  BY DEF OpenTrade, EntryInv
<1>2. UNCHANGED <<updates, computer, buffer>>
  BY DEF OpenTrade
<1>3. \/ entryInfo' = entryInfo
      \/ entryInfo' = [entryInfo EXCEPT ![s] = Len(opened')]
  BY DEF OpenTrade
<1>4. EntryUsedOnce'
  BY <1>1, <1>2, <1>3 DEF EntryInv, EntryUsedOnce
<1>5. entryInfo' \in [Markets -> 0 .. Len(opened')]
  BY <1>1, <1>3 DEF EntryInv
<1>6. ASSUME NEW t \in Markets, entryInfo'[t] # 0
      PROVE  opened'[entryInfo'[t]] = t
  <2>1. CASE entryInfo'[t] = entryInfo[t]
    <3>1. entryInfo[t] \in 1 .. Len(opened)
      BY <1>1, <1>6, <2>1 DEF EntryInv
    <3>2. opened[entryInfo[t]] = t
      BY <1>6, <2>1 DEF EntryInv
    <3> QED BY <1>1, <2>1, <3>1, <3>2
  <2>2. CASE entryInfo'[t] # entryInfo[t]
    <3>1. t = s /\ entryInfo'[t] = Len(opened')
      BY <1>3, <2>2 DEF EntryInv
    <3> QED BY <1>1, <3>1
  <2> QED BY <2>1, <2>2
<1>7. /\ computer'.entry \in 0 .. Len(opened')
      /\ \A k \in DOMAIN buffer' : buffer'[k].entry \in 1 .. Len(opened')
  BY <1>1, <1>2 DEF EntryInv
<1> QED BY <1>1, <1>2, <1>4, <1>5, <1>6, <1>7 DEF EntryInv

\* The entry that a close takes is no longer registered.
LEMMA EntryTaken == ASSUME EntryInv, HandleClose PROVE EntryInv'
<1>1. Head(updates).symbol \in Markets
  BY DEF EntryInv, HandleClose
<1>2. /\ computer'.entry = entryInfo[Head(updates).symbol] /\ computer'.phase = "features"
      /\ computer' = [phase |-> computer'.phase, close |-> computer'.close, entry |-> computer'.entry,
                      reward |-> computer'.reward, row |-> computer'.row]
      /\ entryInfo' = [entryInfo EXCEPT ![Head(updates).symbol] = 0]
      /\ updates' = Tail(updates)
      /\ UNCHANGED <<opened, buffer>>
  BY DEF HandleClose
<1>3. /\ DOMAIN updates' = 1 .. Len(updates') /\ Len(updates') \in Nat
      /\ \A k \in DOMAIN updates' : updates'[k].symbol \in Markets
  BY <1>2 DEF EntryInv, HandleClose
<1>4. EntryUsedOnce'
  BY <1>1, <1>2 DEF EntryInv, EntryUsedOnce
<1> QED BY <1>1, <1>2, <1>3, <1>4 DEF EntryInv

\* The buffer takes an entry that is not in it, and may drop its oldest.
LEMMA EntryBuffered == ASSUME EntryInv, UpdatePolicy PROVE EntryInv'
<1>1. UNCHANGED <<opened, updates, entryInfo>>
  BY DEF UpdatePolicy
<1>2. CASE computer.entry = 0
  <2>1. computer' = Listening /\ buffer' = buffer
    BY <1>2 DEF UpdatePolicy
  <2>2. computer'.entry = 0 /\ computer'.phase = "listen"
    BY <2>1 DEF Listening
  <2> QED BY <1>1, <2>1, <2>2 DEF EntryInv, EntryUsedOnce, Listening
<1>3. CASE computer.entry # 0
  <2> DEFINE kept == IF Len(buffer) = MaxBuffer THEN Tail(buffer) ELSE buffer
             new == [entry |-> computer.entry, reward |-> computer.reward]
  <2>1. buffer' = Append(kept, new) /\ computer.phase = "policy"
    BY <1>3 DEF UpdatePolicy
  <2>2. computer' = [computer EXCEPT !.phase = "train"]
    BY <1>3 DEF UpdatePolicy
  <2>3. /\ computer'.entry = computer.entry /\ computer'.phase = "train"
        /\ computer' = [phase |-> computer'.phase, close |-> computer'.close, entry |-> computer'.entry,
                        reward |-> computer'.reward, row |-> computer'.row]
    BY <2>2 DEF EntryInv
  <2>4. PICK d \in {0, 1} :
           /\ DOMAIN kept = 1 .. Len(kept) /\ Len(kept) \in Nat
           /\ \A k \in DOMAIN kept : k + d \in DOMAIN buffer /\ kept[k] = buffer[k + d]
    BY LearningAssumption DEF EntryInv
  <2> HIDE DEF kept
  <2>5. /\ DOMAIN buffer' = 1 .. Len(buffer') /\ Len(buffer') = Len(kept) + 1
        /\ buffer'[Len(buffer')] = new
        /\ \A k \in DOMAIN kept : buffer'[k] = kept[k]
    BY <2>1, <2>4
  <2>6. \A k \in DOMAIN buffer : buffer[k].entry # computer.entry
    BY <1>3, <2>1 DEF EntryInv, EntryUsedOnce
  <2>A. \A k \in DOMAIN kept : k + d \in DOMAIN buffer /\ buffer'[k].entry = buffer[k + d].entry
    BY <2>4, <2>5
  <2>L. \A k \in DOMAIN buffer' \ DOMAIN kept : k = Len(buffer') /\ buffer'[k].entry = computer.entry
    BY <2>4, <2>5
  <2>B. \A j, k \in DOMAIN buffer : j # k => buffer[j].entry # buffer[k].entry
    BY DEF EntryInv, EntryUsedOnce
  <2>7. ASSUME NEW j \in DOMAIN buffer', NEW k \in DOMAIN buffer', j # k
        PROVE  buffer'[j].entry # buffer'[k].entry
    <3>1. CASE j \in DOMAIN kept /\ k \in DOMAIN kept
      <4>1. j + d # k + d
        BY <2>7, <2>5, <2>4
      <4> QED BY <3>1, <4>1, <2>A, <2>B
    <3>2. CASE j \in DOMAIN kept /\ k \notin DOMAIN kept
      BY <3>2, <2>A, <2>L, <2>6
    <3>3. CASE j \notin DOMAIN kept /\ k \in DOMAIN kept
      BY <3>3, <2>A, <2>L, <2>6
    <3>4. CASE j \notin DOMAIN kept /\ k \notin DOMAIN kept
      BY <3>4, <2>7, <2>L
    <3> QED BY <3>1, <3>2, <3>3, <3>4
  <2>8. \A s \in Markets, k \in DOMAIN buffer' : entryInfo'[s] # buffer'[k].entry
    BY <1>1, <1>3, <2>1, <2>4, <2>5 DEF EntryInv, EntryUsedOnce
  <2>9. \A k \in DOMAIN buffer' : buffer'[k].entry \in 1 .. Len(opened')
    <3>1. computer.entry \in 1 .. Len(opened')
      BY <1>1, <1>3 DEF EntryInv
    <3>2. \A k \in DOMAIN buffer : buffer[k].entry \in 1 .. Len(opened')
      BY <1>1 DEF EntryInv
    <3> QED BY <3>1, <3>2, <2>A, <2>L
  <2> QED BY <1>1, <2>3, <2>4, <2>5, <2>7, <2>8, <2>9 DEF EntryInv, EntryUsedOnce
<1> QED BY <1>2, <1>3

LEMMA EntryStep == ASSUME EntryInv, LearningNext PROVE EntryInv'
<1>1. ASSUME UNCHANGED <<opened, updates, entryInfo, computer, buffer>> PROVE EntryInv'
  BY <1>1 DEF EntryInv, EntryUsedOnce
<1>2. CASE \E s \in Markets : OpenTrade(s)
  BY <1>2, EntryOpens
<1>3. CASE \E s \in Markets : CloseTrade(s)
  <2>1. PICK s \in Markets, pnl \in Outcomes : updates' = Append(updates, [symbol |-> s, trade |-> open[s], pnl |-> pnl])
    BY <1>3 DEF CloseTrade
  <2>2. UNCHANGED <<opened, entryInfo, computer, buffer>>
    BY <1>3 DEF CloseTrade
  <2>3. /\ DOMAIN updates' = 1 .. Len(updates') /\ Len(updates') \in Nat
        /\ \A k \in DOMAIN updates' : updates'[k].symbol \in Markets
    BY <2>1 DEF EntryInv
  <2> QED BY <2>2, <2>3 DEF EntryInv, EntryUsedOnce
<1>4. CASE InsertTuple
  BY <1>1, <1>4 DEF InsertTuple
<1>5. CASE HandleClose
  BY <1>5, EntryTaken
<1>6. CASE BuildNextState \/ UpdateTuple
  <2>1. \/ computer' = [computer EXCEPT !.phase = "store"] /\ computer.phase = "features"
        \/ /\ computer' = [computer EXCEPT !.phase = "policy", !.row = computer.close \in DOMAIN tuples]
           /\ computer.phase = "store"
    BY <1>6 DEF BuildNextState, UpdateTuple
  <2>2. UNCHANGED <<opened, updates, entryInfo, buffer>>
    BY <1>6 DEF BuildNextState, UpdateTuple
  <2>3. /\ computer'.entry = computer.entry /\ computer'.phase \in {"store", "policy"}
        /\ computer' = [phase |-> computer'.phase, close |-> computer'.close, entry |-> computer'.entry,
                        reward |-> computer'.reward, row |-> computer'.row]
    BY <2>1 DEF EntryInv
  <2> QED BY <2>1, <2>2, <2>3 DEF EntryInv, EntryUsedOnce
<1>7. CASE UpdatePolicy
  BY <1>7, EntryBuffered
<1>8. CASE MaybeTrain
  <2>1. computer' = Listening /\ UNCHANGED <<opened, updates, entryInfo, buffer>>
    BY <1>8 DEF MaybeTrain
  <2> QED BY <2>1 DEF EntryInv, EntryUsedOnce, Listening
<1>9. CASE ProcessRestarts
  BY <1>9 DEF ProcessRestarts, EntryInv, EntryUsedOnce, Listening
<1>10. CASE DirectorGets \/ DirectorFills \/ Evolution
  BY <1>1, <1>10 DEF DirectorGets, DirectorFills, Evolution, Wake, ReadTrades, EvolutionGets,
      EvolutionFills, AskModel, SaveAgentPrompt, Invalidate, rewardVars
<1> QED BY <1>2, <1>3, <1>4, <1>5, <1>6, <1>7, <1>8, <1>9, <1>10 DEF LearningNext, RewardComputer

\* No registered entry state enters the policy's buffer with the rewards of two
\* closes (RewardComputer._handle_close, PPOPolicy.update), whatever is wired, for
\* any number of symbols, trades and restarts and any size of the buffer.
THEOREM EntryUsedOnceHolds == ServicesSpec => []EntryUsedOnce
<1>1. ServicesInit => EntryInv
  BY DEF ServicesInit, LearningInit, EntryInv, EntryUsedOnce, Listening
<1>2. EntryInv /\ [ServicesNext]_servicesVars => EntryInv'
  <2> SUFFICES ASSUME EntryInv, [ServicesNext]_servicesVars PROVE EntryInv'
    OBVIOUS
  <2>1. CASE LearningNext
    BY <2>1, EntryStep
  <2>2. CASE UNCHANGED learningVars
    BY <2>2 DEF learningVars, rewardVars, EntryInv, EntryUsedOnce
  <2> QED BY <2>1, <2>2, LearningSteps
<1>3. EntryInv => EntryUsedOnce
  BY DEF EntryInv
<1> QED BY <1>1, <1>2, <1>3, PTL DEF ServicesSpec

-----------------------------------------------------------------------------
(* The answers of the machine learning agent.                              *)

\* What MLAnswersOnce needs to be inductive: each phase knows whether the answer is
\* out, and only a forecast leaves the path of the neutral answer.
AnswerInv ==
    /\ ml = [phase |-> ml.phase, rows |-> ml.rows, forecast |-> ml.forecast,
             answers |-> ml.answers, raised |-> ml.raised]
    /\ ml.raised \in BOOLEAN
    /\ \/ /\ ml.phase \in {"fetch", "build", "infer", "publish", "neutral"}
          /\ ml.answers = 0 /\ ~ml.raised
       \/ /\ ml.phase \in {"insert", "insertNeutral"}
          /\ ml.answers = 1 /\ ~ml.raised
       \/ /\ ml.phase = "idle"
          /\ \/ ml.answers = 1 /\ ~ml.raised
             \/ ml.answers = 0 /\ ml.raised
             \/ ml = [Asked EXCEPT !.phase = "idle"]
    /\ ml.phase \in {"fetch", "build", "infer", "neutral", "insertNeutral"} => ml.forecast = NoForecast

LEMMA AnswerStep == ASSUME AnswerInv, MarketNext PROVE AnswerInv'
<1>1. CASE UNCHANGED ml
  BY <1>1 DEF AnswerInv
<1>2. CASE Trade \/ CloseCandle \/ OtherFrame \/ Feed \/ ConsumeMarket
  BY <1>1, <1>2 DEF Trade, CloseCandle, OtherFrame, Feed, ConnectAndStream, FeedFails, Retry,
     Receive, PublishFunding, ConsumeMarket
<1>3. CASE Ask
  BY <1>3 DEF Ask, AnswerInv, Asked
<1>4. CASE FetchForKronos
  BY <1>4 DEF FetchForKronos, At, AnswerInv
<1>5. CASE BuildFeatures
  BY <1>5 DEF BuildFeatures, At, AnswerInv
<1>6. CASE Infer
  <2>1. ml.phase = "infer"
    BY <1>6 DEF Infer, At
  <2>2. CASE \E f \in Predict(ml.rows) : ml' = [ml EXCEPT !.phase = "publish", !.rows = <<>>, !.forecast = f]
    BY <2>1, <2>2 DEF AnswerInv
  <2>3. CASE ml' = [ml EXCEPT !.phase = "neutral", !.rows = <<>>]
    BY <2>1, <2>3 DEF AnswerInv
  <2> QED BY <1>6, <2>2, <2>3 DEF Infer
<1>7. CASE PublishSignal
  <2>1. CASE ml.phase = "publish" /\ ml' = [ml EXCEPT !.phase = "insert", !.answers = @ + 1]
    <3>1. ml.answers = 0 /\ ~ml.raised
      BY <2>1 DEF AnswerInv
    <3>2. ml' = [ml EXCEPT !.phase = "insert", !.answers = 1]
      BY <2>1, <3>1
    <3> QED BY <2>1, <3>1, <3>2 DEF AnswerInv
  <2>2. CASE ml.phase = "neutral" /\ ml' = [ml EXCEPT !.phase = "insertNeutral", !.answers = @ + 1]
    <3>1. ml.answers = 0 /\ ~ml.raised
      BY <2>2 DEF AnswerInv
    <3>2. ml' = [ml EXCEPT !.phase = "insertNeutral", !.answers = 1]
      BY <2>2, <3>1
    <3> QED BY <2>2, <3>1, <3>2 DEF AnswerInv
  <2>3. CASE ml.phase \in {"publish", "neutral"} /\ ml' = [ml EXCEPT !.phase = "idle", !.raised = TRUE]
    BY <2>3 DEF AnswerInv
  <2> QED BY <1>7, <2>1, <2>2, <2>3 DEF PublishSignal
<1>8. CASE InsertSignal
  BY <1>8 DEF InsertSignal, AnswerInv
<1> QED BY <1>2, <1>3, <1>4, <1>5, <1>6, <1>7, <1>8 DEF MarketNext, MLAgent

\* A request of the director gets one answer of the machine learning agent, unless
\* the publish itself raised, and an answer made without a forecast has no
\* confidence (MLAgent._handle, _publish_neutral), whatever the model predicts.
THEOREM MLAnswersOnceHolds == ServicesSpec => []MLAnswersOnce
<1>1. ServicesInit => AnswerInv
  BY DEF ServicesInit, MarketInit, AnswerInv, Asked
<1>2. AnswerInv /\ [ServicesNext]_servicesVars => AnswerInv'
  <2> SUFFICES ASSUME AnswerInv, [ServicesNext]_servicesVars PROVE AnswerInv'
    OBVIOUS
  <2>1. CASE MarketNext
    BY <2>1, AnswerStep
  <2>2. CASE UNCHANGED marketVars
    BY <2>2 DEF marketVars, AnswerInv
  <2> QED BY <2>1, <2>2, MarketSteps
<1>3. AnswerInv => MLAnswersOnce
  <2> SUFFICES ASSUME AnswerInv PROVE MLAnswersOnce
    OBVIOUS
  <2>1. ml.answers <= 1
    BY DEF AnswerInv, Asked
  <2>2. ml.phase = "idle" /\ ml # [Asked EXCEPT !.phase = "idle"] => (ml.answers = 0 <=> ml.raised)
    BY DEF AnswerInv
  <2>3. ml.phase \in {"neutral", "insertNeutral"} => ml.forecast.agree = 0 /\ ~ml.forecast.moves
    BY DEF AnswerInv, NoForecast
  <2> QED BY <2>1, <2>2, <2>3 DEF MLAnswersOnce
<1> QED BY <1>1, <1>2, <1>3, PTL DEF ServicesSpec

-----------------------------------------------------------------------------
(* The candles.                                                            *)

Frames == [kind : Kinds, at : Nat, price : Nat, closed : BOOLEAN]
Messages == [kind : {"tick", "mark", "funding", "liq", "book"}, ts : Int, value : Nat, closed : BOOLEAN]

MarketShape ==
    /\ minute \in Nat /\ last \in Nat
    /\ final \in [0 .. minute - 1 -> Nat]
    /\ socket \in Seq(Frames) /\ owed \in Seq(Messages) /\ bus \in Seq(Messages)
    /\ feed # "up" => socket = <<>> /\ owed = <<>>

\* A frame or a message that is marked closed carries the final price of its minute.
AllFinal ==
    /\ \A k \in DOMAIN socket : socket[k].closed =>
           socket[k].kind = "kline" /\ socket[k].at < minute /\ socket[k].price = final[socket[k].at]
    /\ \A k \in DOMAIN owed : ~owed[k].closed
    /\ \A k \in DOMAIN bus : bus[k].closed =>
           bus[k].kind = "tick" /\ bus[k].ts \in 0 .. minute - 1 /\ bus[k].value = final[bus[k].ts]
    /\ \A m \in DOMAIN candles : m \in 0 .. minute - 1 /\ candles[m] = final[m]

\* Where the final candle of a minute may be, and where that of one whose frame
\* was received is.
OnSocket(m) == \E k \in DOMAIN socket : socket[k].closed /\ socket[k].at = m
OnBus(m) == \E k \in DOMAIN bus : bus[k].kind = "tick" /\ bus[k].closed /\ bus[k].ts = m

AllAccounted == \A m \in received : m \in DOMAIN candles \cup lost \/ OnSocket(m) \/ OnBus(m)

CandleInv == MarketShape /\ AllFinal /\ AllAccounted

LEMMA FinalsMember ==
    ASSUME NEW frames, NEW m
    PROVE  m \in Finals(frames) <=> \E k \in DOMAIN frames : frames[k].closed /\ frames[k].at = m
BY DEF Finals, ToSet

\* The members of the three queues.
LEMMA InQueues ==
    ASSUME MarketShape
    PROVE  /\ \A k \in DOMAIN socket : socket[k] \in Frames /\ socket[k].at \in Nat
           /\ \A k \in DOMAIN owed : owed[k] \in Messages
           /\ \A k \in DOMAIN bus : bus[k] \in Messages /\ bus[k].ts \in Int
<1>1. /\ \A k \in DOMAIN socket : socket[k] \in Frames
      /\ \A k \in DOMAIN owed : owed[k] \in Messages
      /\ \A k \in DOMAIN bus : bus[k] \in Messages
  BY DEF MarketShape
<1>2. (\A f \in Frames : f.at \in Nat) /\ (\A msg \in Messages : msg.ts \in Int)
  BY DEF Frames, Messages
<1> QED BY <1>1, <1>2

LEMMA CandleInit == MarketInit => CandleInv
BY MarketAssumption DEF MarketInit, CandleInv, MarketShape, AllFinal, AllAccounted

\* A frame that arrives at the end of the socket.
LEMMA SendKeeps ==
    ASSUME CandleInv, NEW f \in Frames, Send(f), ~f.closed, minute' = minute, last' \in Nat,
           UNCHANGED <<final, feed, owed, bus, candles, received, lost>>
    PROVE  CandleInv'
<1>1. CASE socket' = socket
  BY <1>1 DEF CandleInv, MarketShape, AllFinal, AllAccounted, OnSocket, OnBus
<1>2. CASE feed = "up" /\ socket' = Append(socket, f)
  <2>1. /\ socket' \in Seq(Frames) /\ Len(socket') = Len(socket) + 1 /\ socket'[Len(socket')] = f
        /\ DOMAIN socket' = 1 .. Len(socket') /\ DOMAIN socket = 1 .. Len(socket) /\ Len(socket) \in Nat
        /\ \A k \in DOMAIN socket : k \in DOMAIN socket' /\ socket'[k] = socket[k]
    BY <1>2 DEF CandleInv, MarketShape
  <2>2. MarketShape'
    BY <1>2, <2>1 DEF CandleInv, MarketShape
  <2>3. AllFinal'
    <3>1. \A k \in DOMAIN socket' : socket'[k].closed =>
              socket'[k].kind = "kline" /\ socket'[k].at < minute /\ socket'[k].price = final[socket'[k].at]
      BY <2>1 DEF CandleInv, AllFinal
    <3> QED BY <3>1 DEF CandleInv, AllFinal
  <2>4. AllAccounted'
    BY <2>1 DEF CandleInv, AllAccounted, OnSocket, OnBus
  <2> QED BY <2>2, <2>3, <2>4 DEF CandleInv
<1> QED BY <1>1, <1>2 DEF Send

\* The final frame of the minute that ends: it arrives, or the feed is down.
LEMMA CloseKeeps == ASSUME CandleInv, CloseCandle PROVE CandleInv'
<1> DEFINE f == Kline(last, TRUE)
<1>1. /\ minute' = minute + 1 /\ minute \in Nat /\ final' \in [0 .. minute' - 1 -> Nat]
      /\ final'[minute] = last /\ \A m \in 0 .. minute - 1 : final'[m] = final[m]
      /\ UNCHANGED <<last, feed, owed, bus, candles>>
      /\ f \in Frames /\ f.closed /\ f.at = minute /\ f.price = last /\ f.kind = "kline"
  BY DEF CandleInv, MarketShape, CloseCandle, tables, Frames, Kline, Kinds
<1>2. /\ \A k \in DOMAIN bus : bus[k].closed =>
             bus[k].kind = "tick" /\ bus[k].ts \in 0 .. minute' - 1 /\ bus[k].value = final'[bus[k].ts]
      /\ \A m \in DOMAIN candles : m \in 0 .. minute' - 1 /\ candles[m] = final'[m]
  <2>1. \A k \in DOMAIN bus : bus[k].ts \in Int
    BY InQueues DEF CandleInv
  <2> QED BY <1>1, <2>1 DEF CandleInv, AllFinal
<1>3. \A k \in DOMAIN socket : socket[k].closed =>
          socket[k].kind = "kline" /\ socket[k].at < minute' /\ socket[k].price = final'[socket[k].at]
  <2>1. \A k \in DOMAIN socket : socket[k].at \in Nat
    BY InQueues DEF CandleInv
  <2> QED BY <1>1, <2>1 DEF CandleInv, AllFinal
<1> HIDE DEF f
<1>4. CASE feed = "up"
  <2>1. socket' = Append(socket, f) /\ lost' = lost /\ received' = received \cup {minute}
    BY <1>4 DEF CloseCandle, Send, f
  <2>2. /\ socket' \in Seq(Frames) /\ Len(socket') = Len(socket) + 1 /\ socket'[Len(socket')] = f
        /\ DOMAIN socket' = 1 .. Len(socket') /\ DOMAIN socket = 1 .. Len(socket) /\ Len(socket) \in Nat
        /\ \A k \in DOMAIN socket : k \in DOMAIN socket' /\ socket'[k] = socket[k]
    BY <1>1, <2>1 DEF CandleInv, MarketShape
  <2>3. MarketShape'
    BY <1>1, <1>4, <2>2 DEF CandleInv, MarketShape
  <2>4. AllFinal'
    <3>1. ASSUME NEW k \in DOMAIN socket', socket'[k].closed
          PROVE  socket'[k].kind = "kline" /\ socket'[k].at < minute' /\ socket'[k].price = final'[socket'[k].at]
      <4>1. CASE k \in DOMAIN socket
        BY <1>3, <2>2, <3>1, <4>1
      <4>2. CASE k \notin DOMAIN socket
        <5>1. socket'[k] = f
          BY <2>2, <4>2
        <5> QED BY <1>1, <5>1
      <4> QED BY <4>1, <4>2
    <3> QED BY <1>1, <1>2, <3>1 DEF CandleInv, AllFinal
  <2>5. AllAccounted'
    <3> SUFFICES ASSUME NEW m \in received'
                 PROVE  (m \in DOMAIN candles \cup lost \/ OnSocket(m) \/ OnBus(m))'
      BY DEF AllAccounted
    <3>1. CASE m = minute
      <4>1. Len(socket') \in DOMAIN socket'
        BY <2>2
      <4>2. socket'[Len(socket')].closed /\ socket'[Len(socket')].at = m
        BY <1>1, <2>2, <3>1
      <4> QED BY <4>1, <4>2 DEF OnSocket
    <3>2. CASE m \in received
      BY <1>1, <2>1, <2>2, <3>2 DEF CandleInv, AllAccounted, OnSocket, OnBus
    <3> QED BY <2>1, <3>1, <3>2
  <2> QED BY <2>3, <2>4, <2>5 DEF CandleInv
<1>5. CASE feed # "up"
  <2>1. UNCHANGED <<socket, received, lost>>
    BY <1>5 DEF CloseCandle, Send
  <2>2. MarketShape'
    BY <1>1, <2>1 DEF CandleInv, MarketShape
  <2>3. AllFinal'
    BY <1>1, <1>2, <1>3, <2>1 DEF CandleInv, AllFinal
  <2>4. AllAccounted'
    BY <1>1, <2>1 DEF CandleInv, AllAccounted, OnSocket, OnBus
  <2> QED BY <2>2, <2>3, <2>4 DEF CandleInv
<1> QED BY <1>4, <1>5

\* The head and the tail of one message and of two.
LEMMA OneOrTwo ==
    ASSUME NEW a \in Messages, NEW b \in Messages
    PROVE  /\ Head(<<a>>) = a /\ Tail(<<a>>) = <<>> /\ Tail(<<a>>) \in Seq(Messages)
           /\ Head(<<a, b>>) = a /\ Tail(<<a, b>>) = <<b>> /\ Tail(<<a, b>>) \in Seq(Messages)
<1> HIDE DEF Messages
<1>1. Head(<<a>>) = a /\ Tail(<<a>>) = <<>> /\ Head(<<a, b>>) = a
  OBVIOUS
<1>2. Tail(<<a, b>>) = <<b>>
  OBVIOUS
<1>3. <<>> \in Seq(Messages) /\ <<b>> \in Seq(Messages)
  OBVIOUS
<1> QED BY <1>1, <1>2, <1>3

\* Of the messages of a frame only the first may be marked closed: the tick of a
\* final frame.
LEMMA HandleShape ==
    ASSUME NEW f \in Frames, Handle(f) # <<>>
    PROVE  /\ Head(Handle(f)) \in Messages
           /\ Tail(Handle(f)) \in Seq(Messages)
           /\ \A k \in DOMAIN Tail(Handle(f)) : ~Tail(Handle(f))[k].closed
           /\ f.kind = "kline" => Head(Handle(f)) = Message("tick", f.at, f.price, f.closed)
           /\ f.kind # "kline" => ~Head(Handle(f)).closed
           /\ f.kind = "mark" => /\ Head(Handle(f)) = Message("mark", NextFunding(f.at), f.at, FALSE)
                                 /\ Tail(Handle(f)) = <<Message("funding", NextFunding(f.at), 0, FALSE)>>
           /\ f.kind # "mark" => Head(Handle(f)).kind \notin {"mark", "funding"} /\ Tail(Handle(f)) = <<>>
<1>0. f.kind \in Kinds /\ f.at \in Nat /\ f.price \in Nat /\ f.closed \in BOOLEAN
  BY DEF Frames
<1>2. CASE f.kind = "kline"
  <2> DEFINE a == Message("tick", f.at, f.price, f.closed)
  <2>1. a \in Messages
    BY <1>0 DEF Message, Messages
  <2>3. Handle(f) = <<a>>
    BY <1>2 DEF Handle, HandleKline
  <2> HIDE DEF a
  <2>2. Head(Handle(f)) = a /\ Tail(Handle(f)) = <<>> /\ Tail(Handle(f)) \in Seq(Messages)
    BY <2>1, <2>3, OneOrTwo
  <2>4. a.kind = "tick"
    BY DEF a, Message
  <2> QED BY <1>2, <2>1, <2>2, <2>4 DEF a
<1>3. CASE f.kind = "mark"
  <2> DEFINE a == Message("mark", NextFunding(f.at), f.at, FALSE)
             b == Message("funding", NextFunding(f.at), 0, FALSE)
  <2>1. NextFunding(f.at) \in Int
    BY <1>0, MarketAssumption DEF NextFunding
  <2>2. Handle(f) = <<a, b>>
    BY <1>3 DEF Handle, HandleMark
  <2>3. a \in Messages /\ b \in Messages
    BY <1>0, <2>1 DEF Message, Messages
  <2>5. ~a.closed /\ ~b.closed
    BY DEF Message
  <2> HIDE DEF a, b
  <2>4. Head(Handle(f)) = a /\ Tail(Handle(f)) = <<b>> /\ Tail(Handle(f)) \in Seq(Messages)
    BY <2>2, <2>3, OneOrTwo
  <2>6. \A k \in DOMAIN <<b>> : ~<<b>>[k].closed
    BY <2>5
  <2> QED BY <1>3, <2>3, <2>4, <2>5, <2>6 DEF a, b
<1>4. CASE f.kind = "forceOrder" \/ f.kind = "bookTicker"
  <2>1. PICK a \in Messages : ~a.closed /\ a.kind \in {"liq", "book"} /\ Handle(f) = <<a>>
    <3> DEFINE liq == Message("liq", 0, 0, FALSE)
               book == Message("book", 0, 0, FALSE)
    <3>1. /\ liq \in Messages /\ book \in Messages /\ ~liq.closed /\ ~book.closed
          /\ liq.kind = "liq" /\ book.kind = "book"
      BY DEF Message, Messages
    <3>2. Handle(f) = <<liq>> \/ Handle(f) = <<book>>
      BY <1>4 DEF Handle, HandleLiquidation, HandleBook
    <3> QED BY <3>1, <3>2
  <2>2. Head(Handle(f)) = a /\ Tail(Handle(f)) = <<>> /\ Tail(Handle(f)) \in Seq(Messages)
    BY <2>1, OneOrTwo
  <2>3. f.kind # "kline" /\ f.kind # "mark"
    BY <1>4
  <2>4. ~Head(Handle(f)).closed /\ Head(Handle(f)).kind \notin {"mark", "funding"}
    BY <2>1, <2>2
  <2>5. \A k \in DOMAIN Tail(Handle(f)) : ~Tail(Handle(f))[k].closed
    BY <2>2
  <2>6. Head(Handle(f)) \in Messages /\ Tail(Handle(f)) \in Seq(Messages) /\ Tail(Handle(f)) = <<>>
    BY <2>1, <2>2
  <2> HIDE DEF Messages
  <2> QED BY <2>3, <2>4, <2>5, <2>6
<1>5. CASE f.kind = "other"
  BY <1>5 DEF Handle
<1> QED BY <1>0, <1>2, <1>3, <1>4, <1>5 DEF Kinds
\* A message at the end of the bus; the socket and what is owed keep their shape.
LEMMA PublishKeeps ==
    ASSUME CandleInv, NEW msg \in Messages, bus' = Append(bus, msg),
           msg.closed => msg.kind = "tick" /\ msg.ts \in 0 .. minute - 1 /\ msg.value = final[msg.ts],
           UNCHANGED <<exchangeVars, feed, candles, received, lost>>, feed = "up",
           socket' \in Seq(Frames), owed' \in Seq(Messages),
           \A k \in DOMAIN owed' : ~owed'[k].closed,
           \A k \in DOMAIN socket' : \E j \in DOMAIN socket : socket'[k] = socket[j],
           \A m : OnSocket(m) => OnSocket(m)' \/ (msg.closed /\ msg.ts = m)
    PROVE  CandleInv'
<1>1. UNCHANGED <<minute, last, final>>
  BY DEF exchangeVars
<1>2. /\ bus' \in Seq(Messages) /\ Len(bus') = Len(bus) + 1 /\ bus'[Len(bus')] = msg
      /\ DOMAIN bus' = 1 .. Len(bus') /\ DOMAIN bus = 1 .. Len(bus) /\ Len(bus) \in Nat
      /\ \A k \in DOMAIN bus : k \in DOMAIN bus' /\ bus'[k] = bus[k]
  BY DEF CandleInv, MarketShape
<1>3. MarketShape'
  BY <1>1, <1>2 DEF CandleInv, MarketShape
<1>4. AllFinal'
  <2>1. ASSUME NEW k \in DOMAIN bus', bus'[k].closed
        PROVE  bus'[k].kind = "tick" /\ bus'[k].ts \in 0 .. minute - 1 /\ bus'[k].value = final[bus'[k].ts]
    <3>1. CASE k \in DOMAIN bus
      BY <1>2, <2>1, <3>1 DEF CandleInv, AllFinal
    <3>2. CASE k \notin DOMAIN bus
      <4>1. bus'[k] = msg
        BY <1>2, <3>2
      <4> QED BY <2>1, <4>1
    <3> QED BY <3>1, <3>2
  <2>2. ASSUME NEW k \in DOMAIN socket', socket'[k].closed
        PROVE  socket'[k].kind = "kline" /\ socket'[k].at < minute /\ socket'[k].price = final[socket'[k].at]
    BY <2>2 DEF CandleInv, AllFinal
  <2> QED BY <1>1, <2>1, <2>2 DEF CandleInv, AllFinal
<1>5. AllAccounted'
  <2> SUFFICES ASSUME NEW m \in received
               PROVE  (m \in DOMAIN candles \cup lost \/ OnSocket(m) \/ OnBus(m))'
    BY <1>1 DEF AllAccounted
  <2>1. CASE m \in DOMAIN candles \cup lost
    BY <2>1
  <2>2. CASE OnBus(m)
    BY <1>2, <2>2 DEF OnBus
  <2>3. CASE msg.closed /\ msg.ts = m
    <3>1. Len(bus') \in DOMAIN bus'
      BY <1>2
    <3> QED BY <1>2, <2>3, <3>1 DEF OnBus
  <2>4. CASE OnSocket(m)'
    BY <2>4
  <2> QED BY <2>1, <2>2, <2>3, <2>4 DEF CandleInv, AllAccounted
<1> QED BY <1>3, <1>4, <1>5 DEF CandleInv

\* The head of the socket goes to the bus.
LEMMA ReceiveKeeps == ASSUME CandleInv, Receive PROVE CandleInv'
<1> DEFINE f == Head(socket)
           messages == Handle(f)
<1>1. /\ socket \in Seq(Frames) /\ socket # <<>> /\ socket' = Tail(socket) /\ feed = "up" /\ owed = <<>>
      /\ UNCHANGED <<exchangeVars, feed, candles, received, lost>>
  BY DEF CandleInv, MarketShape, Receive, tables
<1>2. /\ f \in Frames /\ f = socket[1] /\ 1 \in DOMAIN socket /\ socket' \in Seq(Frames)
      /\ \A k \in DOMAIN socket' : k + 1 \in DOMAIN socket /\ socket'[k] = socket[k + 1]
      /\ \A k \in DOMAIN socket : k = 1 \/ (k - 1 \in DOMAIN socket' /\ socket'[k - 1] = socket[k])
  BY <1>1
<1>3. f.closed => f.kind = "kline" /\ f.at \in 0 .. minute - 1 /\ f.price = final[f.at]
  <2>1. f.at \in Nat /\ minute \in Nat
    BY <1>2 DEF Frames, CandleInv, MarketShape
  <2> QED BY <1>2, <2>1 DEF CandleInv, AllFinal
<1>4. \A k \in DOMAIN socket' : \E j \in DOMAIN socket : socket'[k] = socket[j]
  BY <1>2
<1>5. \A m : OnSocket(m) => OnSocket(m)' \/ (f.closed /\ f.at = m)
  BY <1>2 DEF OnSocket
<1>6. messages = <<>> => bus' = bus /\ owed' = owed
  BY DEF Receive
<1>7. messages # <<>> => bus' = Append(bus, Head(messages)) /\ owed' = Tail(messages)
  BY DEF Receive
<1> HIDE DEF f, messages
<1>8. CASE messages = <<>>
  <2>1. f.kind # "kline"
    BY <1>8 DEF messages, Handle, HandleKline
  <2>2. ~f.closed
    BY <1>3, <2>1
  <2>3. UNCHANGED <<minute, last, final, feed, bus, owed, candles, received, lost>>
    BY <1>1, <1>6, <1>8 DEF exchangeVars
  <2>4. MarketShape'
    BY <1>1, <1>2, <2>3 DEF CandleInv, MarketShape
  <2>5. AllFinal'
    BY <1>4, <2>3 DEF CandleInv, AllFinal
  <2>6. AllAccounted'
    BY <1>5, <2>2, <2>3 DEF CandleInv, AllAccounted, OnBus
  <2> QED BY <2>4, <2>5, <2>6 DEF CandleInv
<1>9. CASE messages # <<>>
  <2> DEFINE msg == Head(messages)
  <2>1. /\ msg \in Messages /\ Tail(messages) \in Seq(Messages)
        /\ \A k \in DOMAIN Tail(messages) : ~Tail(messages)[k].closed
        /\ f.kind = "kline" => msg = Message("tick", f.at, f.price, f.closed)
        /\ f.kind # "kline" => ~msg.closed
    BY <1>2, <1>9, HandleShape DEF messages
  <2>2. /\ msg.closed <=> f.closed
        /\ msg.closed => msg.kind = "tick" /\ msg.ts = f.at /\ msg.value = f.price
    BY <1>2, <1>3, <2>1 DEF Message, Messages, Frames
  <2>3. bus' = Append(bus, msg) /\ owed' = Tail(messages)
    BY <1>7, <1>9
  <2> HIDE DEF msg
  <2>4. \A m : OnSocket(m) => OnSocket(m)' \/ (msg.closed /\ msg.ts = m)
    BY <1>5, <2>2
  <2> QED BY <1>1, <1>2, <1>3, <1>4, <2>1, <2>2, <2>3, <2>4, PublishKeeps
<1> QED BY <1>8, <1>9

LEMMA FundingKeeps == ASSUME CandleInv, PublishFunding PROVE CandleInv'
<1>1. /\ owed \in Seq(Messages) /\ owed # <<>> /\ feed = "up"
      /\ bus' = Append(bus, Head(owed)) /\ owed' = Tail(owed)
      /\ UNCHANGED <<exchangeVars, feed, socket, candles, received, lost>>
  BY DEF CandleInv, MarketShape, PublishFunding, tables
<1>2. /\ Head(owed) \in Messages /\ Head(owed) = owed[1] /\ 1 \in DOMAIN owed /\ owed' \in Seq(Messages)
      /\ \A k \in DOMAIN owed' : k + 1 \in DOMAIN owed /\ owed'[k] = owed[k + 1]
  BY <1>1
<1>3. ~Head(owed).closed /\ \A k \in DOMAIN owed' : ~owed'[k].closed
  BY <1>2 DEF CandleInv, AllFinal
<1>4. /\ socket' \in Seq(Frames)
      /\ \A k \in DOMAIN socket' : \E j \in DOMAIN socket : socket'[k] = socket[j]
      /\ \A m : OnSocket(m) => OnSocket(m)'
  BY <1>1 DEF CandleInv, MarketShape, OnSocket
<1> QED BY <1>1, <1>2, <1>3, <1>4, PublishKeeps

\* What the socket held is lost.
LEMMA FailKeeps == ASSUME CandleInv, FeedFails PROVE CandleInv'
<1>1. /\ feed' = "waiting" /\ socket' = <<>> /\ owed' = <<>> /\ lost' = lost \cup Finals(socket)
      /\ UNCHANGED <<minute, last, final, bus, candles, received>>
  BY DEF FeedFails, Disconnect, exchangeVars, tables
<1>2. MarketShape'
  BY <1>1 DEF CandleInv, MarketShape
<1>3. AllFinal'
  BY <1>1 DEF CandleInv, AllFinal
<1>4. \A m : OnSocket(m) => m \in lost'
  BY <1>1, FinalsMember DEF OnSocket
<1>5. AllAccounted'
  BY <1>1, <1>4 DEF CandleInv, AllAccounted, OnBus
<1> QED BY <1>2, <1>3, <1>5 DEF CandleInv

\* The head of the bus is stored, is not to be stored, or is lost.
LEMMA ConsumeKeeps == ASSUME CandleInv, ConsumeMarket PROVE CandleInv'
<1> DEFINE msg == Head(bus)
<1>1. /\ bus \in Seq(Messages) /\ bus # <<>> /\ bus' = Tail(bus)
      /\ UNCHANGED <<minute, last, final, feed, socket, owed, received>>
  BY DEF CandleInv, MarketShape, ConsumeMarket, exchangeVars
<1>2. /\ msg \in Messages /\ msg = bus[1] /\ 1 \in DOMAIN bus /\ bus' \in Seq(Messages)
      /\ \A k \in DOMAIN bus' : k + 1 \in DOMAIN bus /\ bus'[k] = bus[k + 1]
      /\ \A k \in DOMAIN bus : k = 1 \/ (k - 1 \in DOMAIN bus' /\ bus'[k - 1] = bus[k])
  BY <1>1
<1>3. msg.closed => msg.kind = "tick" /\ msg.ts \in 0 .. minute - 1 /\ msg.value = final[msg.ts]
  BY <1>2 DEF CandleInv, AllFinal
<1>4. \A m : OnBus(m) => OnBus(m)' \/ (msg.closed /\ msg.ts = m)
  BY <1>2 DEF OnBus
<1>5. MarketShape'
  BY <1>1, <1>2 DEF CandleInv, MarketShape
<1>6. \A k \in DOMAIN bus' : bus'[k].closed =>
          bus'[k].kind = "tick" /\ bus'[k].ts \in 0 .. minute - 1 /\ bus'[k].value = final[bus'[k].ts]
  BY <1>2 DEF CandleInv, AllFinal
<1>7. CASE RouteMarket(msg) /\ lost' = lost
  <2>1. \/ candles' = candles /\ (msg.kind = "tick" /\ msg.closed => msg.ts \in DOMAIN candles)
        \/ /\ msg.closed
           /\ candles' = [m \in DOMAIN candles \cup {msg.ts} |-> IF m = msg.ts THEN msg.value ELSE candles[m]]
    BY <1>7 DEF RouteMarket, ClosedTick, UpsertKline
  <2> HIDE DEF msg
  <2>2. \A m \in DOMAIN candles' : m \in 0 .. minute - 1 /\ candles'[m] = final[m]
    BY <1>3, <2>1 DEF CandleInv, AllFinal
  <2>3. DOMAIN candles \subseteq DOMAIN candles' /\ (msg.closed => msg.ts \in DOMAIN candles')
    BY <1>3, <2>1
  <2>4. AllFinal'
    BY <1>1, <1>6, <2>2 DEF CandleInv, AllFinal
  <2>5. AllAccounted'
    BY <1>1, <1>4, <1>7, <2>3 DEF CandleInv, AllAccounted, OnSocket
  <2> QED BY <1>5, <2>4, <2>5 DEF CandleInv
<1>8. CASE /\ lost' = lost \cup Finals(<<[at |-> msg.ts, closed |-> msg.closed]>>)
           /\ UNCHANGED tables
  <2>1. msg.closed => msg.ts \in lost'
    <3> DEFINE frames == <<[at |-> msg.ts, closed |-> msg.closed]>>
    <3>1. 1 \in DOMAIN frames /\ frames[1].at = msg.ts /\ frames[1].closed = msg.closed
      OBVIOUS
    <3>2. msg.closed => msg.ts \in Finals(frames)
      <4> HIDE DEF frames, msg
      <4> QED BY <3>1, FinalsMember
    <3> QED BY <1>8, <3>2
  <2> HIDE DEF msg
  <2>2. candles' = candles /\ lost \subseteq lost'
    BY <1>8 DEF tables
  <2>3. AllFinal'
    BY <1>1, <1>6, <2>2 DEF CandleInv, AllFinal
  <2>4. AllAccounted'
    BY <1>1, <1>4, <2>1, <2>2 DEF CandleInv, AllAccounted, OnSocket
  <2> QED BY <1>5, <2>3, <2>4 DEF CandleInv
<1> QED BY <1>7, <1>8 DEF ConsumeMarket

LEMMA CandleStep == ASSUME CandleInv, MarketNext PROVE CandleInv'
<1>1. ASSUME UNCHANGED <<exchangeVars, socket, owed, bus, candles, received, lost>>, feed' = feed \/ feed # "up"
      PROVE  CandleInv'
  <2>1. UNCHANGED <<minute, last, final>>
    BY <1>1 DEF exchangeVars
  <2> QED BY <1>1, <2>1 DEF CandleInv, MarketShape, AllFinal, AllAccounted, OnSocket, OnBus
<1>2. CASE Trade
  <2>1. PICK p \in Prices : last' = p /\ Send(Kline(p, FALSE))
    BY <1>2 DEF Trade
  <2>2. Kline(p, FALSE) \in Frames /\ ~Kline(p, FALSE).closed /\ last' \in Nat
    BY <2>1, MarketAssumption DEF Kline, Frames, Kinds, CandleInv, MarketShape
  <2>3. minute' = minute /\ UNCHANGED <<final, feed, owed, bus, candles, received, lost>>
    BY <1>2 DEF Trade, tables
  <2> QED BY <2>1, <2>2, <2>3, SendKeeps
<1>3. CASE CloseCandle
  BY <1>3, CloseKeeps
<1>4. CASE OtherFrame
  <2>1. PICK kind \in Kinds \ {"kline"} : Send(Other(kind))
    BY <1>4 DEF OtherFrame
  <2>2. Other(kind) \in Frames /\ ~Other(kind).closed
    BY DEF Other, Frames, CandleInv, MarketShape
  <2>3. minute' = minute /\ last' \in Nat /\ UNCHANGED <<final, feed, owed, bus, candles, received, lost>>
    BY <1>4 DEF OtherFrame, exchangeVars, tables, CandleInv, MarketShape
  <2> QED BY <2>1, <2>2, <2>3, SendKeeps
<1>5. CASE ConnectAndStream \/ Retry
  BY <1>1, <1>5 DEF ConnectAndStream, Retry, tables
<1>6. CASE FeedFails
  BY <1>6, FailKeeps
<1>7. CASE Receive
  BY <1>7, ReceiveKeeps
<1>8. CASE PublishFunding
  BY <1>8, FundingKeeps
<1>9. CASE ConsumeMarket
  BY <1>9, ConsumeKeeps
<1>10. CASE MLAgent
  BY <1>1, <1>10 DEF MLAgent, Ask, FetchForKronos, BuildFeatures, Infer, PublishSignal, InsertSignal,
      At, marketIdle, tables
<1> QED BY <1>2, <1>3, <1>4, <1>5, <1>6, <1>7, <1>8, <1>9, <1>10 DEF MarketNext, Feed

LEMMA CandleKept == ASSUME CandleInv, [ServicesNext]_servicesVars PROVE CandleInv'
<1>1. CASE MarketNext
  BY <1>1, CandleStep
<1>2. CASE UNCHANGED marketVars
  BY <1>2 DEF marketVars, exchangeVars, tables, CandleInv, MarketShape, AllFinal, AllAccounted, OnSocket, OnBus
<1> QED BY <1>1, <1>2, MarketSteps

\* Every stored candle is the final one of its minute, and every final candle that
\* reached the open socket is stored, on its way, or taken by a failure
\* (FeedManager, FrameHandler._handle_kline, StorageSubscriber._route_market,
\* TimescaleWriter.upsert_kline), for any number of minutes, frames and messages
\* under way.
THEOREM ReceivedCandlesStoredHolds == ServicesSpec => []ReceivedCandlesStored
<1>1. ServicesInit => CandleInv
  BY CandleInit DEF ServicesInit
<1>2. CandleInv /\ [ServicesNext]_servicesVars => CandleInv'
  BY CandleKept
<1>3. CandleInv => ReceivedCandlesStored
  <2> SUFFICES ASSUME CandleInv PROVE ReceivedCandlesStored
    OBVIOUS
  <2>1. \A m \in DOMAIN candles : m < minute /\ candles[m] = final[m]
    BY DEF CandleInv, MarketShape, AllFinal
  <2>2. \A m : OnSocket(m) <=> m \in Finals(socket)
    BY FinalsMember DEF OnSocket
  <2> QED BY <2>1, <2>2 DEF ReceivedCandlesStored, CandleInv, AllAccounted, OnBus
<1> QED BY <1>1, <1>2, <1>3, PTL DEF ServicesSpec
-----------------------------------------------------------------------------
(* The types of the market data.                                           *)

\* The cap of the backoff is not below its first value, as in the settings' defaults:
\* else the first wait is longer than the cap.
BackoffFits == BackoffInitial <= BackoffMax

FundingTimes == {NextFunding(m) : m \in 0 .. minute}

\* What MarketTypeOK needs to be inductive: only minutes that are over are received
\* or taken by a failure, and what carries a funding time carries one of a minute
\* that has begun.
FeedInv ==
    /\ minute \in 0 .. MaxMinute /\ last \in Prices
    /\ feed \in {"waiting", "connecting", "up"} /\ backoff \in 1 .. BackoffMax
    /\ received \cup lost \subseteq 0 .. minute - 1 /\ fundings \subseteq FundingTimes
    /\ \A k \in DOMAIN socket : socket[k].at \in 0 .. minute
    /\ \A k \in DOMAIN owed : owed[k].ts \in FundingTimes
    /\ \A k \in DOMAIN bus : bus[k].kind = "funding" => bus[k].ts \in FundingTimes

\* The times of the fundings that a clock which goes on has passed.
LEMMA FundingTimesGrow ==
    ASSUME minute \in Nat, minute' \in {minute, minute + 1}
    PROVE  FundingTimes \subseteq FundingTimes'
<1>1. 0 .. minute \subseteq 0 .. minute'
  OBVIOUS
<1>2. FundingTimes' = {NextFunding(m) : m \in 0 .. minute'}
  BY DEF FundingTimes, NextFunding
<1> QED BY <1>1, <1>2 DEF FundingTimes

LEMMA MulMono ==
    ASSUME NEW d \in Nat, NEW x \in Int, NEW y \in Int, x <= y
    PROVE  d * x <= d * y
OBVIOUS

LEMMA BackoffStep ==
    ASSUME backoff \in 1 .. BackoffMax
    PROVE  NextBackoff \in 1 .. BackoffMax
<1>1. /\ BackoffFactor \in Nat /\ BackoffFactor >= 1 /\ BackoffMax \in Nat
      /\ backoff \in Nat /\ backoff >= 1
  BY MarketAssumption
<1>2. backoff * 1 <= backoff * BackoffFactor
  BY <1>1, MulMono
<1>3. backoff * BackoffFactor \in Nat /\ 1 <= backoff * BackoffFactor
  BY <1>1, <1>2
<1> DEFINE b == backoff * BackoffFactor
<1> HIDE DEF b
<1>4. b \in Nat /\ 1 <= b /\ NextBackoff = IF b < BackoffMax THEN b ELSE BackoffMax
  BY <1>3 DEF NextBackoff, b
<1> QED BY <1>1, <1>4

LEMMA FeedStart == ASSUME MarketInit, BackoffFits PROVE FeedInv
BY MarketAssumption DEF MarketInit, BackoffFits, FeedInv

\* The times of what a frame of the socket is published as.
LEMMA FundingReceived ==
    ASSUME FeedInv, CandleInv, Receive
    PROVE  FeedInv'
<1> DEFINE f == Head(socket)
           messages == Handle(f)
<1>1. /\ socket \in Seq(Frames) /\ socket # <<>> /\ owed = <<>> /\ bus \in Seq(Messages)
      /\ socket' = Tail(socket)
      /\ UNCHANGED <<minute, last, feed, backoff, received, lost, fundings>> /\ minute \in Nat
  BY DEF CandleInv, MarketShape, Receive, tables, exchangeVars
<1>2. /\ f \in Frames /\ f = socket[1] /\ 1 \in DOMAIN socket
      /\ \A k \in DOMAIN socket' : k + 1 \in DOMAIN socket /\ socket'[k] = socket[k + 1]
  BY <1>1
<1>3. f.kind = "mark" => NextFunding(f.at) \in FundingTimes
  <2>1. f.at \in 0 .. minute
    BY <1>2 DEF FeedInv
  <2> QED BY <2>1 DEF FundingTimes
<1>4. FundingTimes' = FundingTimes
  BY <1>1 DEF FundingTimes, NextFunding
<1>9. \A k \in DOMAIN socket' : socket'[k].at \in 0 .. minute
  BY <1>2 DEF FeedInv
<1>5. messages = <<>> => bus' = bus /\ owed' = owed
  BY DEF Receive
<1>6. messages # <<>> => bus' = Append(bus, Head(messages)) /\ owed' = Tail(messages)
  BY DEF Receive
<1> HIDE DEF f, messages
<1>7. CASE messages = <<>>
  BY <1>1, <1>4, <1>5, <1>7, <1>9 DEF FeedInv
<1>8. CASE messages # <<>>
  <2> DEFINE msg == Head(messages)
             g == Message("funding", NextFunding(f.at), 0, FALSE)
  <2>1. /\ msg \in Messages
        /\ f.kind = "kline" => msg = Message("tick", f.at, f.price, f.closed)
        /\ f.kind = "mark" => /\ msg = Message("mark", NextFunding(f.at), f.at, FALSE)
                              /\ Tail(messages) = <<g>>
        /\ f.kind # "mark" => msg.kind \notin {"mark", "funding"} /\ Tail(messages) = <<>>
    BY <1>2, <1>8, HandleShape DEF messages
  <2>2. bus' = Append(bus, msg) /\ owed' = Tail(messages)
    BY <1>6, <1>8
  <2>3. msg.kind # "funding"
    BY <2>1 DEF Message
  <2>4. g.ts = NextFunding(f.at)
    BY DEF Message
  <2> HIDE DEF msg, g
  <2>5. \A k \in DOMAIN owed' : owed'[k].ts \in FundingTimes
    <3>1. CASE f.kind = "mark"
      <4>1. \A k \in DOMAIN <<g>> : <<g>>[k].ts \in FundingTimes
        BY <1>3, <2>4, <3>1
      <4> QED BY <2>1, <2>2, <3>1, <4>1
    <3>2. CASE f.kind # "mark"
      BY <2>1, <2>2, <3>2
    <3> QED BY <3>1, <3>2
  <2>6. \A k \in DOMAIN bus' : bus'[k] = msg \/ (k \in DOMAIN bus /\ bus'[k] = bus[k])
    BY <1>1, <2>1, <2>2
  <2>7. \A k \in DOMAIN bus' : bus'[k].kind = "funding" => bus'[k].ts \in FundingTimes
    BY <2>3, <2>6 DEF FeedInv
  <2> QED BY <1>1, <1>4, <1>9, <2>5, <2>7 DEF FeedInv
<1> QED BY <1>7, <1>8

\* What the socket holds after a frame was sent.
LEMMA FrameSent ==
    ASSUME FeedInv, CandleInv, NEW f, Send(f), f.at \in 0 .. minute
    PROVE  \A k \in DOMAIN socket' : socket'[k].at \in 0 .. minute
<1>1. CASE socket' = socket
  BY <1>1 DEF FeedInv
<1>2. CASE socket' = Append(socket, f)
  <2>1. \A k \in DOMAIN socket' : socket'[k] = f \/ (k \in DOMAIN socket /\ socket'[k] = socket[k])
    BY <1>2 DEF CandleInv, MarketShape
  <2> QED BY <2>1 DEF FeedInv
<1> QED BY <1>1, <1>2 DEF Send

LEMMA FeedKept == ASSUME FeedInv, CandleInv, MarketNext PROVE FeedInv'
<1>1. minute \in Nat
  BY DEF CandleInv, MarketShape
<1>2. ASSUME UNCHANGED <<minute, owed, bus, received, lost, fundings>>, last' \in Prices,
             \A k \in DOMAIN socket' : socket'[k].at \in 0 .. minute,
             feed' \in {"waiting", "connecting", "up"}, backoff' \in 1 .. BackoffMax
      PROVE  FeedInv'
  <2>1. FundingTimes' = FundingTimes
    BY <1>2 DEF FundingTimes, NextFunding
  <2> QED BY <1>2, <2>1 DEF FeedInv
<1>3. CASE Trade \/ OtherFrame
  <2>1. ASSUME Trade PROVE \A k \in DOMAIN socket' : socket'[k].at \in 0 .. minute
    <3>1. PICK p \in Prices : Send(Kline(p, FALSE))
      BY <2>1 DEF Trade
    <3>2. Kline(p, FALSE).at \in 0 .. minute
      BY <1>1 DEF Kline
    <3> QED BY <3>1, <3>2, FrameSent
  <2>2. ASSUME OtherFrame PROVE \A k \in DOMAIN socket' : socket'[k].at \in 0 .. minute
    <3>1. PICK kind \in Kinds \ {"kline"} : Send(Other(kind))
      BY <2>2 DEF OtherFrame
    <3>2. Other(kind).at \in 0 .. minute
      BY <1>1 DEF Other
    <3> QED BY <3>1, <3>2, FrameSent
  <2> QED BY <1>2, <1>3, <2>1, <2>2 DEF Trade, OtherFrame, exchangeVars, tables, FeedInv
<1>4. CASE ConnectAndStream \/ MLAgent
  BY <1>2, <1>4 DEF ConnectAndStream, MLAgent, Ask, FetchForKronos, BuildFeatures, Infer, PublishSignal,
      InsertSignal, At, marketIdle, exchangeVars, tables, FeedInv
<1>5. CASE Retry
  <2>1. backoff' \in 1 .. BackoffMax
    BY <1>5, BackoffStep DEF Retry, FeedInv
  <2> QED BY <1>2, <1>5, <2>1 DEF Retry, exchangeVars, tables, FeedInv
<1>6. CASE CloseCandle
  <2>1. /\ minute' = minute + 1 /\ minute < MaxMinute /\ received' \in {received, received \cup {minute}}
        /\ Send(Kline(last, TRUE)) /\ UNCHANGED <<last, feed, backoff, owed, bus, lost, fundings>>
    BY <1>6 DEF CloseCandle, tables
  <2>2. FundingTimes \subseteq FundingTimes'
    BY <1>1, <2>1, FundingTimesGrow
  <2>3. minute' \in 0 .. MaxMinute /\ 0 .. minute - 1 \subseteq 0 .. minute' - 1 /\ minute \in 0 .. minute' - 1
    BY <1>1, <2>1, MarketAssumption
  <2>4. received' \cup lost' \subseteq 0 .. minute' - 1 /\ fundings' \subseteq FundingTimes'
    BY <2>1, <2>2, <2>3 DEF FeedInv
  <2>5. /\ \A k \in DOMAIN owed' : owed'[k].ts \in FundingTimes'
        /\ \A k \in DOMAIN bus' : bus'[k].kind = "funding" => bus'[k].ts \in FundingTimes'
    BY <2>1, <2>2 DEF FeedInv
  <2>6. last' \in Prices /\ feed' \in {"waiting", "connecting", "up"} /\ backoff' \in 1 .. BackoffMax
    BY <2>1 DEF FeedInv
  <2>7. \A k \in DOMAIN socket' : socket'[k].at \in 0 .. minute'
    <3>1. Kline(last, TRUE).at \in 0 .. minute
      BY <1>1 DEF Kline
    <3>2. \A k \in DOMAIN socket' : socket'[k].at \in 0 .. minute
      BY <2>1, <3>1, FrameSent
    <3> QED BY <1>1, <2>1, <3>2
  <2> QED BY <2>3, <2>4, <2>5, <2>6, <2>7 DEF FeedInv
<1>7. CASE FeedFails
  <2>1. /\ feed' = "waiting" /\ socket' = <<>> /\ owed' = <<>> /\ lost' = lost \cup Finals(socket)
        /\ UNCHANGED <<minute, last, backoff, bus, received, fundings>>
    BY <1>7 DEF FeedFails, Disconnect, exchangeVars, tables
  <2>2. Finals(socket) \subseteq 0 .. minute - 1
    <3>1. \A k \in DOMAIN socket : socket[k].closed => socket[k].at < minute /\ socket[k].at \in Nat
      BY InQueues DEF CandleInv, AllFinal
    <3> QED BY <1>1, <3>1, FinalsMember
  <2>3. FundingTimes' = FundingTimes
    BY <2>1 DEF FundingTimes, NextFunding
  <2>4. received' \cup lost' \subseteq 0 .. minute' - 1 /\ feed' \in {"waiting", "connecting", "up"}
    BY <2>1, <2>2 DEF FeedInv
  <2>5. \A k \in DOMAIN owed' : owed'[k].ts \in FundingTimes'
    BY <2>1
  <2> QED BY <2>1, <2>3, <2>4, <2>5 DEF FeedInv
<1>8. CASE Receive
  BY <1>8, FundingReceived
<1>9. CASE PublishFunding
  <2>1. /\ owed \in Seq(Messages) /\ owed # <<>> /\ bus \in Seq(Messages)
        /\ bus' = Append(bus, Head(owed)) /\ owed' = Tail(owed)
        /\ UNCHANGED <<socket, minute, last, feed, backoff, received, lost, fundings>>
    BY <1>9 DEF PublishFunding, exchangeVars, tables, CandleInv, MarketShape
  <2>2. /\ Head(owed) = owed[1] /\ 1 \in DOMAIN owed
        /\ \A k \in DOMAIN owed' : k + 1 \in DOMAIN owed /\ owed'[k] = owed[k + 1]
        /\ \A k \in DOMAIN bus' : bus'[k] = Head(owed) \/ (k \in DOMAIN bus /\ bus'[k] = bus[k])
    BY <2>1
  <2>3. FundingTimes' = FundingTimes
    BY <2>1 DEF FundingTimes, NextFunding
  <2> QED BY <2>1, <2>2, <2>3 DEF FeedInv
<1>10. CASE ConsumeMarket
  <2> DEFINE msg == Head(bus)
  <2>1. /\ bus \in Seq(Messages) /\ bus # <<>> /\ bus' = Tail(bus)
        /\ UNCHANGED <<minute, last, feed, backoff, socket, owed, received>>
    BY <1>10 DEF ConsumeMarket, exchangeVars, CandleInv, MarketShape
  <2>2. /\ msg = bus[1] /\ 1 \in DOMAIN bus
        /\ \A k \in DOMAIN bus' : k + 1 \in DOMAIN bus /\ bus'[k] = bus[k + 1]
    BY <2>1
  <2>3. FundingTimes' = FundingTimes
    BY <2>1 DEF FundingTimes, NextFunding
  <2>4. fundings' = fundings \/ (msg.kind = "funding" /\ fundings' = fundings \cup {msg.ts})
    BY <1>10 DEF ConsumeMarket, RouteMarket, tables
  <2>5. fundings' \subseteq FundingTimes
    BY <2>2, <2>4 DEF FeedInv
  <2>6. lost' = lost \/ lost' = lost \cup Finals(<<[at |-> msg.ts, closed |-> msg.closed]>>)
    BY <1>10 DEF ConsumeMarket
  <2>7. msg.closed => msg.ts \in 0 .. minute - 1
    BY <2>2 DEF CandleInv, AllFinal
  <2>8. \A m \in Finals(<<[at |-> msg.ts, closed |-> msg.closed]>>) : msg.closed /\ m = msg.ts
    <3> DEFINE frames == <<[at |-> msg.ts, closed |-> msg.closed]>>
    <3>1. \A k \in DOMAIN frames : frames[k].at = msg.ts /\ frames[k].closed = msg.closed
      <4> HIDE DEF msg
      <4> QED OBVIOUS
    <3> HIDE DEF frames, msg
    <3>2. \A m \in Finals(frames) : msg.closed /\ m = msg.ts
      BY <3>1, FinalsMember
    <3> QED BY <3>2 DEF frames
  <2>9. received' \cup lost' \subseteq 0 .. minute - 1
    BY <2>1, <2>6, <2>7, <2>8 DEF FeedInv
  <2>10. \A k \in DOMAIN bus' : bus'[k].kind = "funding" => bus'[k].ts \in FundingTimes
    BY <2>2 DEF FeedInv
  <2> QED BY <2>1, <2>3, <2>5, <2>9, <2>10 DEF FeedInv
<1> QED BY <1>3, <1>4, <1>5, <1>6, <1>7, <1>8, <1>9, <1>10 DEF MarketNext, Feed

LEMMA MarketTyped ==
    ASSUME FeedInv, CandleInv, AnswerInv
    PROVE  MarketTypeOK
<1>1. DOMAIN candles \subseteq 0 .. minute - 1
  BY DEF CandleInv, AllFinal
<1>2. feed # "up" => socket = <<>> /\ owed = <<>>
  BY DEF CandleInv, MarketShape
<1>3. ml.phase \in {"idle", "fetch", "build", "infer", "publish", "neutral", "insert", "insertNeutral"}
  BY DEF AnswerInv, Asked
<1> QED BY <1>1, <1>2, <1>3 DEF MarketTypeOK, FeedInv, FundingTimes
-----------------------------------------------------------------------------
(* The types of the gateway.                                               *)

Connections == [page : Pages, link : {"up", "closed"},
                serve : {"upgraded", "joining", "reading", "leaving", "ended"}, full : BOOLEAN]

\* GatewayTypeOK, and the shape of the connections it rests on.
GatewayInv ==
    /\ conns \in Seq(Connections)
    /\ current \in [Pages -> 0 .. Len(conns)]
    /\ GatewayTypeOK

\* The links of some connections close: nothing else of them changes.
LEMMA ClosedKeeps ==
    ASSUME conns \in Seq(Connections), NEW ids, Closed(ids), timers \subseteq Pages, ids \subseteq Ids
    PROVE  /\ conns' \in Seq(Connections) /\ Len(conns') = Len(conns) /\ DOMAIN conns' = DOMAIN conns
           /\ \A c \in Ids : conns'[c].serve = conns[c].serve
           /\ timers' \subseteq Pages
<1>1. DOMAIN conns = 1 .. Len(conns) /\ Len(conns) \in Nat /\ \A c \in Ids : conns[c] \in Connections
  BY DEF Ids
<1>2. conns' = [c \in Ids |-> IF c \in ids THEN [conns[c] EXCEPT !.link = "closed"] ELSE conns[c]]
  BY DEF Closed
<1>3. \A c \in Ids : [conns[c] EXCEPT !.link = "closed"] \in Connections
                     /\ [conns[c] EXCEPT !.link = "closed"].serve = conns[c].serve
  BY <1>1 DEF Connections
<1>4. \A c \in Ids : conns'[c] \in Connections /\ conns'[c].serve = conns[c].serve
  BY <1>1, <1>2, <1>3
<1>5. conns' \in [1 .. Len(conns) -> Connections]
  BY <1>1, <1>2, <1>4 DEF Ids
<1>6. conns' \in Seq(Connections) /\ Len(conns') = Len(conns)
  <2> HIDE DEF Connections
  <2> QED BY <1>1, <1>5, LenProperties, SeqDef
<1>7. \A c \in ids : conns[c].page \in Pages
  BY <1>1 DEF Connections
<1> QED BY <1>1, <1>4, <1>6, <1>7 DEF Closed, Ids

\* One connection changes a field.
LEMMA ConnectionSet ==
    ASSUME conns \in Seq(Connections), NEW c \in Ids, NEW r \in Connections,
           conns' = [conns EXCEPT ![c] = r]
    PROVE  /\ conns' \in Seq(Connections) /\ Len(conns') = Len(conns) /\ DOMAIN conns' = DOMAIN conns
           /\ conns'[c] = r /\ \A d \in Ids \ {c} : conns'[d] = conns[d]
<1> HIDE DEF Connections
<1> QED BY DEF Ids

\* The map and the loop are told by what each ServeWS does.
LEMMA GatewayShape ==
    ASSUME GatewayInv, conns' \in Seq(Connections), Len(conns') = Len(conns), DOMAIN conns' = DOMAIN conns,
           timers' \subseteq Pages, mounted' \subseteq mounted, UNCHANGED current,
           clients' = {c \in Ids : conns'[c].serve \in {"reading", "leaving"}},
           unwritten' \subseteq clients', hub' # "writing" => unwritten' = {},
           hub' \in {"idle", "event", "writing"}, send' \in 0 .. SendBuffer
    PROVE  GatewayInv'
<1>1. clients' = {c \in DOMAIN conns' : conns'[c].serve \in {"reading", "leaving"}}
  BY DEF Ids
<1>2. current' \in [Pages -> 0 .. Len(conns')] /\ \A p \in Pages : current'[p] \in 0 .. Len(conns')
  BY DEF GatewayInv
<1> QED BY <1>1, <1>2 DEF GatewayInv, GatewayTypeOK, Ids

LEMMA GatewayKept == ASSUME GatewayInv, GatewayNext PROVE GatewayInv'
<1>0. /\ conns \in Seq(Connections) /\ DOMAIN conns = 1 .. Len(conns) /\ Len(conns) \in Nat
      /\ \A c \in Ids : conns[c] \in Connections
      /\ clients = {c \in Ids : conns[c].serve \in {"reading", "leaving"}}
      /\ timers \subseteq Pages /\ mounted \subseteq Pages
      /\ unwritten \subseteq clients /\ (hub # "writing" => unwritten = {})
      /\ hub \in {"idle", "event", "writing"} /\ send \in 0 .. SendBuffer
      /\ current \in [Pages -> 0 .. Len(conns)]
  BY DEF GatewayInv, GatewayTypeOK, Ids
<1>1. ASSUME NEW p \in Pages, Connect(p) PROVE GatewayInv'
  <2> DEFINE r == [page |-> p, link |-> "up", serve |-> "upgraded", full |-> FALSE]
  <2>1. r \in Connections /\ r.serve = "upgraded"
    BY DEF Connections
  <2>2. conns' = Append(conns, r) /\ UNCHANGED <<mounted, clients, send, hub, unwritten>>
    BY <1>1 DEF Connect, hubVars
  <2> HIDE DEF r, Connections
  <2>3. /\ conns' \in Seq(Connections) /\ Len(conns') = Len(conns) + 1
        /\ DOMAIN conns' = 1 .. Len(conns) + 1 /\ conns'[Len(conns) + 1] = r
        /\ \A c \in Ids : conns'[c] = conns[c]
    BY <1>0, <2>1, <2>2 DEF Ids
  <2>4. current' \in [Pages -> 0 .. Len(conns')] /\ timers' \subseteq Pages
    BY <1>0, <1>1, <2>3 DEF Connect
  <2>5. clients' = {c \in DOMAIN conns' : conns'[c].serve \in {"reading", "leaving"}}
    <3>1. \A c \in DOMAIN conns' : c \in Ids \/ conns'[c] = r
      BY <1>0, <2>3 DEF Ids
    <3>2. Ids \subseteq DOMAIN conns'
      BY <1>0, <2>3 DEF Ids
    <3> QED BY <1>0, <2>1, <2>2, <2>3, <3>1, <3>2
  <2> QED BY <1>0, <2>2, <2>3, <2>4, <2>5 DEF GatewayInv, GatewayTypeOK, Ids
<1>2. ASSUME NEW ids \in SUBSET Ids, Closed(ids), mounted' \subseteq mounted, UNCHANGED <<current, clients>>,
             unwritten' \subseteq unwritten, UNCHANGED <<hub, send>>
      PROVE  GatewayInv'
  <2>1. /\ conns' \in Seq(Connections) /\ Len(conns') = Len(conns) /\ DOMAIN conns' = DOMAIN conns
        /\ \A c \in Ids : conns'[c].serve = conns[c].serve
        /\ timers' \subseteq Pages
    BY <1>0, <1>2, ClosedKeeps
  <2>2. clients' = {c \in Ids : conns'[c].serve \in {"reading", "leaving"}}
    BY <1>0, <1>2, <2>1
  <2> QED BY <1>0, <1>2, <2>1, <2>2, GatewayShape
<1>3. ASSUME NEW c \in Ids, NEW r \in Connections, conns' = [conns EXCEPT ![c] = r],
             clients' = (IF r.serve \in {"reading", "leaving"} THEN clients \cup {c} ELSE clients \ {c}),
             unwritten' \subseteq unwritten \cap clients',
             UNCHANGED <<pageVars, hub, send>>
      PROVE  GatewayInv'
  <2>1. /\ conns' \in Seq(Connections) /\ Len(conns') = Len(conns) /\ DOMAIN conns' = DOMAIN conns
        /\ conns'[c] = r /\ \A d \in Ids \ {c} : conns'[d] = conns[d]
    BY <1>0, <1>3, ConnectionSet
  <2>2. clients' = {d \in Ids : conns'[d].serve \in {"reading", "leaving"}}
    BY <1>0, <1>3, <2>1
  <2> QED BY <1>0, <1>3, <2>1, <2>2, GatewayShape DEF pageVars
<1>4. ASSUME NEW p \in Pages, Unmount(p) PROVE GatewayInv'
  <2>1. {current[p]} \ {0} \in SUBSET Ids
    BY <1>0 DEF Ids
  <2> QED BY <1>2, <1>4, <2>1 DEF Unmount, hubVars
<1>5. CASE LinkBreaks
  <2>1. PICK c \in Ids : Closed({c})
    BY <1>5 DEF LinkBreaks
  <2> QED BY <1>2, <1>5, <2>1 DEF LinkBreaks, hubVars
<1>6. CASE PeerReads
  <2>1. PICK c \in Ids : conns' = [conns EXCEPT ![c].full = FALSE]
    BY <1>6 DEF PeerReads
  <2> DEFINE r == [conns[c] EXCEPT !.full = FALSE]
  <2>2. r \in Connections /\ r.serve = conns[c].serve
    BY <1>0 DEF Connections
  <2>3. conns' = [conns EXCEPT ![c] = r]
    BY <2>1
  <2>4. UNCHANGED <<pageVars, clients, unwritten, hub, send>>
    BY <1>6 DEF PeerReads, hubVars
  <2> HIDE DEF r
  <2> QED BY <1>0, <1>3, <2>2, <2>3, <2>4
<1>7. ASSUME NEW c \in Ids, ServeWS(c) PROVE GatewayInv'
  <2> DEFINE r(serve) == [conns[c] EXCEPT !.serve = serve]
  <2>1. \A serve \in {"joining", "reading", "leaving", "ended"} : r(serve) \in Connections /\ r(serve).serve = serve
    BY <1>0 DEF Connections
  <2>2. conns[c].serve \in {"upgraded", "joining"} => c \notin clients
    BY <1>0
  <2>3. conns[c].serve \in {"reading", "leaving"} => c \in clients
    BY <1>0
  <2>4. CASE AskToJoin(c)
    <3>1. conns' = [conns EXCEPT ![c] = r("joining")] /\ UNCHANGED <<pageVars, clients, hub, send, unwritten>>
      BY <2>4 DEF AskToJoin, hubVars
    <3>2. conns[c].serve = "upgraded"
      BY <2>4 DEF AskToJoin
    <3> HIDE DEF r
    <3> QED BY <1>0, <1>3, <2>1, <2>2, <3>1, <3>2
  <2>5. CASE Register(c)
    <3>1. /\ conns' = [conns EXCEPT ![c] = r("reading")] /\ clients' = clients \cup {c}
          /\ UNCHANGED <<pageVars, hub, send, unwritten>>
      BY <2>5 DEF Register, hubVars
    <3> HIDE DEF r
    <3> QED BY <1>0, <1>3, <2>1, <3>1
  <2>6. CASE ReadFails(c)
    <3>1. conns' = [conns EXCEPT ![c] = r("leaving")] /\ UNCHANGED <<pageVars, clients, hub, send, unwritten>>
      BY <2>6 DEF ReadFails, hubVars
    <3>2. conns[c].serve = "reading"
      BY <2>6 DEF ReadFails
    <3> HIDE DEF r
    <3> QED BY <1>0, <1>3, <2>1, <2>3, <3>1, <3>2
  <2>7. CASE Unregister(c)
    <3>1. /\ conns' = [conns EXCEPT ![c] = r("ended")] /\ clients' = clients \ {c} /\ hub # "writing"
          /\ UNCHANGED <<pageVars, hub, send, unwritten>>
      BY <2>7 DEF Unregister, NoReader, hubVars
    <3> HIDE DEF r
    <3> QED BY <1>0, <1>3, <2>1, <3>1
  <2> QED BY <1>7, <2>4, <2>5, <2>6, <2>7 DEF ServeWS
<1>8. ASSUME UNCHANGED <<pageVars, conns, clients>>, unwritten' \subseteq clients,
             hub' # "writing" => unwritten' = {}, hub' \in {"idle", "event", "writing"}, send' \in 0 .. SendBuffer
      PROVE  GatewayInv'
  BY <1>0, <1>8, GatewayShape DEF pageVars
<1>9. CASE Broadcast
  <2>1. send' \in 0 .. SendBuffer
    BY <1>0, <1>9, GatewayAssumption DEF Broadcast
  <2> QED BY <1>0, <1>8, <1>9, <2>1 DEF Broadcast
<1>10. CASE TakeEvent
  <2>1. send' \in 0 .. SendBuffer
    BY <1>0, <1>10, GatewayAssumption DEF TakeEvent
  <2> QED BY <1>0, <1>8, <1>10, <2>1 DEF TakeEvent
<1>11. CASE ReadLock \/ ReadUnlock
  BY <1>0, <1>8, <1>11 DEF ReadLock, ReadUnlock
<1>12. CASE Write
  <2>1. PICK c \in unwritten :
           /\ unwritten' = unwritten \ {c}
           /\ \/ UNCHANGED <<conns, timers>>
              \/ Closed({c})
              \/ \E full \in BOOLEAN : conns' = [conns EXCEPT ![c].full = full] /\ UNCHANGED timers
    BY <1>12 DEF Write
  <2>2. UNCHANGED <<mounted, current, clients, send, hub>> /\ hub = "writing"
    BY <1>12 DEF Write
  <2>3. c \in Ids /\ c \in clients
    BY <1>0
  <2>4. CASE UNCHANGED <<conns, timers>>
    BY <1>0, <1>8, <2>1, <2>2, <2>4 DEF pageVars
  <2>5. CASE Closed({c})
    BY <1>2, <2>1, <2>2, <2>3, <2>5
  <2>6. ASSUME NEW full \in BOOLEAN, conns' = [conns EXCEPT ![c].full = full], UNCHANGED timers
        PROVE  GatewayInv'
    <3> DEFINE r == [conns[c] EXCEPT !.full = full]
    <3>1. r \in Connections /\ r.serve = conns[c].serve
      BY <1>0, <2>3 DEF Connections
    <3>2. conns' = [conns EXCEPT ![c] = r]
      BY <2>6
    <3>3. UNCHANGED <<pageVars, hub, send>>
      BY <2>2, <2>6 DEF pageVars
    <3>4. r.serve \in {"reading", "leaving"}
      BY <1>0, <2>3, <3>1
    <3>5. clients' = (IF r.serve \in {"reading", "leaving"} THEN clients \cup {c} ELSE clients \ {c})
      BY <2>2, <2>3, <3>4
    <3>6. unwritten' \subseteq unwritten \cap clients'
      BY <1>0, <2>1, <2>2
    <3> HIDE DEF r
    <3> QED BY <1>3, <2>3, <3>1, <3>2, <3>3, <3>5, <3>6
  <2> QED BY <2>1, <2>4, <2>5, <2>6
<1>13. CASE \E p \in Pages : Connect(p) \/ Unmount(p)
  BY <1>1, <1>4, <1>13
<1>14. CASE \E c \in Ids : ServeWS(c)
  BY <1>7, <1>14
<1> QED BY <1>5, <1>6, <1>9, <1>10, <1>11, <1>12, <1>13, <1>14 DEF GatewayNext, Run

LEMMA GatewayStart == GatewayInit => GatewayInv
<1> SUFFICES ASSUME GatewayInit PROVE GatewayInv
  OBVIOUS
<1>1. conns \in Seq(Connections) /\ DOMAIN conns = {} /\ Len(conns) = 0
  BY DEF GatewayInit
<1> QED BY <1>1, GatewayAssumption DEF GatewayInit, GatewayInv, GatewayTypeOK, Ids

-----------------------------------------------------------------------------
(* The types of the learning part.                                         *)

RewardBounded(r) == r \in Int /\ -50000 <= r /\ r <= 50000

\* What LearningTypeOK needs to be inductive beyond the invariants of the entries and
\* of the cache: the parts of a close that its reward is computed from, and a new
\* version only when the bound leaves room for it.
LearningInv ==
    /\ open \in [Markets -> 0 .. Len(opened)]
    /\ unstored \subseteq 1 .. Len(opened) /\ DOMAIN tuples \subseteq 1 .. Len(opened)
    /\ \A k \in DOMAIN updates : updates[k].pnl \in Int
    /\ RewardBounded(computer.reward)
    /\ Len(buffer) <= MaxBuffer /\ policy \in BOOLEAN
    /\ active \in 0 .. MaxVersions /\ cache \in 0 .. MaxVersions
    /\ evolution \in {"score", "get", "fill", "ask", "save"} => active < MaxVersions
    /\ prompts \in [Readers -> 0 .. MaxVersions] /\ reading \in [Readers -> 0 .. MaxVersions]

LEMMA RewardWithin ==
    ASSUME NEW pnl \in Int, NEW ratio \in Int
    PROVE  RewardBounded(ComputeReward(pnl, ratio))
<1>1. ASSUME NEW lo \in Int, NEW hi \in Int, NEW x \in Int, lo <= hi
      PROVE  Within(lo, hi, x) \in Int /\ lo <= Within(lo, hi, x) /\ Within(lo, hi, x) <= hi
  BY <1>1 DEF Within
<1> DEFINE win == IF pnl > 0 THEN 2000 ELSE IF pnl = 0 THEN 0 ELSE -1000
           fall == IF pnl < 0 THEN -pnl ELSE 0
           late == IF pnl < 0 THEN 500 ELSE 0
           x == 40 * Within(-100, 100, pnl) + win + 400 * Within(0, 5, ratio) - 45 * fall - late
<1>2. Within(-100, 100, pnl) \in Int /\ Within(0, 5, ratio) \in Int
  BY <1>1
<1>3. win \in Int /\ fall \in Int /\ late \in Int
  OBVIOUS
<1>4. x \in Int
  BY <1>2, <1>3
<1>5. ComputeReward(pnl, ratio) = Within(-50000, 50000, x)
  BY DEF ComputeReward
<1> HIDE DEF x
<1> QED BY <1>1, <1>4, <1>5 DEF RewardBounded

\* A computer that listens has no reward.
LEMMA ListeningReward == RewardBounded(Listening.reward)
BY DEF Listening, RewardBounded

\* The steps of the trades and of the reward computer.
LEMMA RewardTyped ==
    ASSUME LearningInv, EntryInv, UNCHANGED promptVars,
           (\E s \in Markets : OpenTrade(s) \/ CloseTrade(s)) \/ InsertTuple \/ RewardComputer
    PROVE  LearningInv'
<1>0. Len(opened) \in Nat /\ UNCHANGED <<active, cache, prompts, reading, evolution>>
  BY DEF EntryInv, promptVars
<1>1. ASSUME NEW s \in Markets, OpenTrade(s) PROVE LearningInv'
  <2>1. /\ Len(opened') = Len(opened) + 1 /\ open' = [open EXCEPT ![s] = Len(opened')]
        /\ unstored' = unstored \cup {Len(opened')}
        /\ UNCHANGED <<tuples, updates, computer, buffer, policy>>
    BY <1>1 DEF OpenTrade, EntryInv
  <2>2. open' \in [Markets -> 0 .. Len(opened')]
    BY <1>0, <2>1 DEF LearningInv
  <2>3. 1 .. Len(opened) \subseteq 1 .. Len(opened') /\ Len(opened') \in 1 .. Len(opened')
    BY <1>0, <2>1
  <2>4. unstored' \subseteq 1 .. Len(opened') /\ DOMAIN tuples' \subseteq 1 .. Len(opened')
    <3>1. unstored \subseteq 1 .. Len(opened) /\ DOMAIN tuples \subseteq 1 .. Len(opened)
      BY DEF LearningInv
    <3> QED BY <2>1, <2>3, <3>1
  <2> QED BY <1>0, <2>1, <2>2, <2>4 DEF LearningInv
<1>2. ASSUME NEW s \in Markets, CloseTrade(s) PROVE LearningInv'
  <2>1. PICK pnl \in Outcomes : updates' = Append(updates, [symbol |-> s, trade |-> open[s], pnl |-> pnl])
    BY <1>2 DEF CloseTrade
  <2>2. open' = [open EXCEPT ![s] = 0] /\ UNCHANGED <<opened, unstored, tuples, computer, buffer, policy>>
    BY <1>2 DEF CloseTrade
  <2>3. pnl \in Int
    BY LearningAssumption
  <2>4. \A k \in DOMAIN updates' : updates'[k].pnl \in Int
    <3> DEFINE u == [symbol |-> s, trade |-> open[s], pnl |-> pnl]
    <3>1. u.pnl = pnl /\ updates' = Append(updates, u)
      BY <2>1
    <3> HIDE DEF u
    <3>2. \A k \in DOMAIN updates' : updates'[k] = u \/ (k \in DOMAIN updates /\ updates'[k] = updates[k])
      BY <3>1 DEF EntryInv
    <3> QED BY <2>3, <3>1, <3>2 DEF LearningInv
  <2>5. open' \in [Markets -> 0 .. Len(opened')]
    BY <1>0, <2>2 DEF LearningInv
  <2> QED BY <1>0, <2>2, <2>4, <2>5 DEF LearningInv
<1>3. CASE InsertTuple
  <2>1. PICK id \in unstored :
           /\ unstored' = unstored \ {id}
           /\ tuples' \in {tuples, [n \in DOMAIN tuples \cup {id} |-> IF n = id THEN Null ELSE tuples[n]]}
    BY <1>3 DEF InsertTuple
  <2>2. UNCHANGED <<opened, open, updates, computer, buffer, policy>>
    BY <1>3 DEF InsertTuple
  <2>3. DOMAIN tuples' \subseteq DOMAIN tuples \cup {id}
    BY <2>1
  <2>4. unstored' \subseteq 1 .. Len(opened) /\ DOMAIN tuples' \subseteq 1 .. Len(opened)
    BY <2>1, <2>3 DEF LearningInv
  <2> QED BY <1>0, <2>2, <2>4 DEF LearningInv
<1>4. CASE HandleClose
  <2>1. PICK ratio \in Ratios :
           computer'.reward = ComputeReward(Head(updates).pnl, IF entryInfo[Head(updates).symbol] = 0 THEN 2 ELSE ratio)
    BY <1>4 DEF HandleClose
  <2>2. updates' = Tail(updates) /\ updates # <<>> /\ UNCHANGED <<opened, open, unstored, tuples, buffer, policy>>
    BY <1>4 DEF HandleClose
  <2>3. /\ Head(updates).pnl \in Int
        /\ \A k \in DOMAIN updates' : updates'[k].pnl \in Int
    <3>1. DOMAIN updates = 1 .. Len(updates) /\ Len(updates) \in Nat
      BY DEF EntryInv
    <3>2. /\ Head(updates) = updates[1] /\ 1 \in DOMAIN updates
          /\ \A k \in DOMAIN updates' : k + 1 \in DOMAIN updates /\ updates'[k] = updates[k + 1]
      BY <2>2, <3>1
    <3> QED BY <3>2 DEF LearningInv
  <2>4. ratio \in Int
    BY LearningAssumption
  <2>5. RewardBounded(computer'.reward)
    <3> DEFINE pnl == Head(updates).pnl
               r == IF entryInfo[Head(updates).symbol] = 0 THEN 2 ELSE ratio
    <3>1. pnl \in Int /\ r \in Int /\ computer'.reward = ComputeReward(pnl, r)
      BY <2>1, <2>3, <2>4
    <3> HIDE DEF pnl, r
    <3> QED BY <3>1, RewardWithin
  <2> QED BY <1>0, <2>2, <2>3, <2>5 DEF LearningInv
<1>5. CASE BuildNextState
  <2>1. computer' = [computer EXCEPT !.phase = "store"] /\ UNCHANGED <<opened, open, unstored, tuples, updates, buffer, policy>>
    BY <1>5 DEF BuildNextState
  <2>2. computer'.reward = computer.reward
    BY <2>1 DEF EntryInv
  <2> QED BY <1>0, <2>1, <2>2 DEF LearningInv
<1>6. CASE UpdateTuple
  <2>1. /\ computer' = [computer EXCEPT !.phase = "policy", !.row = computer.close \in DOMAIN tuples]
        /\ UNCHANGED <<opened, open, unstored, updates, buffer, policy>>
    BY <1>6 DEF UpdateTuple
  <2>2. DOMAIN tuples' = DOMAIN tuples
    BY <1>6 DEF UpdateTuple
  <2>3. computer'.reward = computer.reward
    BY <2>1 DEF EntryInv
  <2> QED BY <1>0, <2>1, <2>2, <2>3 DEF LearningInv
<1>7. CASE UpdatePolicy
  <2>1. UNCHANGED <<opened, open, unstored, tuples, updates, policy>>
    BY <1>7 DEF UpdatePolicy
  <2>2. CASE computer.entry = 0
    <3>1. computer' = Listening /\ buffer' = buffer
      BY <1>7, <2>2 DEF UpdatePolicy
    <3> QED BY <1>0, <2>1, <3>1, ListeningReward DEF LearningInv
  <2>3. CASE computer.entry # 0
    <3>1. computer' = [computer EXCEPT !.phase = "train"]
      BY <1>7, <2>3 DEF UpdatePolicy
    <3>2. computer'.reward = computer.reward
      BY <3>1 DEF EntryInv
    <3>3. Len(buffer') <= MaxBuffer
      <4> DEFINE kept == IF Len(buffer) = MaxBuffer THEN Tail(buffer) ELSE buffer
                 new == [entry |-> computer.entry, reward |-> computer.reward]
      <4>1. buffer' = Append(kept, new)
        BY <1>7, <2>3 DEF UpdatePolicy
      <4>2. DOMAIN kept = 1 .. Len(kept) /\ Len(kept) \in Nat /\ Len(kept) + 1 <= MaxBuffer
        BY LearningAssumption DEF EntryInv, LearningInv
      <4> HIDE DEF kept, new
      <4>3. Len(buffer') = Len(kept) + 1
        BY <4>1, <4>2
      <4> QED BY <4>2, <4>3
    <3> QED BY <1>0, <2>1, <3>2, <3>3 DEF LearningInv
  <2> QED BY <2>2, <2>3
<1>8. CASE MaybeTrain
  <2>0. policy' = policy \/ policy' = TRUE
    BY <1>8 DEF MaybeTrain
  <2>1. policy' \in BOOLEAN
    BY <2>0 DEF LearningInv
  <2>2. computer' = Listening /\ UNCHANGED <<opened, open, unstored, tuples, updates, buffer>>
    BY <1>8 DEF MaybeTrain
  <2> QED BY <1>0, <2>1, <2>2, ListeningReward DEF LearningInv
<1> QED BY <1>1, <1>2, <1>3, <1>4, <1>5, <1>6, <1>7, <1>8 DEF RewardComputer

\* The steps of the prompt's readers and of the evolution.
LEMMA PromptTyped ==
    ASSUME LearningInv, CacheInv, UNCHANGED rewardVars, DirectorGets \/ DirectorFills \/ Evolution
    PROVE  LearningInv'
<1>0. UNCHANGED <<opened, open, unstored, tuples, updates, entryInfo, computer, buffer, policy>>
  BY DEF rewardVars
<1>1. ASSUME active' = active, cache' \in {0, cache} \cup {reading[r] : r \in Readers},
             prompts' \in [Readers -> 0 .. MaxVersions], reading' \in [Readers -> 0 .. MaxVersions],
             evolution' \in {"score", "get", "fill", "ask", "save"} => active < MaxVersions
      PROVE  LearningInv'
  <2>1. cache' \in 0 .. MaxVersions
    <3>1. 0 \in 0 .. MaxVersions /\ cache \in 0 .. MaxVersions
      BY LearningAssumption DEF LearningInv
    <3>2. \A r \in Readers : reading[r] \in 0 .. MaxVersions
      BY DEF LearningInv
    <3> QED BY <1>1, <3>1, <3>2
  <2> QED BY <1>0, <1>1, <2>1 DEF LearningInv
<1>2. ASSUME NEW r \in Readers, GetCached(r) \/ GetActive(r)
      PROVE  prompts' \in [Readers -> 0 .. MaxVersions] /\ reading' \in [Readers -> 0 .. MaxVersions]
  BY <1>2 DEF GetCached, GetActive, LearningInv
<1>3. ASSUME NEW r \in Readers, GetFills(r)
      PROVE  /\ prompts' \in [Readers -> 0 .. MaxVersions] /\ reading' \in [Readers -> 0 .. MaxVersions]
             /\ cache' \in {0, cache} \cup {reading[q] : q \in Readers}
  <2>1. reading[r] \in 0 .. MaxVersions /\ 0 \in 0 .. MaxVersions
    BY LearningAssumption DEF LearningInv
  <2>2. /\ cache' = reading[r] /\ prompts' = [prompts EXCEPT ![r] = reading[r]]
        /\ reading' = [reading EXCEPT ![r] = 0]
    BY <1>3 DEF GetFills
  <2>3. prompts \in [Readers -> 0 .. MaxVersions] /\ reading \in [Readers -> 0 .. MaxVersions]
    BY DEF LearningInv
  <2> QED BY <2>1, <2>2, <2>3
<1>4. "director" \in Readers /\ "evolution" \in Readers
  BY DEF Readers
<1>5. CASE DirectorGets
  <2>1. active' = active /\ cache' = cache /\ evolution' = evolution
    BY <1>5 DEF DirectorGets
  <2> QED BY <1>1, <1>2, <1>4, <1>5, <2>1 DEF DirectorGets, LearningInv
<1>6. CASE DirectorFills
  <2>1. active' = active /\ evolution' = evolution /\ GetFills("director")
    BY <1>6 DEF DirectorFills
  <2>2. evolution' \in {"score", "get", "fill", "ask", "save"} => active < MaxVersions
    BY <2>1 DEF LearningInv
  <2> QED BY <1>1, <1>3, <1>4, <2>1, <2>2
<1>7. CASE Wake \/ ReadTrades \/ AskModel
  <2>1. /\ active' = active /\ cache' = cache /\ prompts' = prompts /\ reading' = reading
        /\ evolution' \in {"score", "get", "fill", "ask", "save"} => active < MaxVersions
    BY <1>7 DEF Wake, ReadTrades, AskModel, Go, LearningInv
  <2> QED BY <1>1, <2>1 DEF LearningInv
<1>8. CASE EvolutionGets
  <2>1. /\ active' = active /\ cache' = cache
        /\ active < MaxVersions
    BY <1>8 DEF EvolutionGets, Go, LearningInv
  <2> QED BY <1>1, <1>2, <1>4, <1>8, <2>1 DEF EvolutionGets
<1>9. CASE EvolutionFills
  <2>1. active' = active /\ active < MaxVersions
    BY <1>9 DEF EvolutionFills, Go, LearningInv
  <2> QED BY <1>1, <1>3, <1>4, <1>9, <2>1 DEF EvolutionFills
<1>10. CASE SaveAgentPrompt
  <2>1. active < MaxVersions
    BY <1>10 DEF SaveAgentPrompt, Go, LearningInv
  <2>2. active' \in 0 .. MaxVersions /\ evolution' \in {"sleep", "invalidate"} /\ UNCHANGED <<cache, prompts, reading>>
    BY <1>10, <2>1, LearningAssumption DEF SaveAgentPrompt, Go, LearningInv
  <2> QED BY <1>0, <2>2 DEF LearningInv
<1>11. CASE Invalidate
  BY <1>1, <1>11 DEF Invalidate, Go, LearningInv
<1> QED BY <1>5, <1>6, <1>7, <1>8, <1>9, <1>10, <1>11 DEF Evolution

LEMMA LearningKept == ASSUME LearningInv, EntryInv, CacheInv, LearningNext PROVE LearningInv'
<1>1. CASE (\E s \in Markets : OpenTrade(s) \/ CloseTrade(s)) \/ InsertTuple \/ RewardComputer
  <2>1. UNCHANGED promptVars
    BY <1>1 DEF OpenTrade, CloseTrade, InsertTuple, RewardComputer, HandleClose, BuildNextState, UpdateTuple,
        UpdatePolicy, MaybeTrain
  <2> QED BY <1>1, <2>1, RewardTyped
<1>2. CASE DirectorGets \/ DirectorFills \/ Evolution
  <2>1. UNCHANGED rewardVars
    BY <1>2 DEF DirectorGets, DirectorFills, Evolution, Wake, ReadTrades, EvolutionGets, EvolutionFills,
        AskModel, SaveAgentPrompt, Invalidate
  <2> QED BY <1>2, <2>1, PromptTyped
<1>3. CASE ProcessRestarts
  <2>1. MaxVersions \in Nat /\ MaxBuffer \in Nat /\ Len(opened) \in Nat
    BY LearningAssumption DEF EntryInv
  <2>2. /\ open' = [s \in Markets |-> 0] /\ unstored' = {} /\ updates' = <<>> /\ computer' = Listening
        /\ buffer' = <<>> /\ policy' = FALSE /\ cache' = 0
        /\ prompts' = [r \in Readers |-> 0] /\ reading' = [r \in Readers |-> 0] /\ evolution' = "sleep"
        /\ UNCHANGED <<opened, tuples, active>>
    BY <1>3 DEF ProcessRestarts
  <2>3. RewardBounded(computer'.reward) /\ Len(buffer') = 0
    BY <2>2, ListeningReward
  <2>4. open' \in [Markets -> 0 .. Len(opened')]
    BY <2>1, <2>2
  <2>5. prompts' \in [Readers -> 0 .. MaxVersions] /\ reading' \in [Readers -> 0 .. MaxVersions]
    BY <2>1, <2>2
  <2>6. 0 \in 0 .. MaxVersions /\ DOMAIN updates' = {} /\ unstored' \subseteq 1 .. Len(opened')
    BY <2>1, <2>2
  <2>7. DOMAIN tuples' \subseteq 1 .. Len(opened') /\ active' \in 0 .. MaxVersions
    BY <2>2 DEF LearningInv
  <2>8. Len(buffer') <= MaxBuffer /\ evolution' \notin {"score", "get", "fill", "ask", "save"}
    BY <2>1, <2>2, <2>3
  <2> QED BY <2>2, <2>3, <2>4, <2>5, <2>6, <2>7, <2>8 DEF LearningInv
<1> QED BY <1>1, <1>2, <1>3 DEF LearningNext

LEMMA LearningStart == LearningInit => LearningInv /\ EntryInv /\ CacheInv
<1> SUFFICES ASSUME LearningInit PROVE LearningInv /\ EntryInv /\ CacheInv
  OBVIOUS
<1>1. EntryInv
  BY DEF LearningInit, EntryInv, EntryUsedOnce, Listening
<1>2. CacheInv
  BY DEF LearningInit, CacheInv, Readers
<1>3. LearningInv
  <2>1. /\ opened = <<>> /\ open = [s \in Markets |-> 0] /\ unstored = {} /\ tuples = <<>> /\ updates = <<>>
        /\ computer = Listening /\ buffer = <<>> /\ policy = FALSE /\ active = 0 /\ cache = 0
        /\ prompts = [r \in Readers |-> 0] /\ reading = [r \in Readers |-> 0] /\ evolution = "sleep"
    BY DEF LearningInit
  <2>2. MaxVersions \in Nat /\ MaxBuffer \in Nat /\ Len(opened) = 0 /\ Len(buffer) = 0
    BY <2>1, LearningAssumption
  <2>3. open \in [Markets -> 0 .. Len(opened)]
    BY <2>1, <2>2
  <2>4. prompts \in [Readers -> 0 .. MaxVersions] /\ reading \in [Readers -> 0 .. MaxVersions]
    BY <2>1, <2>2
  <2>5. /\ 0 \in 0 .. MaxVersions /\ DOMAIN updates = {} /\ DOMAIN tuples = {}
        /\ Len(buffer) <= MaxBuffer /\ evolution \notin {"score", "get", "fill", "ask", "save"}
    BY <2>1, <2>2
  <2> QED BY <2>1, <2>3, <2>4, <2>5, ListeningReward DEF LearningInv
<1> QED BY <1>1, <1>2, <1>3

LEMMA LearningTyped ==
    ASSUME LearningInv, EntryInv, CacheInv
    PROVE  LearningTypeOK
<1>1. \A s \in Markets : {open[s], entryInfo[s]} \subseteq 0 .. Len(opened)
  BY DEF LearningInv, EntryInv
<1>2. \A r \in Readers : prompts[r] \in 0 .. MaxVersions /\ reading[r] \in 0 .. MaxVersions
  BY DEF LearningInv
<1>3. computer.phase \in {"listen", "features", "store", "policy", "train"}
  BY DEF EntryInv
<1>4. evolution \in {"sleep", "score", "get", "fill", "ask", "save", "invalidate"}
  BY DEF CacheInv
<1>5. unstored \cup DOMAIN tuples \subseteq 1 .. Len(opened) /\ Len(buffer) <= MaxBuffer /\ policy \in BOOLEAN
  BY DEF LearningInv
<1>6. -50000 <= computer.reward /\ computer.reward <= 50000
  BY DEF LearningInv, RewardBounded
<1>7. {active, cache} \cup {prompts[r] : r \in Readers} \cup {reading[r] : r \in Readers} \subseteq 0 .. MaxVersions
  BY <1>2 DEF LearningInv
<1> QED BY <1>1, <1>3, <1>4, <1>5, <1>6, <1>7 DEF LearningTypeOK
-----------------------------------------------------------------------------
(* The news and the sentiment.                                             *)

\* Every step is one of the news part or leaves it alone.
LEMMA NewsSteps ==
    ASSUME [ServicesNext]_servicesVars
    PROVE  [NewsNext]_newsVars
BY DEF ServicesNext, servicesVars, FeedStep, ForecastStep, NewsStep, LearningStep, GatewayStep,
       OnlyMarket, OnlyLearning, OnlyGateway

\* symbol_list has every symbol, once.
LEMMA SymbolList ==
    /\ symbolList \in Seq(NewsSymbols) /\ Cardinality(NewsSymbols) \in Nat
    /\ Len(symbolList) = Cardinality(NewsSymbols)
    /\ \A s \in NewsSymbols : s \in ToSet(symbolList)
<1> DEFINE n == Cardinality(NewsSymbols)
<1>1. n \in Nat /\ ExistsBijection(1 .. n, NewsSymbols)
  BY NewsAssumption, FS_CardinalityType
<1>2. PICK f \in Bijection(1 .. n, NewsSymbols) : TRUE
  BY <1>1 DEF ExistsBijection
<1>3. f \in [1 .. n -> NewsSymbols] /\ IsInjective(f)
  BY <1>2 DEF Bijection, Injection
<1>4. symbolList \in [1 .. n -> NewsSymbols] /\ IsInjective(symbolList)
  BY <1>3 DEF symbolList, SetToSeq
<1>5. symbolList \in Injection(1 .. n, NewsSymbols)
  BY <1>4 DEF Injection
<1>6. IsFiniteSet(1 .. n) /\ Cardinality(1 .. n) = n
  BY <1>1, FS_Interval
<1>7. symbolList \in Surjection(1 .. n, NewsSymbols)
  BY <1>5, <1>6, NewsAssumption, FS_Injection
<1>8. \A s \in NewsSymbols : \E i \in 1 .. n : symbolList[i] = s
  BY <1>7 DEF Surjection
<1> QED BY <1>1, <1>4, <1>8 DEF ToSet

Scoring == [relevance : 0 .. One, sentiment : Int]
Rows == [url : Urls, symbol : NewsSymbols, relevance : 0 .. One, sentiment : Int]

\* The rows this cycle may still add.
RowsDue ==
    Cardinality(NewsSymbols) * Len(found)
    + (IF scraper = "item" THEN Cardinality(NewsSymbols) ELSE IF scraper = "rows" THEN Len(todo) ELSE 0)

\* The row of the article at hand for a symbol is in the table.
HasRow(s) ==
    \E k \in DOMAIN sentiments : sentiments[k] = [url |-> article.url, symbol |-> s,
                                                  relevance |-> article.scores[s].relevance,
                                                  sentiment |-> article.scores[s].sentiment]

\* What NewsTypeOK and PublishedAreStored need to be inductive of the scraper: the rows
\* still to come fit under the bound, and while an article is written, the symbols
\* that have no row yet are those the first loop has still to come to.
ScraperInv ==
    /\ scraper \in {"sleep", "next", "item", "rows", "publish"}
    /\ found \in Seq(Urls) /\ todo \in Seq(NewsSymbols) /\ items \subseteq Urls
    /\ sentiments \in Seq(Rows) /\ Len(sentiments) + RowsDue <= MaxRows
    /\ scraper = "sleep" => found = <<>>
    /\ scraper \in {"item", "rows", "publish"} => article.url \in Urls /\ article.scores \in [NewsSymbols -> Scoring]
    /\ scraper \in {"rows", "publish"} =>
           /\ article.url \in items
           /\ \A s \in NewsSymbols : HasRow(s) \/ (scraper = "rows" /\ s \in ToSet(todo))

\* A mean of the scores of some rows, or none.
Means == {m \in [total : Nat, weighted : Int, count : Nat] : m.count > 0 => m.total > 0}

\* And of the agent: the index score is the newest received, of some age.
AgentInv ==
    /\ index \in [score : Int, age : -1 .. IndexTTL] /\ (index.age = -1 => index = NoIndex)
    /\ answer \in [phase : {"idle", "fng", "news", "answer"}, symbol : NewsSymbols \cup {"none"},
                   fng : Int, news : Means, score : Int \X Int]

NewsInv == ScraperInv /\ AgentInv

LEMMA MulSucc == \A n \in Nat, l \in Nat : n * l \in Nat /\ (l > 0 => n * (l - 1) = n * l - n)
OBVIOUS

LEMMA NewsTypes ==
    /\ One \in Nat /\ IndexTTL \in Nat /\ MinRelevance \in Nat /\ MaxArticles \in Nat /\ MaxRows \in Nat
    /\ One > 0 /\ Relevances \subseteq Int /\ Scores \subseteq Int /\ IndexScores \subseteq Int
BY NewsAssumption

LEMMA SearchKeeps == ASSUME ScraperInv, SearchAll PROVE ScraperInv'
<1> DEFINE n == Cardinality(NewsSymbols)
<1>1. PICK k \in 0 .. MaxArticles : found' \in [1 .. k -> Urls]
  BY DEF SearchAll
<1>2. k \in Nat /\ MaxArticles \in Nat /\ n \in Nat /\ MaxRows \in Nat
  BY SymbolList, NewsAssumption
<1>3. found' \in Seq(Urls) /\ Len(found') = k
  BY <1>1, <1>2
<1>4. /\ scraper' = "next" /\ UNCHANGED <<article, todo, items, sentiments>>
      /\ Len(sentiments) <= MaxRows - MaxArticles * n
  BY DEF SearchAll
<1>5. Len(sentiments) \in Nat
  BY DEF ScraperInv
<1>6. n * k <= n * MaxArticles /\ n * MaxArticles = MaxArticles * n /\ n * k \in Nat /\ MaxArticles * n \in Nat
  <2>1. \A a, b \in Nat : a * b = b * a /\ a * b \in Nat
    OBVIOUS
  <2> QED BY <1>1, <1>2, <2>1, MulMono
<1>7. RowsDue' = n * k
  BY <1>2, <1>3, <1>4, <1>6 DEF RowsDue
<1>8. Len(sentiments) + RowsDue' <= MaxRows
  <2> HIDE DEF n
  <2> QED BY <1>2, <1>4, <1>5, <1>6, <1>7
<1> QED BY <1>3, <1>4, <1>8 DEF ScraperInv

LEMMA ScoreKeeps == ASSUME ScraperInv, Score PROVE ScraperInv'
<1> DEFINE n == Cardinality(NewsSymbols)
<1>1. /\ scraper = "next" /\ found # <<>> /\ found' = Tail(found) /\ scraper' = "item"
      /\ UNCHANGED <<todo, items, sentiments>>
  BY DEF Score
<1>2. /\ found \in Seq(Urls) /\ found' \in Seq(Urls) /\ Len(found) \in Nat /\ Len(found) > 0
      /\ Len(found') = Len(found) - 1 /\ Head(found) \in Urls
  BY <1>1, HeadTailProperties, EmptySeq DEF ScraperInv
<1>3. article'.url \in Urls /\ article'.scores \in [NewsSymbols -> Scoring]
  <2>1. CASE \E relevance \in [NewsSymbols -> Relevances], sentiment \in [NewsSymbols -> Scores] :
               article' = [url |-> Head(found),
                           scores |-> [s \in NewsSymbols |-> [relevance |-> Clamp(0, relevance[s]),
                                                              sentiment |-> Clamp(-One, sentiment[s])]]]
    <3>1. PICK relevance \in [NewsSymbols -> Relevances], sentiment \in [NewsSymbols -> Scores] :
               article' = [url |-> Head(found),
                           scores |-> [s \in NewsSymbols |-> [relevance |-> Clamp(0, relevance[s]),
                                                              sentiment |-> Clamp(-One, sentiment[s])]]]
      BY <2>1
    <3>2. ASSUME NEW s \in NewsSymbols
          PROVE  [relevance |-> Clamp(0, relevance[s]), sentiment |-> Clamp(-One, sentiment[s])] \in Scoring
      <4> DEFINE lo == -One
      <4>1. relevance[s] \in Relevances /\ sentiment[s] \in Scores
        OBVIOUS
      <4>2. relevance[s] \in Int /\ sentiment[s] \in Int
        BY <4>1, NewsTypes
      <4>3. lo \in Int /\ One \in Int /\ 0 <= One
        BY NewsTypes
      <4>4. Clamp(0, relevance[s]) \in 0 .. One /\ Clamp(lo, sentiment[s]) \in Int
        BY <4>2, <4>3 DEF Clamp
      <4> QED BY <4>4 DEF Scoring
    <3> QED BY <1>2, <3>1, <3>2
  <2>2. CASE article' = [url |-> Head(found), scores |-> [s \in NewsSymbols |-> Neutral]]
    <3>1. Neutral \in Scoring
      BY NewsAssumption DEF Neutral, Scoring
    <3> QED BY <1>2, <2>2, <3>1
  <2> QED BY <2>1, <2>2 DEF Score
<1>4. RowsDue' = RowsDue
  <2>1. n \in Nat /\ n * (Len(found) - 1) = n * Len(found) - n /\ n * Len(found) \in Nat
    BY <1>2, SymbolList, MulSucc
  <2> QED BY <1>1, <1>2, <2>1 DEF RowsDue
<1> QED BY <1>1, <1>2, <1>3, <1>4 DEF ScraperInv

\* A row is written for the next symbol.
LEMMA RowKeeps == ASSUME ScraperInv, InsertNewsSentiment PROVE ScraperInv'
<1> DEFINE s == Head(todo)
           row == [url |-> article.url, symbol |-> s, relevance |-> article.scores[s].relevance,
                   sentiment |-> article.scores[s].sentiment]
<1>1. /\ scraper = "rows" /\ todo # <<>> /\ todo' = Tail(todo) /\ sentiments' = Append(sentiments, row)
      /\ UNCHANGED <<scraper, found, article, items>>
  BY DEF InsertNewsSentiment
<1>2. /\ todo \in Seq(NewsSymbols) /\ sentiments \in Seq(Rows)
      /\ article.url \in Urls /\ article.scores \in [NewsSymbols -> Scoring] /\ article.url \in items
  BY <1>1 DEF ScraperInv
<1>3. /\ s \in NewsSymbols /\ todo' \in Seq(NewsSymbols) /\ Len(todo) \in Nat /\ Len(todo') = Len(todo) - 1
      /\ \A t \in ToSet(todo) : t = s \/ t \in ToSet(todo')
  <2>1. /\ s \in NewsSymbols /\ todo' \in Seq(NewsSymbols) /\ Len(todo') = Len(todo) - 1
        /\ \A i \in 1 .. Len(todo') : todo'[i] = todo[i + 1]
    BY <1>1, <1>2, HeadTailProperties
  <2>2. ASSUME NEW i \in 1 .. Len(todo) PROVE todo[i] = s \/ todo[i] \in ToSet(todo')
    <3>1. CASE i = 1
      BY <1>1, <1>2, <3>1
    <3>2. CASE i # 1
      <4>1. i - 1 \in 1 .. Len(todo') /\ todo'[i - 1] = todo[i]
        BY <2>1, <3>2
      <4> QED BY <2>1, <4>1 DEF ToSet
    <3> QED BY <3>1, <3>2
  <2> QED BY <1>2, <2>1, <2>2 DEF ToSet
<1>4. row \in Rows
  BY <1>2, <1>3 DEF Scoring, Rows
<1>5. /\ sentiments' \in Seq(Rows) /\ Len(sentiments) \in Nat /\ Len(sentiments') = Len(sentiments) + 1
      /\ sentiments'[Len(sentiments) + 1] = row /\ DOMAIN sentiments' = 1 .. Len(sentiments) + 1
      /\ \A k \in DOMAIN sentiments : k \in DOMAIN sentiments' /\ sentiments'[k] = sentiments[k]
  <2> HIDE DEF row, Rows
  <2> QED BY <1>1, <1>2, <1>4
<1>6. ASSUME NEW t \in NewsSymbols PROVE HasRow(t)' \/ t \in ToSet(todo')
  <2>1. HasRow(t) \/ t \in ToSet(todo)
    BY <1>1 DEF ScraperInv
  <2>2. HasRow(t) => HasRow(t)'
    BY <1>1, <1>5 DEF HasRow
  <2>3. t = s => HasRow(t)'
    <3>1. Len(sentiments) + 1 \in DOMAIN sentiments'
      BY <1>5
    <3> QED BY <1>1, <1>5, <3>1 DEF HasRow
  <2> QED BY <1>3, <2>1, <2>2, <2>3
<1>7. Len(sentiments') + RowsDue' = Len(sentiments) + RowsDue
  <2>1. Cardinality(NewsSymbols) * Len(found) \in Int
    BY SymbolList, MulSucc DEF ScraperInv
  <2> QED BY <1>1, <1>3, <1>5, <2>1 DEF RowsDue
<1> HIDE DEF row, s
<1> QED BY <1>1, <1>2, <1>3, <1>5, <1>6, <1>7 DEF ScraperInv

LEMMA DueShape ==
    ASSUME ScraperInv
    PROVE  /\ Cardinality(NewsSymbols) * Len(found) \in Nat /\ Len(todo) \in Nat /\ RowsDue \in Nat
           /\ Cardinality(NewsSymbols) * Len(found) <= RowsDue
           /\ Len(sentiments) \in Nat /\ MaxRows \in Nat
<1>1. Cardinality(NewsSymbols) * Len(found) \in Nat /\ Cardinality(NewsSymbols) \in Nat
  BY SymbolList, MulSucc DEF ScraperInv
<1> QED BY <1>1, NewsTypes DEF ScraperInv, RowsDue

LEMMA ScraperKept == ASSUME ScraperInv, NewsNext PROVE ScraperInv'
<1>1. CASE SearchAll
  BY <1>1, SearchKeeps
<1>2. CASE Score
  BY <1>2, ScoreKeeps
<1>3. CASE InsertNewsSentiment
  BY <1>3, RowKeeps
<1>4. CASE Sleep
  <2>1. RowsDue' = RowsDue
    BY <1>4 DEF Sleep, RowsDue
  <2> QED BY <1>4, <2>1 DEF Sleep, ScraperInv
<1>5. CASE InsertNewsItem
  <2>1. RowsDue' = RowsDue
    BY <1>5, SymbolList DEF InsertNewsItem, RowsDue
  <2> QED BY <1>5, <2>1, SymbolList DEF InsertNewsItem, ScraperInv
<1>6. CASE StartPublishing
  <2>1. RowsDue' = RowsDue
    BY <1>6, DueShape DEF StartPublishing, RowsDue
  <2>2. \A s \in NewsSymbols : HasRow(s)
    BY <1>6 DEF StartPublishing, ScraperInv, ToSet
  <2>3. \A s \in NewsSymbols : HasRow(s)'
    BY <1>6, <2>2 DEF StartPublishing, HasRow
  <2> QED BY <1>6, <2>1, <2>3, SymbolList DEF StartPublishing, ScraperInv
<1>7. CASE PublishNews
  <2>1. /\ scraper = "publish" /\ scraper' = "publish" /\ todo' \in Seq(NewsSymbols)
        /\ UNCHANGED <<found, article, items, sentiments>>
    BY <1>7, HeadTailProperties DEF PublishNews, ScraperInv
  <2>2. RowsDue' = RowsDue
    BY <2>1 DEF RowsDue
  <2>3. \A s \in NewsSymbols : HasRow(s) => HasRow(s)'
    BY <2>1 DEF HasRow
  <2> QED BY <2>1, <2>2, <2>3 DEF ScraperInv
<1>8. CASE WriteEnds \/ WriteFails
  <2>1. scraper' = "next" /\ todo' = <<>> /\ UNCHANGED <<found, items, sentiments>>
    BY <1>8 DEF WriteEnds, WriteFails, EndArticle
  <2>2. RowsDue' <= RowsDue
    BY <2>1, DueShape DEF RowsDue
  <2>3. RowsDue' \in Nat
    BY <2>1, DueShape DEF RowsDue
  <2> QED BY <2>1, <2>2, <2>3, DueShape DEF ScraperInv
<1>9. CASE RowExpires
  <2>1. /\ scraper = "sleep" /\ scraper' = "sleep" /\ sentiments # <<>> /\ sentiments' = Tail(sentiments)
        /\ UNCHANGED <<found, article, todo, items>>
    BY <1>9 DEF RowExpires
  <2>2. sentiments' \in Seq(Rows) /\ Len(sentiments') = Len(sentiments) - 1
    BY <2>1, HeadTailProperties DEF ScraperInv
  <2>3. RowsDue' = RowsDue
    BY <2>1 DEF RowsDue
  <2> QED BY <2>1, <2>2, <2>3, DueShape DEF ScraperInv
<1>10. CASE IndexAges \/ SentimentAgent
  <2>1. UNCHANGED scraperIdle
    BY <1>10 DEF IndexAges, SentimentAgent, AskSentiment, FetchFng, FetchNewsScore, PublishSentiment
  <2>2. RowsDue' = RowsDue /\ \A s \in NewsSymbols : HasRow(s) => HasRow(s)'
    BY <2>1 DEF scraperIdle, RowsDue, HasRow
  <2> QED BY <2>1, <2>2 DEF scraperIdle, ScraperInv
<1> QED BY <1>1, <1>2, <1>3, <1>4, <1>5, <1>6, <1>7, <1>8, <1>9, <1>10 DEF NewsNext, Scraper

\* The mean over the rows of a symbol is one of its own rows' scores, weighted with
\* their relevance; the rows of relevance 0 do not count.
LEMMA NewsMean ==
    ASSUME sentiments \in Seq(Rows), NEW s
    PROVE  /\ NewsScore(s) \in Means
           /\ NewsScore(s).count > 0 =>
                LET own == {r \in ToSet(sentiments) : r.symbol = s /\ r.relevance > 0}
                IN  /\ \E r \in own : r.sentiment * NewsScore(s).total <= NewsScore(s).weighted
                    /\ \E r \in own : r.sentiment * NewsScore(s).total >= NewsScore(s).weighted
<1> DEFINE of == {k \in DOMAIN sentiments : sentiments[k].symbol = s}
           w == [k \in of |-> sentiments[k].relevance]
           v == [k \in of |-> sentiments[k].sentiment]
           p == [k \in of |-> sentiments[k].sentiment * sentiments[k].relevance]
           own == {r \in ToSet(sentiments) : r.symbol = s /\ r.relevance > 0}
<1>1. \A k \in of : sentiments[k] \in Rows /\ sentiments[k].symbol = s
  OBVIOUS
<1>2. \A k \in of : sentiments[k].relevance \in Nat /\ sentiments[k].sentiment \in Int
  BY <1>1, NewsTypes DEF Rows
<1>3. w \in [of -> Nat] /\ w \in [of -> Int] /\ v \in [of -> Int] /\ p \in [of -> Int]
  BY <1>2
<1>4. IsFiniteSet(of)
  <2>1. of \subseteq 1 .. Len(sentiments) /\ Len(sentiments) \in Nat
    OBVIOUS
  <2> QED BY <2>1, FS_Interval, FS_Subset
<1>5. \A k \in of : p[k] = v[k] * w[k]
  OBVIOUS
<1>6. NewsScore(s) = IF Sum(w, of) = 0 THEN NoNews
                     ELSE [total |-> Sum(w, of), weighted |-> Sum(p, of), count |-> Cardinality(of)]
  BY DEF NewsScore
<1>7. \A k \in of : w[k] > 0 => sentiments[k] \in own /\ sentiments[k].sentiment = v[k]
  BY <1>1 DEF ToSet
<1> HIDE DEF of, w, v, p, own
<1>8. Sum(w, of) \in Nat /\ Sum(p, of) \in Int /\ Cardinality(of) \in Nat
  BY <1>3, <1>4, SumOfNaturals, SumType, FS_CardinalityType
<1>9. NewsScore(s) \in Means
  BY <1>6, <1>8 DEF Means, NoNews
<1>10. ASSUME NewsScore(s).count > 0
       PROVE  /\ \E r \in own : r.sentiment * NewsScore(s).total <= NewsScore(s).weighted
              /\ \E r \in own : r.sentiment * NewsScore(s).total >= NewsScore(s).weighted
  <2>1. Sum(w, of) # 0 /\ NewsScore(s).total = Sum(w, of) /\ NewsScore(s).weighted = Sum(p, of)
    BY <1>6, <1>10 DEF NoNews
  <2>2. /\ \E k \in of : w[k] > 0 /\ v[k] * Sum(w, of) <= Sum(p, of)
        /\ \E k \in of : w[k] > 0 /\ v[k] * Sum(w, of) >= Sum(p, of)
    BY <1>3, <1>4, <1>5, <2>1, MeanWithin
  <2> QED BY <1>7, <2>1, <2>2
<1> QED BY <1>9, <1>10 DEF own

LEMMA CombinedType ==
    ASSUME NEW fng \in Int, NEW news \in Means PROVE Combined(fng, news) \in Int \X Int
<1>1. fng * news.total + news.weighted \in Int /\ 2 * news.total \in Int
  BY DEF Means
<1> QED BY <1>1 DEF Combined

LEMMA NoNewsIsMean == NoNews \in Means
BY DEF Means, NoNews

LEMMA AgentKept == ASSUME AgentInv, ScraperInv, NewsNext PROVE AgentInv'
<1> DEFINE Answers == [phase : {"idle", "fng", "news", "answer"}, symbol : NewsSymbols \cup {"none"},
                       fng : Int, news : Means, score : Int \X Int]
<1>0. /\ index \in [score : Int, age : -1 .. IndexTTL] /\ (index.age = -1 => index = NoIndex)
      /\ answer \in Answers
  BY DEF AgentInv
<1>1. Waiting \in Answers /\ Waiting.news \in Means
  BY NoNewsIsMean DEF Waiting
<1>2. CASE Scraper \/ RowExpires
  <2>1. UNCHANGED agentIdle
    BY <1>2 DEF Scraper, RowExpires, SearchAll, Score, Sleep, InsertNewsItem, InsertNewsSentiment,
                StartPublishing, PublishNews, WriteEnds, WriteFails, EndArticle
  <2> QED BY <1>0, <2>1 DEF agentIdle, AgentInv
<1>3. CASE IndexAges
  <2>1. index' = [index EXCEPT !.age = @ + 1] /\ index # NoIndex /\ index.age < IndexTTL /\ answer' = answer
    BY <1>3 DEF IndexAges
  <2>2. index.age # -1
    BY <1>0, <2>1
  <2>3. index' \in [score : Int, age : -1 .. IndexTTL] /\ index'.age # -1
    BY <1>0, <2>1, <2>2, NewsTypes
  <2> QED BY <1>0, <2>1, <2>3 DEF AgentInv
<1>4. CASE AskSentiment
  <2>1. PICK s \in NewsSymbols : answer' = [Waiting EXCEPT !.phase = "fng", !.symbol = s]
    BY <1>4 DEF AskSentiment
  <2>2. answer' \in Answers
    BY <1>1, <2>1
  <2> QED BY <1>0, <1>4, <2>2 DEF AskSentiment, AgentInv
<1>5. CASE FetchFng
  <2>1. /\ index' = index \/ \E v \in IndexScores : index' = [score |-> v, age |-> 0]
        /\ answer' = [answer EXCEPT !.phase = "news", !.fng = index'.score]
    <3>1. CASE UNCHANGED index /\ answer' = [answer EXCEPT !.phase = "news", !.fng = index.score]
      BY <3>1
    <3>2. CASE \E v \in IndexScores : /\ index' = [score |-> v, age |-> 0]
                                       /\ answer' = [answer EXCEPT !.phase = "news", !.fng = v]
      <4>1. PICK v \in IndexScores : /\ index' = [score |-> v, age |-> 0]
                                     /\ answer' = [answer EXCEPT !.phase = "news", !.fng = v]
        BY <3>2
      <4>2. index'.score = v
        BY <4>1
      <4> QED BY <4>1, <4>2
    <3> QED BY <1>5, <3>1, <3>2 DEF FetchFng
  <2>2. index' \in [score : Int, age : -1 .. IndexTTL] /\ (index'.age = -1 => index' = NoIndex)
    <3>1. ASSUME NEW v \in IndexScores
          PROVE  [score |-> v, age |-> 0] \in [score : Int, age : -1 .. IndexTTL]
      BY NewsTypes
    <3> QED BY <1>0, <2>1, <3>1
  <2>3. index'.score \in Int
    BY <2>2
  <2>4. answer' \in Answers
    BY <1>0, <2>1, <2>3
  <2> QED BY <2>2, <2>4 DEF AgentInv
<1>6. CASE FetchNewsScore
  <2>1. PICK news \in {NewsScore(answer.symbol), NoNews} :
           answer' = [answer EXCEPT !.phase = "answer", !.news = news, !.score = Combined(answer.fng, news)]
    BY <1>6 DEF FetchNewsScore
  <2>2. news \in Means
    BY NoNewsIsMean, NewsMean DEF ScraperInv
  <2>3. answer.fng \in Int
    BY <1>0
  <2>4. Combined(answer.fng, news) \in Int \X Int
    BY <2>2, <2>3, CombinedType
  <2>5. answer' \in Answers
    BY <1>0, <2>1, <2>2, <2>4
  <2> QED BY <1>0, <1>6, <2>5 DEF FetchNewsScore, AgentInv
<1>7. CASE PublishSentiment
  BY <1>0, <1>1, <1>7 DEF PublishSentiment, AgentInv
<1> QED BY <1>2, <1>3, <1>4, <1>5, <1>6, <1>7 DEF NewsNext, SentimentAgent

LEMMA NewsStart == NewsInit => NewsInv
<1> SUFFICES ASSUME NewsInit PROVE NewsInv
  OBVIOUS
<1>1. RowsDue = 0
  BY SymbolList DEF NewsInit, RowsDue
<1>2. ScraperInv
  BY <1>1, NewsTypes DEF NewsInit, ScraperInv
<1>3. AgentInv
  BY NewsTypes, NoNewsIsMean DEF NewsInit, AgentInv, NoIndex, Waiting
<1> QED BY <1>2, <1>3 DEF NewsInv

LEMMA NewsTyped == ASSUME NewsInv PROVE NewsTypeOK
<1>1. ToSet(found) \subseteq Urls
  BY DEF NewsInv, ScraperInv, ToSet
<1>2. Len(sentiments) <= MaxRows
  BY DueShape DEF NewsInv, ScraperInv
<1>3. index.age \in -1 .. IndexTTL /\ answer.phase \in {"idle", "fng", "news", "answer"} /\ answer.news \in Means
  BY DEF NewsInv, AgentInv
<1>4. answer.news.count > 0 => answer.news.total > 0
  BY <1>3 DEF Means
<1> QED BY <1>1, <1>2, <1>3, <1>4 DEF NewsTypeOK, NewsInv, ScraperInv

LEMMA NewsKept == ASSUME NewsInv, [ServicesNext]_servicesVars PROVE NewsInv'
<1>1. CASE NewsNext
  BY <1>1, ScraperKept, AgentKept DEF NewsInv
<1>2. CASE UNCHANGED newsVars
  BY <1>2 DEF newsVars, NewsInv, ScraperInv, AgentInv, RowsDue, HasRow
<1> QED BY <1>1, <1>2, NewsSteps

\* Every value of every part's variables stays in its type: the feed's minutes, backoff
\* and funding times, the scraper's rows under their bound, a reward within the sums of
\* its clamped parts (reward.py), a version of the prompt within those saved, and the
\* clients of the hub exactly the connections that are between Register and Unregister.
THEOREM ServicesTypeOKHolds ==
    ASSUME BackoffFits
    PROVE  ServicesSpec => []ServicesTypeOK
<1> DEFINE Inv == /\ CandleInv /\ FeedInv /\ AnswerInv /\ NewsInv
                  /\ LearningInv /\ EntryInv /\ CacheInv /\ GatewayInv
<1>1. ServicesInit => Inv
  <2> SUFFICES ASSUME ServicesInit PROVE Inv
    OBVIOUS
  <2>1. MarketInit /\ NewsInit /\ LearningInit /\ GatewayInit
    BY DEF ServicesInit
  <2>2. CandleInv /\ FeedInv
    BY <2>1, CandleInit, FeedStart
  <2>3. AnswerInv
    BY <2>1 DEF MarketInit, AnswerInv, Asked
  <2>4. NewsInv /\ LearningInv /\ EntryInv /\ CacheInv /\ GatewayInv
    BY <2>1, NewsStart, LearningStart, GatewayStart
  <2> QED BY <2>2, <2>3, <2>4
<1>2. Inv /\ [ServicesNext]_servicesVars => Inv'
  <2> SUFFICES ASSUME Inv, [ServicesNext]_servicesVars PROVE Inv'
    OBVIOUS
  <2>1. CandleInv' /\ NewsInv'
    BY CandleKept, NewsKept
  <2>2. FeedInv' /\ AnswerInv'
    <3>1. CASE MarketNext
      BY <3>1, FeedKept, AnswerStep
    <3>2. CASE UNCHANGED marketVars
      BY <3>2 DEF marketVars, exchangeVars, FeedInv, FundingTimes, NextFunding, AnswerInv
    <3> QED BY <3>1, <3>2, MarketSteps
  <2>3. LearningInv' /\ EntryInv' /\ CacheInv'
    <3>1. CASE LearningNext
      BY <3>1, LearningKept, EntryStep, CacheStep
    <3>2. CASE UNCHANGED learningVars
      BY <3>2 DEF learningVars, rewardVars, promptVars, LearningInv, EntryInv, EntryUsedOnce, CacheInv
    <3> QED BY <3>1, <3>2, LearningSteps
  <2>4. GatewayInv'
    <3>1. CASE GatewayNext
      BY <3>1, GatewayKept
    <3>2. CASE UNCHANGED gatewayVars
      BY <3>2 DEF gatewayVars, pageVars, hubVars, GatewayInv, GatewayTypeOK, Ids
    <3> QED BY <3>1, <3>2, GatewaySteps
  <2> QED BY <2>1, <2>2, <2>3, <2>4
<1>3. Inv => ServicesTypeOK
  <2> SUFFICES ASSUME Inv PROVE ServicesTypeOK
    OBVIOUS
  <2>1. MarketTypeOK /\ NewsTypeOK /\ LearningTypeOK
    BY MarketTyped, NewsTyped, LearningTyped
  <2> QED BY <2>1 DEF GatewayInv, ServicesTypeOK
<1> QED BY <1>1, <1>2, <1>3, PTL DEF ServicesSpec

\* The scores of an article are sent only after its row and a row of every symbol are
\* in the tables (NewsWriter.write), whatever statement or publish raises.
THEOREM PublishedAreStoredHolds == ServicesSpec => PublishedAreStored
<1>1. ServicesInit => NewsInv
  BY NewsStart DEF ServicesInit
<1>2. NewsInv /\ [ServicesNext]_servicesVars => NewsInv'
  BY NewsKept
<1>3. NewsInv /\ [ServicesNext]_servicesVars => [SentIsStored]_newsVars
  <2> SUFFICES ASSUME NewsInv, NewsNext, published' # published, published' # Nothing
               PROVE  SentIsStored
    BY NewsSteps DEF SentIsStored, newsVars
  <2>1. PublishNews
    BY DEF NewsNext, Scraper, SentimentAgent, SearchAll, Score, Sleep, InsertNewsItem, InsertNewsSentiment,
           StartPublishing, WriteEnds, WriteFails, EndArticle, RowExpires, IndexAges, AskSentiment, FetchFng,
           FetchNewsScore, PublishSentiment, scraperIdle
  <2> DEFINE s == Head(todo)
             of(t) == {k \in DOMAIN sentiments : sentiments[k].url = published'.url /\ sentiments[k].symbol = t}
  <2>2. /\ scraper = "publish" /\ s \in NewsSymbols /\ Relevant(s)
        /\ published' = [url |-> article.url, symbol |-> s, score |-> article.scores[s].sentiment]
    BY <2>1, HeadTailProperties DEF PublishNews, NewsInv, ScraperInv
  <2>3. article.url \in items /\ \A t \in NewsSymbols : HasRow(t)
    BY <2>2 DEF NewsInv, ScraperInv
  <2>4. \A t \in NewsSymbols : of(t) # {}
    BY <2>2, <2>3 DEF HasRow
  <2>5. \E k \in of(s) : sentiments[k].sentiment = published'.score /\ sentiments[k].relevance >= MinRelevance
    <3>1. HasRow(s)
      BY <2>2, <2>3
    <3> QED BY <2>2, <3>1 DEF HasRow, Relevant
  <2> QED BY <2>2, <2>3, <2>4, <2>5 DEF SentIsStored
<1> QED BY <1>1, <1>2, <1>3, PTL DEF ServicesSpec, PublishedAreStored

LEMMA TwiceTimes == \A a \in Int, t \in Nat : a * (2 * t) = (a + a) * t
OBVIOUS

LEMMA TimesMono == \A a, b \in Int, t \in Nat : a <= b => a * t <= b * t
OBVIOUS

\* Half of each of two terms lies between them.
LEMMA HalfBetween ==
    ASSUME NEW f \in Int, NEW w \in Int, NEW t \in Nat
    PROVE  \/ f * (2 * t) <= (f + w) * t /\ (f + w) * t <= w * (2 * t)
           \/ w * (2 * t) <= (f + w) * t /\ (f + w) * t <= f * (2 * t)
<1>1. f * (2 * t) = (f + f) * t /\ w * (2 * t) = (w + w) * t
  BY TwiceTimes
<1>2. CASE f <= w
  <2>1. f + f \in Int /\ w + w \in Int /\ f + w \in Int /\ f + f <= f + w /\ f + w <= w + w
    BY <1>2
  <2> QED BY <1>1, <2>1, TimesMono
<1>3. CASE w <= f
  <2>1. f + f \in Int /\ w + w \in Int /\ f + w \in Int /\ w + w <= f + w /\ f + w <= f + f
    BY <1>3
  <2> QED BY <1>1, <2>1, TimesMono
<1> QED BY <1>2, <1>3

\* A sentiment answer rests on the newest index score there ever was, on a mean that
\* lies within the scores of the symbol's relevant rows, and on nothing outside of the
\* two (SentimentAgent._fetch_fng, _fetch_news_score, _combine).
THEOREM SentimentIsBackedHolds == ServicesSpec => SentimentIsBacked
<1>1. ServicesInit => NewsInv
  BY NewsStart DEF ServicesInit
<1>2. NewsInv /\ [ServicesNext]_servicesVars => NewsInv'
  BY NewsKept
<1>3. NewsInv /\ [ServicesNext]_servicesVars => [AnswerIsBacked]_newsVars
  <2> SUFFICES ASSUME NewsInv, NewsNext PROVE AnswerIsBacked
    BY NewsSteps
  <2>0. answer.phase \in {"idle", "fng", "news", "answer"} /\ answer.fng \in Int
    BY DEF NewsInv, AgentInv
  <2>1. CASE answer' = answer
    BY <2>1 DEF AnswerIsBacked
  <2>2. CASE AskSentiment \/ PublishSentiment
    BY <2>2 DEF AskSentiment, PublishSentiment, Waiting, AnswerIsBacked
  <2>3. CASE FetchFng
    <3>1. answer.phase = "fng" /\ (index.age = -1 => index = NoIndex)
      BY <2>3 DEF FetchFng, NewsInv, AgentInv
    <3>2. NoIndex.age = -1 /\ NoIndex.score = 0
      BY DEF NoIndex
    <3>3. answer \in [phase : {"idle", "fng", "news", "answer"}, symbol : NewsSymbols \cup {"none"},
                     fng : Int, news : Means, score : Int \X Int]
      BY DEF NewsInv, AgentInv
    <3>4. ASSUME UNCHANGED index, answer' = [answer EXCEPT !.phase = "news", !.fng = index.score]
          PROVE  IndexIsNewest
      <4>1. answer'.fng = index.score
        BY <3>3, <3>4
      <4> QED BY <3>2, <3>4, <4>1 DEF IndexIsNewest
    <3>5. ASSUME NEW v \in IndexScores, index' = [score |-> v, age |-> 0],
                 answer' = [answer EXCEPT !.phase = "news", !.fng = v]
          PROVE  IndexIsNewest
      <4>1. index'.score = v /\ index'.age = 0 /\ answer'.fng = v
        BY <3>3, <3>5
      <4> QED BY <3>2, <4>1 DEF IndexIsNewest
    <3>6. IndexIsNewest
      BY <2>3, <3>4, <3>5 DEF FetchFng
    <3> QED BY <3>1, <3>6 DEF AnswerIsBacked
  <2>4. CASE FetchNewsScore
    <3>1. PICK news \in {NewsScore(answer.symbol), NoNews} :
             answer' = [answer EXCEPT !.phase = "answer", !.news = news, !.score = Combined(answer.fng, news)]
      BY <2>4 DEF FetchNewsScore
    <3>2. answer'.news = news /\ answer'.score = Combined(answer.fng, news)
      BY <3>1 DEF NewsInv, AgentInv
    <3>3. /\ news \in Means
          /\ news.count > 0 =>
                LET own == {r \in ToSet(sentiments) : r.symbol = answer.symbol /\ r.relevance > 0}
                IN  /\ \E r \in own : r.sentiment * news.total <= news.weighted
                    /\ \E r \in own : r.sentiment * news.total >= news.weighted
      <4>1. sentiments \in Seq(Rows)
        BY DEF NewsInv, ScraperInv
      <4>2. CASE news = NoNews
        BY <4>2, NoNewsIsMean DEF NoNews
      <4>3. CASE news = NewsScore(answer.symbol)
        BY <4>1, <4>3, NewsMean
      <4> QED BY <3>1, <4>2, <4>3
    <3>4. CASE news.count = 0
      BY <2>4, <3>2, <3>4 DEF FetchNewsScore, AnswerIsBacked, MeanIsOwn, Combined
    <3>5. CASE news.count # 0
      <4> DEFINE fng == answer.fng * news.total
                 score == answer'.score
      <4>1. news.count > 0 /\ news.total \in Nat /\ news.weighted \in Int /\ fng \in Int
        BY <2>0, <3>3, <3>5 DEF Means
      <4>2. score = <<fng + news.weighted, 2 * news.total>>
        BY <3>2, <4>1 DEF Combined
      <4>3. score[1] = fng + news.weighted /\ score[2] = 2 * news.total
        BY <4>2
      <4> HIDE DEF fng, score
      <4>4. \/ fng * score[2] <= score[1] * news.total /\ score[1] * news.total <= news.weighted * score[2]
            \/ news.weighted * score[2] <= score[1] * news.total /\ score[1] * news.total <= fng * score[2]
        BY <4>1, <4>3, HalfBetween
      <4>5. MeanIsOwn
        BY <3>2, <3>3, <4>1, <4>4 DEF fng, score, MeanIsOwn
      <4> QED BY <2>4, <4>5 DEF FetchNewsScore, AnswerIsBacked
    <3> QED BY <3>3, <3>4, <3>5 DEF Means
  <2>5. CASE Scraper \/ RowExpires \/ IndexAges
    BY <2>1, <2>5 DEF Scraper, SearchAll, Score, Sleep, InsertNewsItem, InsertNewsSentiment, StartPublishing,
       PublishNews, WriteEnds, WriteFails, EndArticle, RowExpires, IndexAges, agentIdle
  <2> QED BY <2>2, <2>3, <2>4, <2>5 DEF NewsNext, SentimentAgent
<1> QED BY <1>1, <1>2, <1>3, PTL DEF ServicesSpec, SentimentIsBacked
=============================================================================
