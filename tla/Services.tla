------------------------------ MODULE Services ------------------------------
(***************************************************************************)
(* The tasks around the trading core, each of which runs for as long as    *)
(* its process: market data, news, learning, and the gateway.  They meet   *)
(* only in what they read: the forecasts read the candles the feed stores. *)
(* A behaviour therefore exercises one part and leaves the others at rest: *)
(* what the parts do side by side is what each does alone.                 *)
(***************************************************************************)
EXTENDS MarketData, News, Learning, Gateway

CONSTANT Parts      \* the parts exercised: "feed", "forecast", "news", "learning", "gateway"

ASSUME PartsAssumption == Parts \subseteq {"feed", "forecast", "news", "learning", "gateway"}

VARIABLE part

servicesVars == <<part, marketVars, newsVars, learningVars, gatewayVars>>

ServicesInit ==
    /\ part \in Parts
    /\ MarketInit /\ NewsInit /\ LearningInit /\ GatewayInit

OnlyMarket   == UNCHANGED <<part, newsVars, learningVars, gatewayVars>>
OnlyNews     == UNCHANGED <<part, marketVars, learningVars, gatewayVars>>
OnlyLearning == UNCHANGED <<part, marketVars, newsVars, gatewayVars>>
OnlyGateway  == UNCHANGED <<part, marketVars, newsVars, learningVars>>

\* The feed and the storage, with every kind of frame.
FeedStep ==
    /\ part = "feed"
    /\ Trade \/ CloseCandle \/ OtherFrame \/ Feed \/ ConsumeMarket
    /\ OnlyMarket

\* The forecasts, while candles are stored under them.
ForecastStep ==
    /\ part = "forecast"
    /\ Trade \/ CloseCandle \/ Feed \/ ConsumeMarket \/ MLAgent
    /\ OnlyMarket

NewsStep == part = "news" /\ NewsNext /\ OnlyNews

LearningStep == part = "learning" /\ LearningNext /\ OnlyLearning

GatewayStep == part = "gateway" /\ GatewayNext /\ OnlyGateway

ServicesNext == FeedStep \/ ForecastStep \/ NewsStep \/ LearningStep \/ GatewayStep

\* Each task goes on by itself: its sleeps end, its statements return or raise,
\* and its requests have timeouts.  Nothing is asked of the exchange, of a
\* connection that is to last, of requests that are to come, of the interval, or
\* of the peers of the gateway.  Go runs every goroutine that can go on.
Fairness ==
    /\ WF_servicesVars(Retry /\ OnlyMarket)
    /\ WF_servicesVars(part = "forecast" /\ ml.phase # "idle" /\ MLAgent /\ OnlyMarket)
    /\ WF_servicesVars(part = "news" /\ scraper # "sleep" /\ Scraper /\ OnlyNews)
    /\ WF_servicesVars(part = "news" /\ answer.phase # "idle" /\ SentimentAgent /\ OnlyNews)
    /\ WF_servicesVars(part = "learning" /\ computer.phase # "listen" /\ RewardComputer /\ OnlyLearning)
    /\ WF_servicesVars(part = "learning" /\ evolution # "sleep" /\ Evolution /\ OnlyLearning)
    /\ WF_servicesVars(part = "gateway" /\ Run /\ OnlyGateway)
    /\ \A c \in 1 .. MaxConns : WF_servicesVars(part = "gateway" /\ ServeWS(c) /\ OnlyGateway)

ServicesSpec == ServicesInit /\ [][ServicesNext]_servicesVars /\ Fairness

-----------------------------------------------------------------------------
ServicesTypeOK == MarketTypeOK /\ NewsTypeOK /\ LearningTypeOK /\ GatewayTypeOK

\* No task is ever stuck or ends: after a failure the feed connects again, every
\* cycle of the scraper and of the evolution comes back to its sleep, and every
\* request and every close is done with, whichever await fails on the way.
LoopsComeBack ==
    /\ []<>(feed \in {"connecting", "up"})
    /\ []<>(scraper = "sleep")
    /\ []<>(evolution = "sleep")
    /\ []<>(computer.phase = "listen")
    /\ []<>(ml.phase = "idle")
    /\ []<>(answer.phase = "idle")
=============================================================================
