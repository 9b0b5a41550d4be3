-------------------------------- MODULE News --------------------------------
(***************************************************************************)
(* News and sentiment: the scraper task (ScraperRunner) that searches for  *)
(* articles, has them scored and writes them (NewsWriter, PostgresWriter), *)
(* and the sentiment agent (SentimentAgent) that answers each request from *)
(* the fear and greed index and the news rows of the last hours.           *)
(*                                                                         *)
(* The search, the scoring model, the index and the database are external. *)
(* An article is its url: the articles without one share the empty url.    *)
(***************************************************************************)
EXTENDS Integers, FiniteSets, Sequences, SequencesExt, Sums

CONSTANTS
    NewsSymbols,    \* symbol_list
    Urls,           \* the urls a search may find
    Relevances,     \* the relevance the scoring model may name
    Scores,         \* the sentiment it may name
    One,            \* 1.0 in the unit of relevance and sentiment
    MinRelevance,   \* scraper_min_relevance
    IndexScores,    \* the scores of the fear and greed index
    IndexTTL,       \* _FNG_CACHE_TTL
    MaxArticles,    \* bound: the articles of a cycle (the code takes 5 a symbol)
    MaxRows         \* bound: the rows within the sentiment agent's hours

ASSUME NewsAssumption ==
    /\ Relevances \subseteq Int /\ Scores \subseteq Int /\ IndexScores \subseteq Int
    /\ {One, IndexTTL} \subseteq Nat \ {0} /\ {MinRelevance, MaxArticles, MaxRows} \subseteq Nat
    /\ IsFiniteSet(NewsSymbols)

VARIABLES
    scraper,        \* what the scraper task does
    found,          \* the articles of this cycle that are still to be handled
    article,        \* the article at hand: its url, and its scores by symbol
    todo,           \* the symbols of the loop write() is in, in order
    items,          \* news_items: the urls stored
    sentiments,     \* news_sentiment: the rows of the last hours, oldest first
    published,      \* the last NewsSentimentResult sent for it
    index,          \* _fng_cache: its score, and its age up to IndexTTL
    answer          \* the SentimentAgent: what it does, and its last answer

newsVars == <<scraper, found, article, todo, items, sentiments, published, index, answer>>
agentIdle == <<index, answer>>
scraperIdle == <<scraper, found, article, todo, items, sentiments, published>>

NoArticle == [url |-> "none", scores |-> <<>>]
Nothing == [url |-> "none", symbol |-> "none", score |-> 0]
NoIndex == [score |-> 0, age |-> -1]
Neutral == [relevance |-> 0, sentiment |-> 0]

symbolList == SetToSeq(NewsSymbols)

-----------------------------------------------------------------------------
(* ScraperRunner.                                                          *)

\* _scrape_all: search_symbol turns every error into an empty list, so that a
\* search ends with some articles or none.
SearchAll ==
    /\ scraper = "sleep"
    /\ Len(sentiments) <= MaxRows - MaxArticles * Cardinality(NewsSymbols)
    /\ \E n \in 0 .. MaxArticles : found' \in [1 .. n -> Urls]
    /\ scraper' = "next"
    /\ UNCHANGED <<article, todo, items, sentiments, published, agentIdle>>

\* max(lo, min(1.0, x))
Clamp(lo, x) == IF x > One THEN One ELSE IF x < lo THEN lo ELSE x

\* The next article: the scorer answers for every symbol, clamped to its range,
\* or neutral for all of them when anything fails.
Score ==
    /\ scraper = "next" /\ found # <<>>
    /\ \/ \E relevance \in [NewsSymbols -> Relevances], sentiment \in [NewsSymbols -> Scores] :
             article' = [url |-> Head(found),
                         scores |-> [s \in NewsSymbols |-> [relevance |-> Clamp(0, relevance[s]),
                                                      sentiment |-> Clamp(-One, sentiment[s])]]]
       \/ article' = [url |-> Head(found), scores |-> [s \in NewsSymbols |-> Neutral]]
    /\ found' = Tail(found)
    /\ scraper' = "item"
    /\ UNCHANGED <<todo, items, sentiments, published, agentIdle>>

\* run() after _scrape_all: asyncio.sleep.
Sleep ==
    /\ scraper = "next" /\ found = <<>>
    /\ scraper' = "sleep"
    /\ UNCHANGED <<found, article, todo, items, sentiments, published, agentIdle>>

-----------------------------------------------------------------------------
(* NewsWriter.write: each statement and each publish is an await.          *)

\* a mutant: the scores are sent before they are stored
InsertNewsItem_PublishFirst ==
    /\ scraper = "item"
    /\ items' = items \cup {article.url}
    /\ todo' = symbolList
    /\ scraper' = "publish"
    /\ UNCHANGED <<found, article, sentiments, published, agentIdle>>

\* ON CONFLICT (url) DO UPDATE ... RETURNING id: a known url keeps its row.
InsertNewsItem ==
    /\ scraper = "item"
    /\ items' = items \cup {article.url}
    /\ todo' = symbolList
    /\ scraper' = "rows"
    /\ UNCHANGED <<found, article, sentiments, published, agentIdle>>

\* A row for each symbol, relevant to it or not, also for an article that has
\* rows from an earlier cycle.
InsertNewsSentiment ==
    /\ scraper = "rows" /\ todo # <<>>
    /\ sentiments' = Append(sentiments, [url |-> article.url, symbol |-> Head(todo),
                                        relevance |-> article.scores[Head(todo)].relevance,
                                        sentiment |-> article.scores[Head(todo)].sentiment])
    /\ todo' = Tail(todo)
    /\ UNCHANGED <<scraper, found, article, items, published, agentIdle>>

\* The second loop of write().
StartPublishing ==
    /\ scraper = "rows" /\ todo = <<>>
    /\ todo' = symbolList
    /\ scraper' = "publish"
    /\ UNCHANGED <<found, article, items, sentiments, published, agentIdle>>

Relevant(symbol) == article.scores[symbol].relevance >= MinRelevance

\* Only the scores that are relevant enough are sent.
PublishNews ==
    /\ scraper = "publish" /\ todo # <<>>
    /\ published' = IF Relevant(Head(todo))
                    THEN [url |-> article.url, symbol |-> Head(todo), score |-> article.scores[Head(todo)].sentiment]
                    ELSE published
    /\ todo' = Tail(todo)
    /\ UNCHANGED <<scraper, found, article, items, sentiments, agentIdle>>

EndArticle ==
    /\ scraper' = "next"
    /\ article' = NoArticle
    /\ todo' = <<>>
    /\ published' = Nothing
    /\ UNCHANGED <<found, items, sentiments, agentIdle>>

WriteEnds == scraper = "publish" /\ todo = <<>> /\ EndArticle

\* Any statement or publish may raise: _scrape_all logs it and goes on with the
\* next article; what was written stays.
WriteFails ==
    /\ scraper \in {"item", "rows", "publish"} /\ (scraper # "item" => todo # <<>>)
    /\ scraper = "publish" => Relevant(Head(todo))
    /\ EndArticle

\* The hours pass: the oldest row is no longer selected.
RowExpires ==
    /\ scraper = "sleep" /\ sentiments # <<>>
    /\ sentiments' = Tail(sentiments)
    /\ UNCHANGED <<scraper, found, article, todo, items, published, agentIdle>>

Scraper ==
    \/ SearchAll \/ Score \/ Sleep
    \/ InsertNewsItem \/ InsertNewsSentiment \/ StartPublishing \/ PublishNews
    \/ WriteEnds \/ WriteFails

-----------------------------------------------------------------------------
(* SentimentAgent.                                                         *)

NoNews == [total |-> 0, weighted |-> 0, count |-> 0]
Waiting == [phase |-> "idle", symbol |-> "none", fng |-> 0,
            news |-> NoNews, score |-> <<0, 1>>]

IndexAges ==
    /\ index # NoIndex /\ index.age < IndexTTL
    /\ index' = [index EXCEPT !.age = @ + 1]
    /\ UNCHANGED <<scraperIdle, answer>>

AskSentiment ==
    /\ answer.phase = "idle"
    /\ \E s \in NewsSymbols : answer' = [Waiting EXCEPT !.phase = "fng", !.symbol = s]
    /\ UNCHANGED <<scraperIdle, index>>

\* a mutant: a failure drops the score the cache holds
FetchFng_DropStale ==
    /\ answer.phase = "fng"
    /\ \/ /\ index # NoIndex /\ index.age < IndexTTL
          /\ answer' = [answer EXCEPT !.phase = "news", !.fng = index.score]
          /\ UNCHANGED index
       \/ /\ index = NoIndex \/ index.age = IndexTTL
          /\ \E v \in IndexScores :
                /\ index' = [score |-> v, age |-> 0]
                /\ answer' = [answer EXCEPT !.phase = "news", !.fng = v]
       \/ /\ index = NoIndex \/ index.age = IndexTTL
          /\ answer' = [answer EXCEPT !.phase = "news", !.fng = 0]
          /\ UNCHANGED index
    /\ UNCHANGED scraperIdle

\* A fresh score is taken from the cache; else the index is asked, and when it
\* does not answer, the stale score of the cache, or neutral if there is none.
FetchFng ==
    /\ answer.phase = "fng"
    /\ \/ /\ index # NoIndex /\ index.age < IndexTTL
          /\ answer' = [answer EXCEPT !.phase = "news", !.fng = index.score]
          /\ UNCHANGED index
       \/ /\ index = NoIndex \/ index.age = IndexTTL
          /\ \E v \in IndexScores :
                /\ index' = [score |-> v, age |-> 0]
                /\ answer' = [answer EXCEPT !.phase = "news", !.fng = v]
       \/ /\ index = NoIndex \/ index.age = IndexTTL
          /\ answer' = [answer EXCEPT !.phase = "news", !.fng = index.score]
          /\ UNCHANGED index
    /\ UNCHANGED scraperIdle

\* The mean of a symbol's scores, weighted with their relevance: its numerator
\* and denominator, and the number of rows.  FeatureEngine computes the same.
NewsScore(symbol) ==
    LET of == {k \in DOMAIN sentiments : sentiments[k].symbol = symbol}
        relevance == [k \in of |-> sentiments[k].relevance]
        product == [k \in of |-> sentiments[k].sentiment * sentiments[k].relevance]
        total == Sum(relevance, of)
    IN  IF total = 0 THEN NoNews
        ELSE [total |-> total, weighted |-> Sum(product, of), count |-> Cardinality(of)]

\* The combined score, as a numerator and a denominator: the index alone when
\* there is no news, else half of each.
Combined(fng, news) ==
    IF news.count > 0 THEN <<fng * news.total + news.weighted, 2 * news.total>>
                      ELSE <<fng, 1>>

\* The rows of the symbol, or none when the statement raises.
FetchNewsScore ==
    /\ answer.phase = "news"
    /\ \E news \in {NewsScore(answer.symbol), NoNews} :
          answer' = [answer EXCEPT !.phase = "answer", !.news = news, !.score = Combined(answer.fng, news)]
    /\ UNCHANGED <<scraperIdle, index>>

\* The answer is sent, or the publish raises and run() logs it.
PublishSentiment ==
    /\ answer.phase = "answer"
    /\ answer' = Waiting
    /\ UNCHANGED <<scraperIdle, index>>

SentimentAgent == AskSentiment \/ FetchFng \/ FetchNewsScore \/ PublishSentiment

-----------------------------------------------------------------------------
NewsInit ==
    /\ scraper = "sleep" /\ found = <<>> /\ article = NoArticle /\ todo = <<>>
    /\ items = {} /\ sentiments = <<>> /\ published = Nothing
    /\ index = NoIndex /\ answer = Waiting

NewsNext == Scraper \/ RowExpires \/ IndexAges \/ SentimentAgent

-----------------------------------------------------------------------------
NewsTypeOK ==
    /\ scraper \in {"sleep", "next", "item", "rows", "publish"}
    /\ ToSet(found) \subseteq Urls /\ items \subseteq Urls
    /\ Len(sentiments) <= MaxRows
    /\ index.age \in -1 .. IndexTTL
    /\ answer.phase \in {"idle", "fng", "news", "answer"}
    /\ answer.news.count > 0 => answer.news.total > 0

\* Sentiment is sent only after it is stored: the article has its row, and each
\* symbol's score of it is in the table, the sent one with the score sent and
\* enough relevance; a statement that fails half way leaves nothing announced.
SentIsStored ==
    (published' # published /\ published' # Nothing) =>
        LET of(s) == {k \in DOMAIN sentiments : sentiments[k].url = published'.url /\ sentiments[k].symbol = s}
        IN  /\ published'.url \in items
            /\ \A s \in NewsSymbols : of(s) # {}
            /\ \E k \in of(published'.symbol) : /\ sentiments[k].sentiment = published'.score
                                               /\ sentiments[k].relevance >= MinRelevance

PublishedAreStored == [][SentIsStored]_newsVars

\* The index score of an answer is the newest ever received, stale or not, and
\* neutral only before the first.
IndexIsNewest ==
    /\ answer'.fng = (IF index' = NoIndex THEN 0 ELSE index'.score)
    /\ index # NoIndex => index' # NoIndex

\* The mean of the news lies within the scores of the symbol's own rows, those without
\* relevance cannot move it, and the combined score lies between it and the index.
MeanIsOwn ==
    LET own == {r \in ToSet(sentiments) : r.symbol = answer.symbol /\ r.relevance > 0}
        news == answer'.news
        score == answer'.score
        fng == answer.fng * news.total
    IN  IF news.count = 0 THEN score = <<answer.fng, 1>>
        ELSE /\ \E r \in own : r.sentiment * news.total <= news.weighted
             /\ \E r \in own : r.sentiment * news.total >= news.weighted
             /\ \/ fng * score[2] <= score[1] * news.total /\ score[1] * news.total <= news.weighted * score[2]
                \/ news.weighted * score[2] <= score[1] * news.total /\ score[1] * news.total <= fng * score[2]

\* What a sentiment answer rests on: the newest index score, a mean of the symbol's
\* own rows, and a combined score between the two.
AnswerIsBacked ==
    /\ (answer.phase = "fng" /\ answer'.phase = "news") => IndexIsNewest
    /\ (answer.phase = "news" /\ answer'.phase = "answer") => MeanIsOwn

SentimentIsBacked == [][AnswerIsBacked]_newsVars
=============================================================================
