---------------------------- MODULE BacktestProofs ----------------------------
(***************************************************************************)
(* Theorems about the downloads and the backtests, for every history, page *)
(* size, grid and fold the constants may name.                            *)
(***************************************************************************)
EXTENDS Backtests, SumProofs, FiniteSetTheorems, SequenceTheorems, TLAPS

-----------------------------------------------------------------------------
(* The times of a set in order.                                            *)

\* The number of times of T before t.
Rank(T, t) == Cardinality({u \in T : u < t})

\* Of two times of a set, the later has more before it.
LEMMA RankGrows ==
    ASSUME NEW T \in SUBSET Int, IsFiniteSet(T), NEW t \in T, NEW u \in T, t < u
    PROVE  Rank(T, t) < Rank(T, u)
<1> DEFINE A == {v \in T : v < t}
           B == {v \in T : v < u}
<1>1. A \in SUBSET B /\ t \in B /\ t \notin A /\ A \in SUBSET T /\ B \in SUBSET T
  <2>1. \A v \in T : v < t => v < u
    OBVIOUS
  <2>2. t \in B /\ t \notin A /\ A \in SUBSET T /\ B \in SUBSET T
    OBVIOUS
  <2> QED BY <2>1, <2>2
<1>2. IsFiniteSet(B) /\ IsFiniteSet(A)
  BY <1>1, FS_Subset
<1>3. Cardinality(A) <= Cardinality(B) /\ Cardinality(A) # Cardinality(B)
  BY <1>1, <1>2, FS_Subset
<1>4. Cardinality(A) \in Nat /\ Cardinality(B) \in Nat
  BY <1>2, FS_CardinalityType
<1> QED BY <1>3, <1>4 DEF Rank

LEMMA RankType ==
    ASSUME NEW T \in SUBSET Int, IsFiniteSet(T), NEW t \in T
    PROVE  Rank(T, t) \in 0 .. Cardinality(T) - 1 /\ Cardinality(T) \in Nat
<1> DEFINE A == {v \in T : v < t}
<1>1. A \in SUBSET T /\ t \in T /\ t \notin A
  OBVIOUS
<1>2. IsFiniteSet(A) /\ Cardinality(A) <= Cardinality(T) /\ Cardinality(A) # Cardinality(T)
  BY <1>1, FS_Subset
<1>3. Cardinality(A) \in Nat /\ Cardinality(T) \in Nat
  BY <1>2, FS_CardinalityType
<1> QED BY <1>2, <1>3 DEF Rank

\* Every place up to the size of the set is some time's.
LEMMA RankTaken ==
    ASSUME NEW T \in SUBSET Int, IsFiniteSet(T), NEW k \in 1 .. Cardinality(T)
    PROVE  \E t \in T : Rank(T, t) = k - 1
<1> DEFINE n == Cardinality(T)
           place == [t \in T |-> Rank(T, t) + 1]
<1>1. n \in Nat
  BY FS_CardinalityType
<1>2. place \in [T -> 1 .. n]
  BY RankType
<1>3. \A t, u \in T : place[t] = place[u] => t = u
  <2> SUFFICES ASSUME NEW t \in T, NEW u \in T, t < u PROVE place[t] # place[u]
    OBVIOUS
  <2>1. Rank(T, t) < Rank(T, u) /\ Rank(T, t) \in Int /\ Rank(T, u) \in Int
    BY RankGrows, RankType
  <2> QED BY <2>1
<1> HIDE DEF place
<1>4. place \in Injection(T, 1 .. n)
  BY <1>2, <1>3 DEF Injection, IsInjective
<1>5. IsFiniteSet(1 .. n) /\ Cardinality(1 .. n) = n
  BY <1>1, FS_Interval
<1>6. place \in Surjection(T, 1 .. n)
  BY <1>4, <1>5, FS_Injection
<1>7. PICK t \in T : place[t] = k
  BY <1>6 DEF Surjection
<1>8. Rank(T, t) \in Int /\ place[t] = Rank(T, t) + 1
  BY RankType DEF place
<1> QED BY <1>7, <1>8

\* Ascending lists the set, each time once and before the later ones.
LEMMA AscendingShape ==
    ASSUME NEW T \in SUBSET Int, IsFiniteSet(T)
    PROVE  /\ Ascending(T) \in [1 .. Cardinality(T) -> T] /\ Cardinality(T) \in Nat
           /\ \A k \in 1 .. Cardinality(T) : Rank(T, Ascending(T)[k]) = k - 1
           /\ \A k, l \in 1 .. Cardinality(T) : k < l => Ascending(T)[k] < Ascending(T)[l]
           /\ \A t \in T : \E k \in 1 .. Cardinality(T) : Ascending(T)[k] = t
<1> DEFINE n == Cardinality(T)
           a == Ascending(T)
<1>1. n \in Nat
  BY FS_CardinalityType
<1>2. ASSUME NEW k \in 1 .. n PROVE a[k] \in T /\ Rank(T, a[k]) = k - 1
  <2>1. a[k] = CHOOSE t \in T : Rank(T, t) = k - 1
    BY DEF Ascending, Rank
  <2>2. \E t \in T : Rank(T, t) = k - 1
    BY RankTaken
  <2> HIDE DEF a
  <2> QED BY <2>1, <2>2
<1>3. a = [k \in 1 .. n |-> a[k]]
  BY DEF Ascending
<1> HIDE DEF a
<1>4. a \in [1 .. n -> T]
  BY <1>2, <1>3
<1>5. ASSUME NEW t \in T, NEW u \in T, Rank(T, t) <= Rank(T, u) PROVE t <= u
  <2>1. Rank(T, t) \in Int /\ Rank(T, u) \in Int
    BY RankType
  <2>2. ~(u < t)
    BY <1>5, <2>1, RankGrows
  <2> QED BY <2>2
<1>6. ASSUME NEW k \in 1 .. n, NEW l \in 1 .. n, k < l PROVE a[k] < a[l]
  <2>1. a[k] \in T /\ a[l] \in T /\ Rank(T, a[k]) = k - 1 /\ Rank(T, a[l]) = l - 1
    BY <1>2
  <2>2. Rank(T, a[k]) <= Rank(T, a[l]) /\ Rank(T, a[k]) # Rank(T, a[l])
    BY <1>1, <1>6, <2>1
  <2>3. a[k] <= a[l]
    BY <1>5, <2>1, <2>2
  <2>4. a[k] # a[l]
    BY <2>2
  <2>5. a[k] \in Int /\ a[l] \in Int
    BY <2>1
  <2> QED BY <2>3, <2>4, <2>5
<1>7. ASSUME NEW t \in T PROVE \E k \in 1 .. n : a[k] = t
  <2> DEFINE k == Rank(T, t) + 1
  <2>1. k \in 1 .. n /\ Rank(T, t) = k - 1
    BY <1>1, RankType
  <2> HIDE DEF k
  <2>2. a[k] \in T /\ Rank(T, a[k]) = k - 1
    BY <1>2, <2>1
  <2>3. Rank(T, a[k]) = Rank(T, t) /\ Rank(T, t) \in Int
    BY <2>1, <2>2, RankType
  <2>4. Rank(T, a[k]) <= Rank(T, t) /\ Rank(T, t) <= Rank(T, a[k])
    BY <2>3
  <2>5. a[k] <= t /\ t <= a[k]
    BY <1>5, <2>2, <2>4
  <2>6. a[k] \in Int /\ t \in Int
    BY <2>2
  <2>7. a[k] = t
    BY <2>5, <2>6
  <2> QED BY <2>1, <2>7
<1> QED BY <1>1, <1>2, <1>4, <1>6, <1>7 DEF a

-----------------------------------------------------------------------------
(* The downloads.                                                          *)

Sorted(s) == \A k, l \in 1 .. Len(s) : k < l => s[k] < s[l]

\* p is an answer of the exchange to a request for the bars between two times.
IsPage(p, from, to) ==
    /\ p \in Seq(DOMAIN history) /\ Sorted(p)
    /\ \A t \in ToSet(p) : from <= t /\ t <= to
    /\ (p = <<>> \/ Len(p) < Limit) => \A t \in DOMAIN history : (from <= t /\ t <= to) => t \in ToSet(p)
    /\ p # <<>> =>
           /\ Last(p) \in ToSet(p) /\ \A t \in ToSet(p) : t <= Last(p)
           /\ \A t \in DOMAIN history : (from <= t /\ t <= Last(p)) => t \in ToSet(p)

LEMMA PageShape ==
    ASSUME IsFiniteSet(DOMAIN history), DOMAIN history \subseteq Int, NEW from \in Int, NEW to \in Int
    PROVE  IsPage(Page(from, to), from, to)
<1> DEFINE W == {t \in DOMAIN history : from <= t /\ t <= to}
           times == Ascending(W)
           m == IF Len(times) < Limit THEN Len(times) ELSE Limit
           p == SubSeq(times, 1, m)
<1>1. W \in SUBSET Int /\ IsFiniteSet(W) /\ W \in SUBSET (DOMAIN history)
  <2>1. W \in SUBSET (DOMAIN history)
    OBVIOUS
  <2> QED BY <2>1, FS_Subset
<1>2. /\ times \in [1 .. Cardinality(W) -> W] /\ Cardinality(W) \in Nat
      /\ \A k, l \in 1 .. Cardinality(W) : k < l => times[k] < times[l]
      /\ \A t \in W : \E k \in 1 .. Cardinality(W) : times[k] = t
  BY <1>1, AscendingShape
<1> HIDE DEF W, times
<1>3. times \in Seq(W) /\ Len(times) = Cardinality(W) /\ DOMAIN times = 1 .. Len(times)
  BY <1>2
<1>4. m \in 0 .. Len(times) /\ (m = 0 => Len(times) = 0) /\ (m < Limit => m = Len(times))
  BY <1>2, <1>3, PagingAssumption
<1> HIDE DEF m
<1>5. p \in Seq(W) /\ Len(p) = m /\ DOMAIN p = 1 .. m /\ \A k \in 1 .. m : p[k] = times[k]
  BY <1>3, <1>4
<1> HIDE DEF p
<1>6. \A t \in W : \E k \in 1 .. Len(times) : times[k] = t
  BY <1>2, <1>3
<1>7. m = Len(times) => \A t \in W : t \in ToSet(p)
  BY <1>5, <1>6 DEF ToSet
<1>8. \A t \in ToSet(p) : t \in W
  BY <1>5 DEF ToSet
<1>9. Sorted(p)
  BY <1>2, <1>3, <1>4, <1>5 DEF Sorted
<1>10. ASSUME p # <<>>
       PROVE  /\ Last(p) \in ToSet(p) /\ \A t \in ToSet(p) : t <= Last(p)
              /\ \A t \in W : t <= Last(p) => t \in ToSet(p)
  <2>1. m >= 1 /\ m \in Nat /\ Last(p) = p[m] /\ p[m] = times[m]
    BY <1>4, <1>5, <1>10 DEF Last
  <2>2. Last(p) \in ToSet(p) /\ Last(p) \in Int
    BY <1>1, <1>5, <2>1 DEF ToSet
  <2>3. ASSUME NEW k \in 1 .. m PROVE p[k] <= Last(p)
    <3>1. p[k] \in W
      BY <1>5
    <3>2. p[k] \in Int
      BY <1>1, <3>1
    <3>3. k < m => p[k] < p[m]
      BY <1>5, <1>9, <2>1 DEF Sorted
    <3> QED BY <2>1, <2>2, <3>2, <3>3
  <2>4. ASSUME NEW t \in W, t <= Last(p) PROVE t \in ToSet(p)
    <3>1. PICK k \in 1 .. Len(times) : times[k] = t
      BY <1>6
    <3>2. ~(m < k)
      <4>1. m < k => times[m] < times[k]
        BY <1>2, <1>3, <1>4, <2>1
      <4> QED BY <1>1, <2>1, <2>2, <2>4, <3>1, <4>1
    <3>3. k \in 1 .. m
      BY <2>1, <3>2
    <3> QED BY <1>5, <3>1, <3>3 DEF ToSet
  <2> QED BY <1>5, <2>2, <2>3, <2>4 DEF ToSet
<1>11. p = <<>> => m = 0
  BY <1>5
<1>12. Page(from, to) = p
  BY DEF Page, W, times, m, p
<1>13. \A t \in DOMAIN history : (from <= t /\ t <= to) <=> t \in W
  BY DEF W
<1>14. \A t \in W : t \in DOMAIN history
  BY <1>1
<1>15. \A t \in ToSet(p) : t \in DOMAIN history /\ from <= t /\ t <= to
  BY <1>8, <1>13, <1>14
<1>16. (p = <<>> \/ Len(p) < Limit) => m = Len(times)
  BY <1>4, <1>5, <1>11
<1>17. ASSUME p # <<>>, NEW t \in DOMAIN history, from <= t, t <= Last(p) PROVE t \in ToSet(p)
  <2>1. Last(p) <= to /\ Last(p) \in Int
    BY <1>10, <1>15, <1>17
  <2>2. t <= to
    BY <1>17, <2>1
  <2> QED BY <1>10, <1>13, <1>17, <2>2
<1>18. p \in Seq(DOMAIN history)
  <2>1. m \in Nat /\ p = [k \in 1 .. m |-> p[k]]
    BY <1>4, <1>5, <1>3
  <2>2. \A k \in 1 .. m : p[k] \in DOMAIN history
    BY <1>5, <1>14
  <2> QED BY <2>1, <2>2, IsASeq
<1>19. (p = <<>> \/ Len(p) < Limit) => \A t \in DOMAIN history : (from <= t /\ t <= to) => t \in ToSet(p)
  BY <1>7, <1>13, <1>16
<1>20. p # <<>> =>
           /\ Last(p) \in ToSet(p) /\ \A t \in ToSet(p) : t <= Last(p)
           /\ \A t \in DOMAIN history : (from <= t /\ t <= Last(p)) => t \in ToSet(p)
  BY <1>10, <1>17
<1> QED BY <1>9, <1>12, <1>15, <1>18, <1>19, <1>20 DEF IsPage

LEMMA ToSetConcat ==
    ASSUME NEW S, NEW s \in Seq(S), NEW r \in Seq(S)
    PROVE  ToSet(s \o r) = ToSet(s) \cup ToSet(r)
<1> DEFINE c == s \o r
<1>1. /\ c \in Seq(S) /\ Len(c) = Len(s) + Len(r) /\ Len(s) \in Nat /\ Len(r) \in Nat
      /\ \A k \in 1 .. Len(c) : c[k] = IF k <= Len(s) THEN s[k] ELSE r[k - Len(s)]
  BY ConcatProperties
<1>2. DOMAIN c = 1 .. Len(c) /\ DOMAIN s = 1 .. Len(s) /\ DOMAIN r = 1 .. Len(r)
  BY <1>1
<1> HIDE DEF c
<1>3. ASSUME NEW k \in 1 .. Len(c) PROVE c[k] \in ToSet(s) \cup ToSet(r)
  <2>1. CASE k <= Len(s)
    BY <1>1, <1>2, <2>1 DEF ToSet
  <2>2. CASE ~(k <= Len(s))
    <3>1. k - Len(s) \in 1 .. Len(r)
      BY <1>1, <2>2
    <3> QED BY <1>1, <1>2, <2>2, <3>1 DEF ToSet
  <2> QED BY <2>1, <2>2
<1>4. ASSUME NEW k \in 1 .. Len(s) PROVE s[k] \in ToSet(c)
  <2>1. k \in 1 .. Len(c) /\ c[k] = s[k]
    BY <1>1
  <2> QED BY <1>2, <2>1 DEF ToSet
<1>5. ASSUME NEW k \in 1 .. Len(r) PROVE r[k] \in ToSet(c)
  <2> DEFINE j == k + Len(s)
  <2>1. j \in 1 .. Len(c) /\ ~(j <= Len(s)) /\ j - Len(s) = k
    BY <1>1
  <2> HIDE DEF j
  <2>2. c[j] = r[k]
    BY <1>1, <2>1
  <2> QED BY <1>2, <2>1, <2>2 DEF ToSet
<1>6. \A x \in ToSet(c) : x \in ToSet(s) \cup ToSet(r)
  BY <1>2, <1>3 DEF ToSet
<1>7. \A x \in ToSet(s) \cup ToSet(r) : x \in ToSet(c)
  BY <1>2, <1>4, <1>5 DEF ToSet
<1> QED BY <1>6, <1>7 DEF c

Wanted == {t \in DOMAIN history : Start <= t /\ t < End}
Newest == {t \in DOMAIN history : Cardinality({u \in DOMAIN history : u > t}) < DailyLimit}

\* What DownloadComplete needs to be inductive: between two requests of a loop, the
\* bars received are exactly those from the start of the period to the cursor.
DownloadInv ==
    /\ script \in Scripts /\ history \in Histories[script] /\ cursor \in Int /\ Start <= cursor
    /\ rows \in Seq(DOMAIN history) /\ Sorted(rows)
    /\ (pc = "fetch" /\ script # "3") =>
           \A t \in DOMAIN history : t \in ToSet(rows) <=> (Start <= t /\ t < cursor)
    /\ pc \notin {"fetch", "failed"} =>
           IF script = "3" THEN ToSet(rows) = Newest ELSE Wanted \subseteq ToSet(rows)

LEMMA HistoryShape ==
    ASSUME DownloadInv
    PROVE  /\ IsFiniteSet(DOMAIN history) /\ DOMAIN history \subseteq Int
           /\ \A t, u \in DOMAIN history : t < u => t + Interval <= u
BY HistoryAssumption DEF DownloadInv

\* A page is received: nothing between two pages is missed, and the loop stops only
\* when the period is covered.
LEMMA ReceiveKeeps ==
    ASSUME DownloadInv, pc = "fetch", script # "3",
           NEW to \in Int, to >= End, NEW page, IsPage(page, cursor, to), NEW next, NEW enough,
           page # <<>> => /\ next \in Int /\ next > Last(page)
                          /\ \A t \in DOMAIN history : t > Last(page) => t >= next,
           (page # <<>> /\ enough) => \A t \in DOMAIN history : (cursor <= t /\ t <= to) => t \in ToSet(page),
           Receive(page, next, enough)
    PROVE  DownloadInv'
<1>1. /\ rows' = rows \o page /\ cursor' = (IF page = <<>> THEN cursor ELSE next)
      /\ pc' = (IF page = <<>> \/ enough \/ next >= End THEN "fetched" ELSE "fetch")
      /\ script' = script /\ history' = history
  BY DEF Receive
<1>2. /\ rows \in Seq(DOMAIN history) /\ page \in Seq(DOMAIN history) /\ DOMAIN history \subseteq Int
      /\ cursor \in Int /\ Start <= cursor /\ Start \in Int /\ End \in Int
  BY HistoryShape, PagingAssumption DEF DownloadInv, IsPage
<1>3. rows' \in Seq(DOMAIN history) /\ ToSet(rows') = ToSet(rows) \cup ToSet(page)
  BY <1>1, <1>2, ToSetConcat
<1>4. \A t \in DOMAIN history : t \in ToSet(rows) <=> (Start <= t /\ t < cursor)
  BY DEF DownloadInv
<1>5. \A t \in ToSet(page) : t \in DOMAIN history /\ cursor <= t /\ t <= to
  BY <1>2 DEF IsPage, ToSet
<1>6. Sorted(rows')
  <2>1. /\ Len(rows') = Len(rows) + Len(page) /\ Len(rows) \in Nat /\ Len(page) \in Nat
        /\ \A k \in 1 .. Len(rows') : rows'[k] = IF k <= Len(rows) THEN rows[k] ELSE page[k - Len(rows)]
    BY <1>1, <1>2, ConcatProperties
  <2>2. \A k \in 1 .. Len(rows) : rows[k] \in Int /\ rows[k] < cursor
    <3> TAKE k \in 1 .. Len(rows)
    <3>1. rows[k] \in DOMAIN history /\ rows[k] \in ToSet(rows)
      BY <1>2 DEF ToSet
    <3> QED BY <1>2, <1>4, <3>1
  <2>3. \A k \in 1 .. Len(page) : page[k] \in Int /\ cursor <= page[k]
    <3> TAKE k \in 1 .. Len(page)
    <3>1. page[k] \in DOMAIN history /\ page[k] \in ToSet(page)
      BY <1>2 DEF ToSet
    <3> QED BY <1>2, <1>5, <3>1
  <2>4. ASSUME NEW k \in 1 .. Len(rows'), NEW l \in 1 .. Len(rows'), k < l PROVE rows'[k] < rows'[l]
    <3>1. CASE l <= Len(rows)
      <4>1. k \in 1 .. Len(rows) /\ l \in 1 .. Len(rows) /\ rows'[k] = rows[k] /\ rows'[l] = rows[l]
        BY <2>1, <2>4, <3>1
      <4> QED BY <2>4, <4>1 DEF DownloadInv, Sorted
    <3>2. CASE k <= Len(rows) /\ ~(l <= Len(rows))
      <4>1. k \in 1 .. Len(rows) /\ l - Len(rows) \in 1 .. Len(page) /\ rows'[k] = rows[k] /\ rows'[l] = page[l - Len(rows)]
        BY <2>1, <3>2
      <4>2. rows[k] \in Int /\ rows[k] < cursor /\ page[l - Len(rows)] \in Int /\ cursor <= page[l - Len(rows)]
        BY <2>2, <2>3, <4>1
      <4> QED BY <1>2, <4>1, <4>2
    <3>3. CASE ~(k <= Len(rows))
      <4>1. /\ k - Len(rows) \in 1 .. Len(page) /\ l - Len(rows) \in 1 .. Len(page) /\ k - Len(rows) < l - Len(rows)
            /\ rows'[k] = page[k - Len(rows)] /\ rows'[l] = page[l - Len(rows)]
        BY <2>1, <2>4, <3>3
      <4> QED BY <4>1 DEF IsPage, Sorted
    <3> QED BY <3>1, <3>2, <3>3
  <2> QED BY <2>4 DEF Sorted
<1>7. cursor' \in Int /\ Start <= cursor'
  <2>1. CASE page = <<>>
    BY <1>1, <1>2, <2>1
  <2>2. CASE page # <<>>
    <3>1. Last(page) \in Int /\ cursor <= Last(page)
      BY <1>2, <1>5, <2>2 DEF IsPage
    <3> QED BY <1>1, <1>2, <2>2, <3>1
  <2> QED BY <2>1, <2>2
<1>8. ASSUME page # <<>>, NEW t \in DOMAIN history PROVE t \in ToSet(rows') <=> (Start <= t /\ t < next)
  <2>1. /\ t \in Int /\ next \in Int /\ Last(page) \in Int /\ next > Last(page) /\ cursor <= Last(page)
        /\ (t > Last(page) => t >= next)
    BY <1>2, <1>5, <1>8 DEF IsPage
  <2>2. t \in ToSet(page) => t <= Last(page) /\ cursor <= t
    BY <1>5, <1>8 DEF IsPage
  <2>3. (cursor <= t /\ t <= Last(page)) => t \in ToSet(page)
    BY <1>8 DEF IsPage
  <2> QED BY <1>2, <1>3, <1>4, <2>1, <2>2, <2>3
<1>9. pc' = "fetch" => \A t \in DOMAIN history : t \in ToSet(rows') <=> (Start <= t /\ t < cursor')
  BY <1>1, <1>8
<1>10. pc' # "fetch" => Wanted \subseteq ToSet(rows')
  <2>1. ASSUME \A t \in DOMAIN history : (cursor <= t /\ t <= to) => t \in ToSet(page), NEW t \in Wanted
        PROVE  t \in ToSet(rows')
    BY <1>2, <1>3, <1>4, <2>1 DEF Wanted
  <2>2. CASE page = <<>> \/ enough
    BY <2>1, <2>2 DEF IsPage
  <2>3. CASE page # <<>> /\ next >= End
    BY <1>2, <1>8, <2>3 DEF Wanted
  <2> QED BY <1>1, <2>2, <2>3
<1>11. Wanted' = Wanted /\ (pc' = "fetch" \/ pc' = "fetched")
  BY <1>1 DEF Wanted
<1> QED BY <1>1, <1>3, <1>6, <1>7, <1>9, <1>10, <1>11 DEF DownloadInv

\* The loops of scripts 1, 6 and kronos: the next request starts one interval on.
LEMMA IntervalLoopKeeps ==
    ASSUME DownloadInv, pc = "fetch", script # "3",
           Receive(Page(cursor, End), PastTheLastBar(Page(cursor, End)), FALSE)
    PROVE  DownloadInv'
<1> DEFINE page == Page(cursor, End)
           next == Last(page) + Interval
<1>1. cursor \in Int /\ End \in Int /\ End >= End /\ Interval \in Nat /\ Interval > 0
  BY PagingAssumption DEF DownloadInv
<1>2. IsPage(page, cursor, End)
  BY <1>1, HistoryShape, PageShape
<1>3. Receive(page, next, FALSE)
  BY DEF PastTheLastBar
<1> HIDE DEF page
<1>4. ASSUME page # <<>>
      PROVE  /\ next \in Int /\ next > Last(page)
             /\ \A t \in DOMAIN history : t > Last(page) => t >= next
  <2>1. page \in Seq(DOMAIN history) /\ Last(page) \in ToSet(page)
    BY <1>2, <1>4 DEF IsPage
  <2>2. Last(page) \in DOMAIN history
    BY <2>1 DEF ToSet
  <2>3. Last(page) \in Int
    BY <2>2, HistoryShape
  <2>4. \A t \in DOMAIN history : t \in Int /\ (Last(page) < t => Last(page) + Interval <= t)
    BY <2>2, HistoryShape
  <2> QED BY <1>1, <2>3, <2>4
<1> HIDE DEF next
<1>5. page # <<>> => /\ next \in Int /\ next > Last(page)
                     /\ \A t \in DOMAIN history : t > Last(page) => t >= next
  BY <1>4
<1> QED BY <1>1, <1>2, <1>3, <1>5, ReceiveKeeps

\* The loops of scripts 2, 4 and 5: the next request starts a millisecond on, and the
\* loop stops early only at a page that shows the exchange has no more.
LEMMA MillisecondLoopKeeps ==
    ASSUME DownloadInv, pc = "fetch", script # "3", NEW to \in Int, to >= End, NEW enough,
           enough => Page(cursor, to) = <<>> \/ Len(Page(cursor, to)) < Limit,
           Receive(Page(cursor, to), Last(Page(cursor, to)) + 1, enough)
    PROVE  DownloadInv'
<1> DEFINE page == Page(cursor, to)
           next == Last(page) + 1
<1>1. cursor \in Int
  BY DEF DownloadInv
<1>2. IsPage(page, cursor, to)
  BY <1>1, HistoryShape, PageShape
<1>3. Receive(page, next, enough)
  OBVIOUS
<1>4. (page # <<>> /\ enough) => \A t \in DOMAIN history : (cursor <= t /\ t <= to) => t \in ToSet(page)
  BY <1>2 DEF IsPage
<1> HIDE DEF page
<1>5. ASSUME page # <<>>
      PROVE  /\ next \in Int /\ next > Last(page)
             /\ \A t \in DOMAIN history : t > Last(page) => t >= next
  <2>1. page \in Seq(DOMAIN history) /\ Last(page) \in ToSet(page)
    BY <1>2, <1>5 DEF IsPage
  <2>2. Last(page) \in DOMAIN history
    BY <2>1 DEF ToSet
  <2>3. Last(page) \in Int /\ \A t \in DOMAIN history : t \in Int
    BY <2>2, HistoryShape
  <2> QED BY <2>3
<1> HIDE DEF next
<1>6. page # <<>> => /\ next \in Int /\ next > Last(page)
                     /\ \A t \in DOMAIN history : t > Last(page) => t >= next
  BY <1>5
<1> QED BY <1>2, <1>3, <1>4, <1>6, ReceiveKeeps

\* Script 4 stops when the last bar is not past the cursor: the page then holds one
\* bar, and one is less than the limit.
LEMMA StandsMeansShort ==
    ASSUME NEW page, NEW to, IsPage(page, cursor, to), cursor \in Int,
           DOMAIN history \subseteq Int, page # <<>>, Last(page) <= cursor
    PROVE  Len(page) < Limit
<1>1. page \in Seq(Int) /\ Sorted(page) /\ Len(page) \in Nat /\ Len(page) > 0
  <2>1. page \in Seq(DOMAIN history) /\ Sorted(page)
    BY DEF IsPage
  <2> QED BY <2>1
<1>2. \A k \in 1 .. Len(page) : page[k] \in Int /\ page[k] = cursor
  <2> TAKE k \in 1 .. Len(page)
  <2>1. page[k] \in ToSet(page) /\ page[k] \in Int /\ Last(page) = page[Len(page)] /\ Last(page) \in Int
    BY <1>1 DEF ToSet, Last
  <2>2. cursor <= page[k] /\ page[k] <= Last(page)
    BY <2>1 DEF IsPage
  <2> QED BY <2>1, <2>2
<1>3. ~(Len(page) > 1)
  <2>1. SUFFICES ASSUME Len(page) > 1 PROVE FALSE
    OBVIOUS
  <2>2. 1 \in 1 .. Len(page) /\ 2 \in 1 .. Len(page)
    BY <1>1, <2>1
  <2>3. page[1] < page[2]
    BY <1>1, <2>2 DEF Sorted
  <2> QED BY <1>2, <2>2, <2>3
<1> QED BY <1>1, <1>3, PagingAssumption

\* The last k times of a set are those with fewer than k after them.
LEMMA LaterThan ==
    ASSUME NEW T \in SUBSET Int, IsFiniteSet(T), NEW t \in T
    PROVE  Cardinality({u \in T : u > t}) = Cardinality(T) - Rank(T, t) - 1
<1> DEFINE A == {u \in T : u < t}
           B == A \cup {t}
<1>1. A \in SUBSET T /\ t \notin A /\ B \in SUBSET T
  OBVIOUS
<1>2. IsFiniteSet(A) /\ IsFiniteSet(B) /\ Cardinality(B) = Cardinality(A) + 1
  BY <1>1, FS_Subset, FS_AddElement
<1>3. {u \in T : u > t} = T \ B /\ T \cap B = B
  <2>1. \A u \in T : u > t <=> ~(u < t) /\ u # t
    OBVIOUS
  <2> QED BY <1>1, <2>1
<1>4. Cardinality(T \ B) = Cardinality(T) - Cardinality(B)
  <2>1. Cardinality(T \ B) = Cardinality(T) - Cardinality(T \cap B)
    BY FS_Difference
  <2> QED BY <1>3, <2>1
<1>5. Cardinality(A) \in Nat /\ Cardinality(T) \in Nat /\ Cardinality(A) = Rank(T, t)
  BY <1>2, FS_CardinalityType DEF Rank
<1> QED BY <1>2, <1>3, <1>4, <1>5

LEMMA DailyKeeps ==
    ASSUME DownloadInv, pc = "fetch", FetchBtcDaily
    PROVE  DownloadInv'
<1> DEFINE T == DOMAIN history
           n == Cardinality(T)
           a == Ascending(T)
           first == IF Len(a) > DailyLimit THEN Len(a) - DailyLimit + 1 ELSE 1
<1>1. T \in SUBSET Int /\ IsFiniteSet(T)
  BY HistoryShape
<1>2. /\ a \in [1 .. n -> T] /\ n \in Nat
      /\ \A k \in 1 .. n : Rank(T, a[k]) = k - 1
      /\ \A k, l \in 1 .. n : k < l => a[k] < a[l]
      /\ \A t \in T : \E k \in 1 .. n : a[k] = t
  BY <1>1, AscendingShape
<1>3. /\ script = "3" /\ rows' = SubSeq(a, first, Len(a)) /\ pc' = "fetched"
      /\ script' = script /\ history' = history /\ cursor' = cursor
  BY DEF FetchBtcDaily, Fetching
<1>4. Newest = {t \in T : Cardinality({u \in T : u > t}) < DailyLimit} /\ Newest' = Newest
  BY <1>3 DEF Newest
<1> HIDE DEF T, a
<1>5. Len(a) = n /\ a \in Seq(T)
  BY <1>2
<1>6. DailyLimit \in Nat /\ DailyLimit > 0
  BY PagingAssumption
<1>7. first \in Nat /\ first >= 1 /\ first <= n + 1 /\ \A k \in 1 .. n : k >= first <=> n - k < DailyLimit
  BY <1>2, <1>5, <1>6
<1> HIDE DEF first
<1>8. \A k \in first .. n : a[k] \in T
  BY <1>2, <1>7
<1>9. /\ rows' \in Seq(T) /\ Len(rows') = n - first + 1
      /\ \A k \in 1 .. n - first + 1 : rows'[k] = a[first + k - 1]
  <2>1. first \in Int /\ Len(a) \in Int
    BY <1>2, <1>5, <1>7
  <2>2. /\ SubSeq(a, first, Len(a)) \in Seq(T)
        /\ Len(SubSeq(a, first, Len(a))) = IF first <= Len(a) THEN Len(a) - first + 1 ELSE 0
        /\ \A k \in 1 .. Len(a) - first + 1 : SubSeq(a, first, Len(a))[k] = a[first + k - 1]
    BY <1>5, <1>8, <2>1, SubSeqProperties
  <2>3. n - first + 1 = IF first <= n THEN n - first + 1 ELSE 0
    BY <1>2, <1>7
  <2> QED BY <1>3, <1>5, <2>2, <2>3
<1>10. \A k \in 1 .. Len(rows') : first + k - 1 \in first .. n /\ first + k - 1 \in 1 .. n /\ rows'[k] = a[first + k - 1]
  BY <1>2, <1>7, <1>9
<1>11. Sorted(rows')
  <2> SUFFICES ASSUME NEW k \in 1 .. Len(rows'), NEW l \in 1 .. Len(rows'), k < l PROVE rows'[k] < rows'[l]
    BY DEF Sorted
  <2>1. first + k - 1 < first + l - 1
    BY <1>7
  <2> QED BY <1>2, <1>10, <2>1
<1>12. \A k \in 1 .. n : a[k] \in Newest <=> k >= first
  <2> TAKE k \in 1 .. n
  <2>1. a[k] \in T /\ Rank(T, a[k]) = k - 1
    BY <1>2
  <2>2. Cardinality({u \in T : u > a[k]}) = n - (k - 1) - 1
    BY <1>1, <2>1, LaterThan
  <2>3. a[k] \in Newest <=> n - k < DailyLimit
    BY <1>2, <1>4, <2>1, <2>2
  <2> QED BY <1>7, <2>3
<1>13. \A t \in ToSet(rows') : t \in Newest
  <2>1. \A k \in 1 .. Len(rows') : rows'[k] \in Newest
    BY <1>7, <1>10, <1>12
  <2> QED BY <1>9, <2>1 DEF ToSet
<1>14. ASSUME NEW t \in Newest PROVE t \in ToSet(rows')
  <2>1. PICK k \in 1 .. n : a[k] = t
    BY <1>2, <1>4
  <2>2. k >= first
    BY <1>12, <2>1
  <2> DEFINE j == k - first + 1
  <2>3. j \in 1 .. n - first + 1 /\ first + j - 1 = k
    BY <1>2, <1>7, <2>2
  <2> HIDE DEF j
  <2>4. j \in 1 .. Len(rows') /\ rows'[j] = t
    BY <1>9, <2>1, <2>3
  <2> QED BY <1>9, <2>4 DEF ToSet
<1>15. ToSet(rows') = Newest'
  <2>1. ToSet(rows') \subseteq Newest
    BY <1>13
  <2>2. Newest \subseteq ToSet(rows')
    BY <1>14
  <2> QED BY <1>4, <2>1, <2>2
<1>16. rows' \in Seq(DOMAIN history')
  BY <1>3, <1>9 DEF T
<1> QED BY <1>3, <1>11, <1>15, <1>16 DEF DownloadInv

LEMMA FetchKeeps == ASSUME DownloadInv, FetchPage \/ RequestFails PROVE DownloadInv'
<1>0. End \in Int /\ Interval \in Nat /\ cursor \in Int
  BY PagingAssumption DEF DownloadInv
<1>1. CASE FetchKlinesBinance1 \/ FetchKlinesBinance6 \/ FetchKlinesBinanceK
  <2>1. pc = "fetch" /\ script # "3" /\ Receive(Page(cursor, End), PastTheLastBar(Page(cursor, End)), FALSE)
    BY <1>1 DEF FetchKlinesBinance1, FetchKlinesBinance6, FetchKlinesBinanceK, Fetching
  <2> QED BY <2>1, IntervalLoopKeeps
<1>2. CASE FetchKlines2
  <2> DEFINE to == End + Interval
  <2>1. /\ pc = "fetch" /\ script # "3" /\ to \in Int /\ to >= End
        /\ Receive(Page(cursor, to), Last(Page(cursor, to)) + 1, Len(Page(cursor, to)) < Limit)
    BY <1>0, <1>2 DEF FetchKlines2, Fetching
  <2> HIDE DEF to
  <2> QED BY <2>1, MillisecondLoopKeeps
<1>3. CASE Fetch1hKlines
  <2> DEFINE page == Page(cursor, End)
             stands == Last(page) <= cursor
  <2>1. /\ pc = "fetch" /\ script # "3" /\ End >= End
        /\ Receive(page, Last(page) + 1, stands)
    BY <1>0, <1>3 DEF Fetch1hKlines, Fetching
  <2>2. IsPage(page, cursor, End) /\ DOMAIN history \subseteq Int
    BY <1>0, HistoryShape, PageShape
  <2>3. stands => page = <<>> \/ Len(page) < Limit
    BY <1>0, <2>2, StandsMeansShort
  <2> HIDE DEF stands
  <2> QED BY <1>0, <2>1, <2>3, MillisecondLoopKeeps
<1>4. CASE FetchKlines5
  <2>1. /\ pc = "fetch" /\ script # "3" /\ End >= End
        /\ Receive(Page(cursor, End), Last(Page(cursor, End)) + 1, Len(Page(cursor, End)) < Limit)
    BY <1>0, <1>4 DEF FetchKlines5, Fetching
  <2> QED BY <1>0, <2>1, MillisecondLoopKeeps
<1>5. CASE FetchBtcDaily
  BY <1>5, DailyKeeps DEF FetchBtcDaily, Fetching
<1>6. CASE RequestFails
  BY <1>6 DEF RequestFails, DownloadInv, Newest, Wanted
<1> QED BY <1>1, <1>2, <1>3, <1>4, <1>5, <1>6 DEF FetchPage

\* The steps of the backtests leave the download as it is.
LEMMA LaterStepKeepsDownload ==
    ASSUME DownloadInv, pc \notin {"fetch", "failed"}, pc' \notin {"fetch", "failed"},
           UNCHANGED <<script, history, cursor, rows>>
    PROVE  DownloadInv'
BY DEF DownloadInv, Wanted, Newest

LEMMA StepKeepsDownload == ASSUME DownloadInv, [Next]_vars PROVE DownloadInv'
<1>1. CASE UNCHANGED vars
  BY <1>1 DEF vars, DownloadInv, Wanted, Newest
<1>2. CASE RequestOne
  BY <1>2, FetchKeeps DEF RequestOne
<1>3. ASSUME Next, ~RequestOne
      PROVE  /\ pc \notin {"fetch", "failed"} /\ pc' \notin {"fetch", "failed"}
             /\ UNCHANGED <<script, history, cursor, rows>>
  <2>1. CASE BuildFrame
    BY <2>1 DEF BuildFrame
  <2>2. CASE NextFold
    BY <2>2 DEF NextFold, replayed
  <2>3. CASE BacktestSymbol1 \/ BacktestSymbolK \/ BacktestFold
    BY <2>3 DEF BacktestSymbol1, BacktestSymbolK, BacktestFold, Window, replayed
  <2>4. CASE SimulateTrade1 \/ SimulateTradeK \/ SimulateTrade6
    BY <2>4 DEF SimulateTrade1, SimulateTradeK, SimulateTrade6, Scan, replayed
  <2>5. CASE AddSignals
    BY <2>5 DEF AddSignals
  <2>6. CASE RunBacktest
    BY <2>6 DEF RunBacktest, replayed
  <2>7. CASE ScanForward
    BY <2>7 DEF ScanForward, replayed
  <2>8. CASE NextPair
    BY <2>8 DEF NextPair, replayed
  <2>9. CASE Evaluate \/ AnalyseAgreement
    BY <2>9 DEF Evaluate, AnalyseAgreement, Sample, replayed
  <2>10. CASE ContrarianStrategy
    BY <2>10 DEF ContrarianStrategy, replayed
  <2> QED BY <1>3, <2>1, <2>2, <2>3, <2>4, <2>5, <2>6, <2>7, <2>8, <2>9, <2>10 DEF Next
<1> QED BY <1>1, <1>2, <1>3, LaterStepKeepsDownload

LEMMA DownloadInvHolds == Spec => []DownloadInv
<1>1. Init => DownloadInv
  <2> SUFFICES ASSUME Init PROVE DownloadInv
    OBVIOUS
  <2>1. script \in Scripts /\ history \in Histories[script] /\ cursor = Start /\ rows = <<>> /\ pc = "fetch"
    BY DEF Init, DownloadInit
  <2>2. rows \in Seq(DOMAIN history) /\ Len(rows) = 0 /\ ToSet(rows) = {}
    BY <2>1 DEF ToSet
  <2>3. Sorted(rows)
    BY <2>2 DEF Sorted
  <2>4. \A t \in DOMAIN history : t \in Int
    BY <2>1, HistoryAssumption
  <2> QED BY <2>1, <2>2, <2>3, <2>4, PagingAssumption DEF DownloadInv
<1>2. DownloadInv /\ [Next]_vars => DownloadInv'
  BY StepKeepsDownload
<1> QED BY <1>1, <1>2, PTL DEF Spec

\* A finished download has every bar of its period, once and in order, whatever the
\* page size, the interval and the gaps of the exchange's history.
THEOREM DownloadCompleteHolds == Spec => []DownloadComplete
<1>1. DownloadInv => DownloadComplete
  <2> SUFFICES ASSUME DownloadInv, pc \notin {"fetch", "failed"} PROVE DownloadComplete
    BY DEF DownloadComplete
  <2>1. \A k \in 1 .. Len(rows) - 1 : rows[k] < rows[k + 1]
    <3>1. Len(rows) \in Nat /\ Sorted(rows)
      BY DEF DownloadInv
    <3> QED BY <3>1 DEF Sorted
  <2> QED BY <2>1 DEF DownloadComplete, DownloadInv, Wanted, Newest
<1> QED BY <1>1, DownloadInvHolds, PTL

-----------------------------------------------------------------------------
(* Quotients.                                                              *)

LEMMA QuotientBounds ==
    ASSUME NEW a \in Int, NEW b \in Nat \ {0}
    PROVE  a \div b \in Int /\ b * (a \div b) <= a /\ a < b * (a \div b) + b
OBVIOUS

LEMMA TimesMonotone ==
    ASSUME NEW a \in Nat, NEW x \in Int, NEW y \in Int, x <= y
    PROVE  a * x \in Int /\ a * y \in Int /\ a * x <= a * y
OBVIOUS

LEMMA TimesCancel ==
    ASSUME NEW a \in Nat \ {0}, NEW x \in Int, NEW y \in Int, a * x < a * y
    PROVE  x < y
<1>1. CASE y <= x
  <2>1. a * y <= a * x /\ a * x \in Int /\ a * y \in Int
    BY <1>1, TimesMonotone
  <2> QED BY <2>1
<1> QED BY <1>1

LEMMA ExactQuotient ==
    ASSUME NEW a \in Int, NEW b \in Nat \ {0}, a % b = 0
    PROVE  a = b * (a \div b)
OBVIOUS

LEMMA NegatedQuotient ==
    ASSUME NEW a \in Int, NEW b \in Nat \ {0}, a % b = 0
    PROVE  -a = b * ((-a) \div b)
<1> DEFINE q == a \div b
           r == (-a) \div b
<1>1. q \in Int /\ r \in Int /\ a = b * q /\ -a \in Int
  BY QuotientBounds, ExactQuotient
<1>2. b * r <= -a /\ -a < b * r + b
  BY <1>1, QuotientBounds
<1> HIDE DEF q, r
<1>3. -a = b * (-q) /\ b * r + b = b * (r + 1)
  BY <1>1
<1>4. -q < r + 1
  BY <1>1, <1>2, <1>3, TimesCancel
<1>5. ~(-q < r)
  <2>1. SUFFICES ASSUME -q < r PROVE FALSE
    OBVIOUS
  <2>2. -q + 1 <= r
    BY <1>1, <2>1
  <2>3. b * (-q + 1) <= b * r
    BY <1>1, <2>2, TimesMonotone
  <2>4. b * (-q + 1) = b * (-q) + b
    BY <1>1
  <2>5. b * r <= b * (-q) /\ b * (-q) \in Int /\ b * r \in Int
    BY <1>1, <1>2, <1>3
  <2> QED BY <2>3, <2>4, <2>5
<1>6. r = -q
  BY <1>1, <1>4, <1>5
<1> QED BY <1>3, <1>6 DEF r

\* A share of at most all of n is at most n.
LEMMA ShareBound ==
    ASSUME NEW n \in Nat, NEW d \in Nat \ {0}, NEW x \in Nat, x <= d
    PROVE  (x * n) \div d \in Nat /\ (x * n) \div d <= n
<1> DEFINE q == (x * n) \div d
<1>1. x * n \in Nat /\ n * x <= n * d /\ n * x = x * n /\ n * d = d * n /\ n * d \in Int
  BY TimesMonotone
<1>2. q \in Int /\ d * q <= x * n /\ x * n < d * q + d
  BY <1>1, QuotientBounds
<1> HIDE DEF q
<1>3. ~(q < 0)
  <2>1. SUFFICES ASSUME q <= -1 PROVE FALSE
    BY <1>2
  <2>2. d * q <= d * (-1) /\ d * (-1) = -d
    BY <1>2, <2>1, TimesMonotone
  <2> QED BY <1>1, <1>2, <2>2
<1>4. ~(n < q)
  <2>1. SUFFICES ASSUME n + 1 <= q PROVE FALSE
    BY <1>2
  <2>2. d * (n + 1) <= d * q /\ d * (n + 1) = d * n + d /\ d * q \in Int
    BY <1>2, <2>1, TimesMonotone
  <2> QED BY <1>1, <1>2, <2>2
<1> QED BY <1>2, <1>3, <1>4 DEF q

\* No share of a natural number is negative.
LEMMA ShareType ==
    ASSUME NEW n \in Nat, NEW d \in Nat \ {0}, NEW x \in Nat
    PROVE  (x * n) \div d \in Nat
<1> DEFINE q == (x * n) \div d
<1>1. x * n \in Nat
  OBVIOUS
<1>2. q \in Int /\ x * n < d * q + d
  BY <1>1, QuotientBounds
<1> HIDE DEF q
<1>3. ~(q < 0)
  <2>1. SUFFICES ASSUME q <= -1 PROVE FALSE
    BY <1>2
  <2>2. d * q <= d * (-1) /\ d * (-1) = -d /\ d * q \in Int
    BY <1>2, <2>1, TimesMonotone
  <2> QED BY <1>1, <1>2, <2>2
<1> QED BY <1>2, <1>3 DEF q

\* A trade closed at a bar that touched neither level loses less than the stop and
\* gains less than the target.
LEMMA ReturnBetween ==
    ASSUME NEW t, NEW e \in Nat \ {0}, t.entry = e, NEW b \in Bars,
           NEW sl \in 1 .. Den - 1, NEW tp \in 1 .. Den - 1,
           ((b.close - e) * Den) % e = 0,
           ~HitsStop(t, sl, b), ~HitsTarget(t, tp, b)
    PROVE  Return(t, b.close) \in Int /\ -sl < Return(t, b.close) /\ Return(t, b.close) < tp
<1> DEFINE c == b.close
           X == (c - e) * Den
<1>1. /\ Den \in Nat \ {0} /\ b.low \in Nat /\ b.high \in Nat /\ c \in Nat
      /\ b.low <= c /\ c <= b.high /\ sl \in Int /\ tp \in Int
  BY BacktestAssumption DEF Bars
<1>2. /\ Den * b.low <= Den * c /\ Den * c <= Den * b.high
      /\ Den * c \in Int /\ Den * b.low \in Int /\ Den * b.high \in Int
  BY <1>1, TimesMonotone
<1>3. X = Den * c - e * Den /\ X \in Int /\ X % e = 0 /\ (e - c) * Den = -X /\ e * Den \in Int
  BY <1>1
<1>4. b.low * Den = Den * b.low /\ b.high * Den = Den * b.high
  BY <1>1
<1>5. /\ e * (Den - sl) = e * Den - e * sl /\ e * (Den + sl) = e * Den + e * sl /\ e * sl \in Int
      /\ e * (Den - tp) = e * Den - e * tp /\ e * (Den + tp) = e * Den + e * tp /\ e * tp \in Int
      /\ e * (-sl) = -(e * sl)
  BY <1>1
<1>6. CASE t.side = "long"
  <2> DEFINE q == X \div e
  <2>1. ~(b.low * Den <= e * (Den - sl)) /\ ~(b.high * Den >= e * (Den + tp))
    BY <1>6 DEF HitsStop, HitsTarget
  <2> HIDE DEF X, c
  <2>2. -(e * sl) < X /\ X < e * tp
    BY <1>2, <1>3, <1>4, <1>5, <2>1
  <2>3. X = e * q /\ q \in Int
    BY <1>3, ExactQuotient, QuotientBounds
  <2> HIDE DEF q
  <2>4. e * (-sl) < e * q /\ e * q < e * tp
    BY <1>5, <2>2, <2>3
  <2>5. -sl < q /\ q < tp
    BY <1>1, <2>3, <2>4, TimesCancel
  <2>6. Return(t, b.close) = q
    BY <1>6 DEF Return, q, X, c
  <2> QED BY <2>3, <2>5, <2>6
<1>7. CASE t.side # "long"
  <2> DEFINE Y == (e - c) * Den
             q == Y \div e
  <2>1. ~(b.high * Den >= e * (Den + sl)) /\ ~(b.low * Den <= e * (Den - tp))
    BY <1>7 DEF HitsStop, HitsTarget
  <2>a. Y = -X /\ Y \in Int
    BY <1>3
  <2>b. -X = e * ((-X) \div e)
    BY <1>3, NegatedQuotient
  <2>3. Y = e * q /\ q \in Int
    BY <2>a, <2>b, QuotientBounds
  <2>6. Return(t, b.close) = q
    BY <1>7 DEF Return
  <2> HIDE DEF X, c, Y
  <2>2. -(e * sl) < Y /\ Y < e * tp
    BY <1>2, <1>3, <1>4, <1>5, <2>1, <2>a
  <2> HIDE DEF q
  <2>4. e * (-sl) < e * q /\ e * q < e * tp
    BY <1>5, <2>2, <2>3
  <2>5. -sl < q /\ q < tp
    BY <1>1, <2>3, <2>4, TimesCancel
  <2> QED BY <2>3, <2>5, <2>6
<1> QED BY <1>6, <1>7

-----------------------------------------------------------------------------
(* The replays: what EndsAtFirstTouch and TestAfterTraining need to be     *)
(* inductive.                                                              *)

Walks == script \in {"1", "6", "kronos"}
LastPart == IF script = "6" THEN Len(Folds) ELSE 1
SlOf(f) == IF script = "5" THEN Grid[f][1] ELSE SlPct
TpOf(f) == IF script = "5" THEN Grid[f][2] ELSE TpPct
Fresh == frame = <<>> /\ i = 0 /\ trade = NoTrade /\ results = <<>> /\ fold = 0

\* Which phases a script goes through, and what it holds in each.
PhaseInv ==
    /\ pc \in {"fetch", "fetched", "failed", "fold", "window", "trade", "signals",
               "entry", "follow", "measure", "sample", "done"}
    /\ i \in Nat /\ fold \in Nat
    /\ pc \in {"fetch", "fetched", "failed"} => Fresh
    /\ pc \in {"fold", "window", "trade"} => Walks
    /\ pc \in {"signals", "entry", "follow", "measure"} => script = "5"
    /\ pc = "sample" => ~Replayed
    /\ pc = "signals" => results = <<>>
    /\ pc = "fold" => fold <= LastPart
    /\ pc \in {"window", "trade"} => fold \in 1 .. LastPart
    /\ pc \in {"entry", "follow", "measure"} => fold \in 1 .. Len(Grid)
    /\ trade # NoTrade <=> pc \in {"trade", "follow"}

FrameInv ==
    /\ frame \in Seq(Bars) /\ Len(frame) <= Len(rows)
    /\ frame # <<>> => Len(frame) = Cardinality(ToSet(rows))
    /\ \A m, n \in DOMAIN frame : ((frame[m].close - frame[n].close) * Den) % frame[n].close = 0

\* Script 6 begins each fold's test a window after its training ends.
PlaceInv ==
    (script = "6" /\ pc \in {"window", "trade"}) => i - SeqLen >= FoldBounds(fold)[1]

FirstBar(at) == IF script = "5" THEN at + 1 ELSE at

Untouched(f, side, entry, j) ==
    LET t == [side |-> side, entry |-> entry]
    IN  ~HitsStop(t, SlOf(f), Bar(j)) /\ ~HitsTarget(t, TpOf(f), Bar(j))

\* The trade that is followed has not been ended by any bar before the one the loop
\* is at, and its last bar is in the frame and in the fold.
TradeInv ==
    trade # NoTrade =>
        /\ trade = [side |-> trade.side, entry |-> Bar(i).close, at |-> i,
                    k |-> trade.k, last |-> trade.last]
        /\ trade.side # "none" /\ i + 1 \in DOMAIN frame
        /\ trade.k \in Nat /\ trade.last \in Nat
        /\ FirstBar(i) <= trade.k /\ trade.k <= trade.last + 1
        /\ FirstBar(i) <= trade.last /\ trade.last < Len(frame)
        /\ \A j \in FirstBar(i) .. trade.k - 1 : Untouched(fold, trade.side, Bar(i).close, j)

GoodResult(f, r) ==
    /\ r.at \in Nat /\ r.exit \in Nat
    /\ \A j \in FirstBar(r.at) .. r.exit - 1 : Untouched(f, r.side, Bar(r.at).close, j)
    /\ LET t == [side |-> r.side, entry |-> Bar(r.at).close]
       IN  CASE r.outcome = "sl" -> HitsStop(t, SlOf(f), Bar(r.exit)) /\ r.pnl = -SlOf(f)
             [] r.outcome = "tp" -> ~HitsStop(t, SlOf(f), Bar(r.exit)) /\ r.pnl = TpOf(f)
             [] OTHER -> -SlOf(f) < r.pnl /\ r.pnl < TpOf(f)
    /\ script = "6" =>
           /\ r.at - SeqLen >= (Folds[r.fold][2] * Len(frame)) \div Days
           /\ r.fold \in 1 .. Len(Folds) /\ r.at \in 0 .. Len(frame) - 1

ResultInv ==
    /\ results \in Seq(ToSet(results))
    /\ Replayed => \A n \in DOMAIN results : GoodResult(fold, results[n])

ReplayInv == PhaseInv /\ FrameInv /\ PlaceInv /\ TradeInv /\ ResultInv

LEMMA AppendShape ==
    ASSUME NEW s, s \in Seq(ToSet(s)), NEW e
    PROVE  /\ Append(s, e) \in Seq(ToSet(Append(s, e)))
           /\ \A n \in DOMAIN Append(s, e) : (n \in DOMAIN s /\ Append(s, e)[n] = s[n]) \/ Append(s, e)[n] = e
<1> DEFINE S == ToSet(s) \cup {e}
           a == Append(s, e)
<1>1. s \in Seq(S) /\ e \in S
  OBVIOUS
<1>2. /\ a \in Seq(S) /\ Len(a) = Len(s) + 1 /\ Len(s) \in Nat
      /\ \A k \in 1 .. Len(s) : a[k] = s[k]
      /\ a[Len(s) + 1] = e
  BY <1>1, AppendProperties
<1> HIDE DEF a
<1>3. DOMAIN a = 1 .. Len(s) + 1 /\ DOMAIN s = 1 .. Len(s)
  BY <1>1, <1>2
<1>4. \A n \in DOMAIN a : (n \in DOMAIN s /\ a[n] = s[n]) \/ a[n] = e
  BY <1>2, <1>3
<1>5. S \subseteq ToSet(a)
  <2>1. \A k \in DOMAIN s : s[k] \in ToSet(a)
    BY <1>2, <1>3 DEF ToSet
  <2>2. e \in ToSet(a)
    BY <1>2, <1>3 DEF ToSet
  <2> QED BY <2>1, <2>2 DEF ToSet
<1>6. a \in Seq(ToSet(a))
  BY <1>2, <1>5
<1> QED BY <1>4, <1>6 DEF a

LEMMA BoundsShape ==
    ASSUME NEW f \in 1 .. LastPart, Len(frame) \in Nat
    PROVE  FoldBounds(f)[1] \in Nat /\ FoldBounds(f)[2] \in Nat /\ FoldBounds(f)[2] <= Len(frame)
<1>1. CASE script = "6"
  <2>1. Folds[f] \in Nat \X Nat \X (0 .. Days)
    BY <1>1, BacktestAssumption DEF LastPart
  <2>a. Days \in Nat \ {0}
    BY BacktestAssumption
  <2>b. Folds[f][2] \in Nat /\ Folds[f][3] \in 0 .. Days
    BY <2>1
  <2>2. Days \in Nat \ {0} /\ Folds[f][2] \in Nat /\ Folds[f][3] \in Nat /\ Folds[f][3] <= Days
    BY <2>a, <2>b
  <2>3. /\ (Folds[f][2] * Len(frame)) \div Days \in Nat
        /\ (Folds[f][3] * Len(frame)) \div Days \in Nat
        /\ (Folds[f][3] * Len(frame)) \div Days <= Len(frame)
    BY <2>2, ShareType, ShareBound
  <2> QED BY <1>1, <2>3 DEF FoldBounds
<1>2. CASE script # "6"
  BY <1>2 DEF FoldBounds
<1> QED BY <1>1, <1>2

LEMMA LevelsShape ==
    ASSUME NEW f, script = "5" => f \in 1 .. Len(Grid)
    PROVE  SlOf(f) \in 1 .. Den - 1 /\ TpOf(f) \in 1 .. Den - 1
<1>1. CASE script = "5"
  <2>a. Grid \in Seq((1 .. Den - 1) \X (1 .. Den - 1)) /\ f \in 1 .. Len(Grid)
    BY <1>1, BacktestAssumption
  <2> DEFINE L == (1 .. Den - 1) \X (1 .. Den - 1)
  <2> HIDE DEF L
  <2>b. Grid \in Seq(L)
    BY <2>a DEF L
  <2>c. Grid[f] \in L
    BY <2>a, <2>b
  <2>1. Grid[f] \in (1 .. Den - 1) \X (1 .. Den - 1)
    BY <2>c DEF L
  <2>2. Grid[f][1] \in 1 .. Den - 1 /\ Grid[f][2] \in 1 .. Den - 1
    BY <2>1
  <2> QED BY <1>1, <2>2 DEF SlOf, TpOf
<1>2. CASE script # "5"
  BY <1>2, BacktestAssumption DEF SlOf, TpOf
<1> QED BY <1>1, <1>2

\* Results stay good when the frame stands and the levels are the same.
LEMMA GoodStays ==
    ASSUME NEW f, NEW g, NEW r, GoodResult(f, r), UNCHANGED <<frame, script>>,
           script = "5" => f = g
    PROVE  GoodResult(g, r)'
<1>1. SlOf(g)' = SlOf(f) /\ TpOf(g)' = TpOf(f)
  BY DEF SlOf, TpOf
<1> QED BY <1>1 DEF GoodResult, Untouched, HitsStop, HitsTarget, Bar, FirstBar

LEMMA ResultsStay ==
    ASSUME ResultInv, UNCHANGED <<frame, script, results>>, script = "5" => fold' = fold \/ results = <<>>
    PROVE  ResultInv'
<1>1. results' \in Seq(ToSet(results')) /\ Replayed' = Replayed
  BY DEF ResultInv, Replayed
<1>2. ASSUME Replayed', NEW n \in DOMAIN results' PROVE GoodResult(fold, results[n])'
  <2> DEFINE r == results[n]
  <2>1. GoodResult(fold, r) /\ n \in DOMAIN results
    BY <1>1, <1>2 DEF ResultInv
  <2>2. results # <<>>
    BY <1>1, <2>1
  <2>3. script = "5" => fold = fold'
    BY <2>2
  <2>4. \A g, q : (g = fold' /\ q = r) => GoodResult(g, q)'
    BY <2>1, <2>3, GoodStays
  <2> QED BY <2>4
<1> QED BY <1>1, <1>2 DEF ResultInv

LEMMA EmptyFrame ==
    ASSUME frame = <<>>, results = <<>>, trade = NoTrade, Len(rows) \in Nat,
           pc \in {"fetch", "fetched", "failed"}
    PROVE  FrameInv /\ PlaceInv /\ TradeInv /\ ResultInv
<1>1. Len(<<>>) = 0 /\ DOMAIN frame = {} /\ DOMAIN results = {} /\ frame \in Seq(Bars)
      /\ results \in Seq(ToSet(results))
  OBVIOUS
<1>2. FrameInv
  BY <1>1 DEF FrameInv
<1>3. PlaceInv /\ TradeInv
  BY DEF PlaceInv, TradeInv
<1>4. ResultInv
  BY <1>1 DEF ResultInv
<1> QED BY <1>2, <1>3, <1>4

LEMMA ReplayInit == ASSUME Init PROVE ReplayInv
<1>1. /\ frame = <<>> /\ results = <<>> /\ trade = NoTrade /\ rows = <<>> /\ pc = "fetch"
      /\ i = 0 /\ fold = 0
  BY DEF Init, DownloadInit
<1>2. Len(rows) \in Nat
  BY <1>1
<1>3. FrameInv /\ PlaceInv /\ TradeInv /\ ResultInv
  BY <1>1, <1>2, EmptyFrame
<1>4. PhaseInv
  BY <1>1 DEF PhaseInv, Fresh
<1> QED BY <1>3, <1>4 DEF ReplayInv

LEMMA RequestKeeps == ASSUME ReplayInv, DownloadInv', RequestOne PROVE ReplayInv'
<1>1. /\ pc = "fetch" /\ pc' \in {"fetch", "fetched", "failed"}
      /\ UNCHANGED <<frame, i, trade, results, fold, metrics, signals>>
  <2>1. CASE FetchPage
    BY <2>1 DEF RequestOne, FetchPage, Fetching, Receive, FetchKlinesBinance1, FetchKlinesBinance6,
               FetchKlinesBinanceK, FetchKlines2, Fetch1hKlines, FetchKlines5, FetchBtcDaily
  <2>2. CASE RequestFails
    BY <2>2 DEF RequestOne, RequestFails
  <2> QED BY <2>1, <2>2 DEF RequestOne
<1>2. Fresh /\ PhaseInv
  BY <1>1 DEF ReplayInv, PhaseInv
<1>3. /\ frame' = <<>> /\ results' = <<>> /\ trade' = NoTrade' /\ i' = 0 /\ fold' = 0 /\ Len(rows') \in Nat
  BY <1>1, <1>2 DEF Fresh, DownloadInv, NoTrade
<1>4. (FrameInv /\ PlaceInv /\ TradeInv /\ ResultInv)'
  <2>1. Len(<<>>) = 0 /\ DOMAIN frame' = {} /\ DOMAIN results' = {} /\ frame' \in Seq(Bars)
        /\ results' \in Seq(ToSet(results'))
    BY <1>3
  <2>2. FrameInv'
    BY <1>3, <2>1 DEF FrameInv
  <2>3. PlaceInv' /\ TradeInv'
    BY <1>1, <1>3 DEF PlaceInv, TradeInv
  <2>4. ResultInv'
    BY <2>1 DEF ResultInv
  <2> QED BY <2>2, <2>3, <2>4
<1>5. PhaseInv'
  BY <1>1, <1>3 DEF PhaseInv, Fresh
<1> QED BY <1>4, <1>5 DEF ReplayInv

\* A sequence has no more elements than places.
LEMMA ToSetSize ==
    ASSUME NEW S, NEW s \in Seq(S)
    PROVE  IsFiniteSet(ToSet(s)) /\ Cardinality(ToSet(s)) <= Len(s) /\ ToSet(s) \subseteq S
<1>1. Len(s) \in Nat /\ DOMAIN s = 1 .. Len(s) /\ \A k \in 1 .. Len(s) : s[k] \in S
  OBVIOUS
<1>2. s \in Surjection(1 .. Len(s), ToSet(s))
  <2>1. s \in [1 .. Len(s) -> ToSet(s)]
    BY <1>1 DEF ToSet
  <2>2. \A x \in ToSet(s) : \E k \in 1 .. Len(s) : s[k] = x
    BY <1>1 DEF ToSet
  <2> QED BY <2>1, <2>2 DEF Surjection
<1>3. IsFiniteSet(1 .. Len(s)) /\ Cardinality(1 .. Len(s)) = Len(s)
  <2>1. \A n \in Nat : IsFiniteSet(1 .. n) /\ Cardinality(1 .. n) = n
    BY FS_Interval
  <2> QED BY <1>1, <2>1
<1>4. IsFiniteSet(ToSet(s)) /\ Cardinality(ToSet(s)) <= Cardinality(1 .. Len(s))
  BY <1>2, <1>3, FS_Surjection
<1> QED BY <1>1, <1>3, <1>4 DEF ToSet

LEMMA BuildKeeps == ASSUME DownloadInv, ReplayInv, BuildFrame PROVE ReplayInv'
<1> DEFINE T == ToSet(rows)
           times == Ascending(T)
           n == Cardinality(T)
<1>1. /\ pc = "fetched" /\ frame' = [m \in 1 .. Len(times) |-> history[times[m]]]
      /\ pc' = (CASE script \in {"1", "6", "kronos"} -> "fold"
                  [] script = "5" -> "signals"
                  [] OTHER -> "sample")
      /\ UNCHANGED <<script, history, rows, i, trade, results, fold>>
  BY DEF BuildFrame
<1>2. Fresh /\ PhaseInv
  BY <1>1 DEF ReplayInv, PhaseInv
<1>3. /\ IsFiniteSet(T) /\ Cardinality(T) <= Len(rows) /\ T \subseteq DOMAIN history
      /\ rows \in Seq(DOMAIN history) /\ DOMAIN history \subseteq Int
  <2>1. rows \in Seq(DOMAIN history) /\ DOMAIN history \subseteq Int
    BY HistoryShape DEF DownloadInv
  <2> QED BY <2>1, ToSetSize
<1>4. times \in [1 .. n -> T] /\ n \in Nat
  <2>1. T \in SUBSET Int
    BY <1>3
  <2> QED BY <1>3, <2>1, AscendingShape
<1>5. \A t \in DOMAIN history : history[t] \in Bars
  BY PriceAssumption DEF DownloadInv
<1>6. \A t, u \in DOMAIN history : ((history[u].close - history[t].close) * Den) % history[t].close = 0
  BY PriceAssumption DEF DownloadInv
<1> HIDE DEF times, n, T
<1>7. Len(times) = n
  BY <1>4
<1>8. /\ frame' = [m \in 1 .. n |-> history[times[m]]]
      /\ \A m \in 1 .. n : times[m] \in DOMAIN history
  BY <1>1, <1>3, <1>4, <1>7
<1>9. /\ DOMAIN frame' = 1 .. n /\ \A m \in 1 .. n : frame'[m] = history[times[m]]
      /\ frame' \in [1 .. n -> Bars]
  BY <1>5, <1>8
<1>10. frame' \in Seq(Bars) /\ Len(frame') = n
  BY <1>4, <1>9
<1>11. FrameInv'
  <2>1. ASSUME NEW m \in DOMAIN frame', NEW l \in DOMAIN frame'
        PROVE  ((frame'[m].close - frame'[l].close) * Den) % frame'[l].close = 0
    <3>1. times[m] \in DOMAIN history /\ times[l] \in DOMAIN history
          /\ frame'[m] = history[times[m]] /\ frame'[l] = history[times[l]]
      BY <1>8, <1>9
    <3> QED BY <1>6, <3>1
  <2>2. Len(frame') <= Len(rows')
    BY <1>1, <1>3, <1>10 DEF n
  <2>3. Len(frame') = Cardinality(ToSet(rows'))
    BY <1>1, <1>10 DEF n, T
  <2> QED BY <1>10, <2>1, <2>2, <2>3 DEF FrameInv
<1>12. i' = 0 /\ trade' = NoTrade' /\ results' = <<>> /\ fold' = 0
  BY <1>1, <1>2 DEF Fresh, NoTrade
<1>13. PlaceInv' /\ TradeInv'
  BY <1>1, <1>12 DEF PlaceInv, TradeInv
<1>14. ResultInv'
  BY <1>12 DEF ResultInv
<1>15. PhaseInv'
  <2>1. LastPart' \in Nat
    BY BacktestAssumption DEF LastPart
  <2>2. CASE script \in {"1", "6", "kronos"}
    BY <1>1, <1>12, <2>1, <2>2 DEF PhaseInv, Fresh, Walks
  <2>3. CASE script \notin {"1", "6", "kronos"} /\ script = "5"
    BY <1>1, <1>12, <2>3 DEF PhaseInv, Fresh, Walks
  <2>4. CASE script \notin {"1", "6", "kronos"} /\ script # "5"
    BY <1>1, <1>12, <2>4 DEF PhaseInv, Fresh, Replayed
  <2> QED BY <2>2, <2>3, <2>4
<1> QED BY <1>11, <1>13, <1>14, <1>15 DEF ReplayInv

LEMMA NextFoldKeeps == ASSUME ReplayInv, NextFold PROVE ReplayInv'
<1>1. /\ pc = "fold" /\ fold' = fold + 1
      /\ IF fold = LastPart THEN pc' = "done" /\ UNCHANGED i
                            ELSE pc' = "window" /\ i' = FoldBounds(fold + 1)[1] + SeqLen
      /\ UNCHANGED <<script, rows, frame, trade, results>>
  BY DEF NextFold, LastPart, replayed
<1>2. /\ i \in Nat /\ fold \in Nat /\ fold <= LastPart /\ Walks /\ trade = NoTrade /\ LastPart \in Nat
  <2>1. LastPart \in Nat
    BY BacktestAssumption DEF LastPart
  <2> QED BY <1>1, <2>1 DEF ReplayInv, PhaseInv
<1>3. Len(frame) \in Nat /\ SeqLen \in Nat
  BY BacktestAssumption DEF ReplayInv, FrameInv
<1>4. fold # LastPart => fold' \in 1 .. LastPart
  BY <1>1, <1>2
<1>5. fold # LastPart => FoldBounds(fold + 1)[1] \in Nat
  BY <1>1, <1>3, <1>4, BoundsShape
<1>6. PhaseInv'
  <2>1. i' \in Nat /\ fold' \in Nat /\ Walks' /\ LastPart' = LastPart /\ trade' = NoTrade'
    BY <1>1, <1>2, <1>3, <1>5 DEF Walks, LastPart, NoTrade
  <2> QED BY <1>1, <1>4, <2>1 DEF PhaseInv
<1>7. FrameInv'
  BY <1>1 DEF ReplayInv, FrameInv
<1>8. PlaceInv'
  <2>1. SUFFICES ASSUME pc' = "window" PROVE i' - SeqLen >= (FoldBounds(fold)[1])'
    BY <1>1 DEF PlaceInv
  <2>2. (FoldBounds(fold)[1])' = FoldBounds(fold + 1)[1] /\ i' = FoldBounds(fold + 1)[1] + SeqLen
    BY <1>1, <2>1 DEF FoldBounds
  <2> QED BY <1>1, <1>3, <1>5, <2>1, <2>2
<1>9. TradeInv'
  BY <1>1, <1>2 DEF TradeInv, NoTrade
<1>10. ResultInv'
  BY <1>1, <1>2, ResultsStay DEF ReplayInv, Walks
<1> QED BY <1>6, <1>7, <1>8, <1>9, <1>10 DEF ReplayInv

\* A trade that has just been entered at bar i meets TradeInv.
LEMMA EnteredKeeps ==
    ASSUME FrameInv, i \in Nat, UNCHANGED <<script, frame, i>>, i + 1 \in DOMAIN frame,
           NEW side, side # "none", NEW last \in Nat,
           trade' = [side |-> side, entry |-> Bar(i).close, at |-> i, k |-> FirstBar(i), last |-> last],
           FirstBar(i) <= last, last < Len(frame)
    PROVE  TradeInv' /\ trade' # NoTrade'
<1>1. FirstBar(i) \in Nat /\ Bar(i)' = Bar(i) /\ FirstBar(i)' = FirstBar(i)
  BY DEF FirstBar, Bar
<1>2. /\ trade'.side = side /\ trade'.k = FirstBar(i) /\ trade'.last = last
      /\ trade'.at = i /\ trade'.entry = Bar(i).close
  OBVIOUS
<1>3. trade' # NoTrade'
  BY <1>2 DEF NoTrade
<1>4. \A j \in FirstBar(i) .. trade'.k - 1 : FALSE
  BY <1>1, <1>2
<1>5. /\ trade'.k \in Nat /\ trade'.last \in Nat
      /\ FirstBar(i) <= trade'.k /\ trade'.k <= trade'.last + 1
      /\ FirstBar(i) <= trade'.last /\ trade'.last < Len(frame)
  BY <1>1, <1>2
<1>6. trade' = [side |-> trade'.side, entry |-> Bar(i).close, at |-> i,
                k |-> trade'.k, last |-> trade'.last]
  BY <1>2
<1>7. TradeInv'
  <2>2. Bar(i)' = Bar(i) /\ FirstBar(i)' = FirstBar(i) /\ frame' = frame /\ i' = i
    BY <1>1
  <2>3. \A j \in FirstBar(i)' .. trade'.k - 1 : Untouched(fold, trade.side, Bar(i).close, j)'
    BY <1>1, <1>4
  <2> QED BY <1>2, <1>5, <1>6, <2>2, <2>3 DEF TradeInv
<1> QED BY <1>3, <1>7

LEMMA WindowKeeps == ASSUME ReplayInv, NEW s, Window(s) PROVE ReplayInv'
<1>1. /\ pc = "window"
      /\ IF ~MoreWindows
         THEN pc' = "fold" /\ UNCHANGED <<i, trade>>
         ELSE \/ pc' = "window" /\ i' = i + Step /\ UNCHANGED trade
              \/ /\ \E side \in {"long", "short"} :
                       trade' = [side |-> side, entry |-> Bar(i).close, at |-> i,
                                 k |-> i, last |-> i + PredLen - 1]
                 /\ pc' = "trade" /\ i' = i
      /\ UNCHANGED <<script, rows, frame, results, fold>>
  BY DEF Window, replayed
<1>2. /\ i \in Nat /\ fold \in 1 .. LastPart /\ fold \in Nat /\ Walks /\ trade = NoTrade
      /\ FrameInv /\ ResultInv /\ PlaceInv
  BY <1>1 DEF ReplayInv, PhaseInv
<1>3. Step \in Nat \ {0} /\ PredLen \in Nat \ {0} /\ SeqLen \in Nat
  BY BacktestAssumption
<1>4. Len(frame) \in Nat /\ DOMAIN frame = 1 .. Len(frame)
  BY <1>2 DEF FrameInv
<1>5. FoldBounds(fold)[1] \in Nat /\ FoldBounds(fold)[2] \in Nat /\ FoldBounds(fold)[2] <= Len(frame)
  BY <1>2, <1>4, BoundsShape
<1>6. FrameInv' /\ ResultInv'
  BY <1>1, <1>2, ResultsStay DEF FrameInv
<1>7. Walks' /\ LastPart' = LastPart /\ FoldBounds(fold)' = FoldBounds(fold) /\ NoTrade' = NoTrade
      /\ script' = script /\ fold' = fold
  BY <1>1, <1>2 DEF Walks, LastPart, FoldBounds, NoTrade
<1>8. (FoldBounds(fold)[1])' = FoldBounds(fold)[1] /\ (FoldBounds(fold)[2])' = FoldBounds(fold)[2]
  BY <1>7
<1>9. CASE ~MoreWindows
  <2>1. pc' = "fold" /\ i' = i /\ trade' = NoTrade
    BY <1>1, <1>2, <1>9
  <2>2. PhaseInv'
    BY <1>2, <1>7, <2>1 DEF PhaseInv
  <2>3. PlaceInv' /\ TradeInv'
    BY <1>7, <2>1 DEF PlaceInv, TradeInv
  <2> QED BY <1>6, <2>2, <2>3 DEF ReplayInv
<1>10. CASE pc' = "window" /\ i' = i + Step /\ trade' = trade
  <2>1. PhaseInv'
    BY <1>2, <1>3, <1>7, <1>10 DEF PhaseInv
  <2>2. TradeInv'
    BY <1>2, <1>7, <1>10 DEF TradeInv
  <2>3. PlaceInv'
    <3>1. SUFFICES ASSUME script' = "6" PROVE i' - SeqLen >= (FoldBounds(fold)[1])'
      BY DEF PlaceInv
    <3>2. i - SeqLen >= FoldBounds(fold)[1]
      BY <1>1, <1>2, <1>7, <3>1 DEF PlaceInv
    <3> QED BY <1>2, <1>3, <1>5, <1>8, <1>10, <3>2
  <2> QED BY <1>6, <2>1, <2>2, <2>3 DEF ReplayInv
<1>11. CASE MoreWindows /\ pc' = "trade" /\ i' = i
            /\ \E side \in {"long", "short"} :
                  trade' = [side |-> side, entry |-> Bar(i).close, at |-> i,
                            k |-> i, last |-> i + PredLen - 1]
  <2>1. PICK side \in {"long", "short"} :
               trade' = [side |-> side, entry |-> Bar(i).close, at |-> i,
                         k |-> i, last |-> i + PredLen - 1]
    BY <1>11
  <2> DEFINE last == i + PredLen - 1
  <2>2. i + PredLen < FoldBounds(fold)[2]
    BY <1>11 DEF MoreWindows
  <2>3. FirstBar(i) = i
    BY <1>2 DEF FirstBar, Walks
  <2>4. last \in Nat /\ FirstBar(i) <= last /\ last < Len(frame) /\ i + 1 \in DOMAIN frame
    BY <1>2, <1>3, <1>4, <1>5, <1>8, <2>2, <2>3
  <2>5. trade' = [side |-> side, entry |-> Bar(i).close, at |-> i, k |-> FirstBar(i), last |-> last]
    BY <2>1, <2>3
  <2> HIDE DEF last
  <2>6. TradeInv' /\ trade' # NoTrade'
    BY <1>1, <1>2, <1>11, <2>4, <2>5, EnteredKeeps
  <2>7. PhaseInv'
    BY <1>2, <1>7, <1>11, <2>6 DEF PhaseInv
  <2>8. PlaceInv'
    <3>1. SUFFICES ASSUME script' = "6" PROVE i' - SeqLen >= (FoldBounds(fold)[1])'
      BY DEF PlaceInv
    <3>2. i - SeqLen >= FoldBounds(fold)[1]
      BY <1>1, <1>2, <1>7, <3>1 DEF PlaceInv
    <3> QED BY <1>8, <1>11, <3>2
  <2> QED BY <1>6, <2>6, <2>7, <2>8 DEF ReplayInv
<1> QED BY <1>1, <1>9, <1>10, <1>11

LEMMA AddSignalsKeeps == ASSUME ReplayInv, AddSignals PROVE ReplayInv'
<1>1. /\ pc = "signals" /\ pc' = "entry" /\ fold' = 1
      /\ UNCHANGED <<script, rows, frame, i, trade, results>>
  BY DEF AddSignals
<1>2. i \in Nat /\ script = "5" /\ results = <<>> /\ trade = NoTrade /\ FrameInv /\ ResultInv
  BY <1>1 DEF ReplayInv, PhaseInv
<1>3. FrameInv' /\ ResultInv'
  BY <1>1, <1>2, ResultsStay DEF FrameInv
<1>4. 1 \in 1 .. Len(Grid)
  <2> DEFINE L == (1 .. Den - 1) \X (1 .. Den - 1)
  <2>1. Grid \in Seq(L) /\ Grid # <<>>
    BY BacktestAssumption
  <2> HIDE DEF L
  <2> QED BY <2>1
<1>5. PhaseInv'
  BY <1>1, <1>2, <1>4 DEF PhaseInv, NoTrade
<1>6. PlaceInv' /\ TradeInv'
  BY <1>1, <1>2 DEF PlaceInv, TradeInv, NoTrade
<1> QED BY <1>3, <1>5, <1>6 DEF ReplayInv

LEMMA RunBacktestKeeps == ASSUME ReplayInv, RunBacktest PROVE ReplayInv'
<1>1. /\ pc = "entry"
      /\ IF i >= Len(frame) - 1
         THEN pc' = "measure" /\ UNCHANGED <<i, trade>>
         ELSE IF signals[i + 1] = "none"
              THEN pc' = "entry" /\ i' = i + 1 /\ UNCHANGED trade
              ELSE /\ trade' = [side |-> signals[i + 1], entry |-> Bar(i).close, at |-> i,
                                k |-> i + 1, last |-> Len(frame) - 1]
                   /\ pc' = "follow" /\ i' = i
      /\ UNCHANGED <<script, rows, frame, results, fold>>
  BY DEF RunBacktest, replayed
<1>2. /\ i \in Nat /\ script = "5" /\ trade = NoTrade /\ FrameInv /\ ResultInv
      /\ fold \in Nat /\ fold \in 1 .. Len(Grid)
  BY <1>1 DEF ReplayInv, PhaseInv
<1>3. FrameInv' /\ ResultInv'
  BY <1>1, <1>2, ResultsStay DEF FrameInv
<1>4. Len(frame) \in Nat /\ DOMAIN frame = 1 .. Len(frame)
  BY <1>2 DEF FrameInv
<1>5. PlaceInv'
  BY <1>1, <1>2 DEF PlaceInv
<1>6. CASE pc' \in {"measure", "entry"} /\ trade' = trade /\ i' \in Nat
  <2>1. PhaseInv'
    BY <1>1, <1>2, <1>6 DEF PhaseInv, NoTrade
  <2>2. TradeInv'
    BY <1>2, <1>6 DEF TradeInv, NoTrade
  <2> QED BY <1>3, <1>5, <2>1, <2>2 DEF ReplayInv
<1>7. CASE /\ ~(i >= Len(frame) - 1) /\ signals[i + 1] # "none" /\ pc' = "follow" /\ i' = i
           /\ trade' = [side |-> signals[i + 1], entry |-> Bar(i).close, at |-> i,
                        k |-> i + 1, last |-> Len(frame) - 1]
  <2> DEFINE side == signals[i + 1]
             last == Len(frame) - 1
  <2>1. FirstBar(i) = i + 1
    BY <1>2 DEF FirstBar
  <2>2. last \in Nat /\ FirstBar(i) <= last /\ last < Len(frame) /\ i + 1 \in DOMAIN frame
    BY <1>2, <1>4, <1>7, <2>1
  <2>3. trade' = [side |-> side, entry |-> Bar(i).close, at |-> i, k |-> FirstBar(i), last |-> last]
    BY <1>7, <2>1
  <2>4. side # "none"
    BY <1>7
  <2> HIDE DEF last, side
  <2>5. TradeInv' /\ trade' # NoTrade'
    BY <1>1, <1>2, <1>7, <2>2, <2>3, <2>4, EnteredKeeps
  <2>6. PhaseInv'
    BY <1>1, <1>2, <1>7, <2>5 DEF PhaseInv
  <2> QED BY <1>3, <1>5, <2>5, <2>6 DEF ReplayInv
<1> QED BY <1>1, <1>2, <1>6, <1>7

LEMMA AppendedKeeps ==
    ASSUME ResultInv, NEW r, GoodResult(fold, r), results' = Append(results, r),
           UNCHANGED <<frame, script, fold>>
    PROVE  ResultInv'
<1>1. /\ results' \in Seq(ToSet(results'))
      /\ \A n \in DOMAIN results' : (n \in DOMAIN results /\ results'[n] = results[n]) \/ results'[n] = r
  BY AppendShape DEF ResultInv
<1>2. ASSUME Replayed', NEW n \in DOMAIN results' PROVE GoodResult(fold, results[n])'
  <2>1. Replayed
    BY <1>2 DEF Replayed
  <2> DEFINE q == results'[n]
  <2>2. GoodResult(fold, q)
    BY <1>1, <1>2, <2>1 DEF ResultInv
  <2>3. \A g, x : (g = fold /\ x = q) => GoodResult(g, x)'
    BY <2>2, GoodStays
  <2> QED BY <2>3
<1> QED BY <1>1, <1>2 DEF ResultInv

\* Where the trade stands, as the cases of the inner loop need it.
LEMMA FollowedTrade ==
    ASSUME ReplayInv, trade # NoTrade
    PROVE  /\ trade.at = i /\ trade.entry = Bar(i).close /\ trade.side # "none"
           /\ trade.k \in Nat /\ trade.last \in Nat /\ i \in Nat
           /\ trade.last < Len(frame) /\ Len(frame) \in Nat
           /\ Bar(i) \in Bars /\ \A j \in 0 .. trade.last : Bar(j) \in Bars
           /\ \A j \in 0 .. trade.last : ((Bar(j).close - Bar(i).close) * Den) % Bar(i).close = 0
           /\ Bar(i).close \in Nat \ {0}
           /\ SlOf(fold) \in 1 .. Den - 1 /\ TpOf(fold) \in 1 .. Den - 1
           /\ FirstBar(i) \in Nat
<1>1. PhaseInv /\ FrameInv /\ TradeInv
  BY DEF ReplayInv
<1>2. /\ trade = [side |-> trade.side, entry |-> Bar(i).close, at |-> i,
                  k |-> trade.k, last |-> trade.last]
      /\ trade.side # "none" /\ i + 1 \in DOMAIN frame
      /\ trade.k \in Nat /\ trade.last \in Nat /\ trade.last < Len(frame) /\ i \in Nat
  BY <1>1 DEF TradeInv, PhaseInv
<1>3. trade.at = i /\ trade.entry = Bar(i).close
  BY <1>2
<1>4. Len(frame) \in Nat /\ DOMAIN frame = 1 .. Len(frame) /\ \A m \in DOMAIN frame : frame[m] \in Bars
  BY <1>1 DEF FrameInv
<1>5. \A j \in 0 .. trade.last : j + 1 \in DOMAIN frame
  BY <1>2, <1>4
<1>6. Bar(i) \in Bars /\ \A j \in 0 .. trade.last : Bar(j) \in Bars
  BY <1>2, <1>4, <1>5 DEF Bar
<1>7. \A j \in 0 .. trade.last : ((Bar(j).close - Bar(i).close) * Den) % Bar(i).close = 0
  <2>1. \A m, n \in DOMAIN frame : ((frame[m].close - frame[n].close) * Den) % frame[n].close = 0
    BY <1>1 DEF FrameInv
  <2> QED BY <1>2, <1>5, <2>1 DEF Bar
<1>8. Bar(i).close \in Nat \ {0}
  BY <1>6 DEF Bars
<1>9. script = "5" => fold \in 1 .. Len(Grid)
  BY <1>1 DEF PhaseInv, Walks
<1>10. FirstBar(i) \in Nat
  BY <1>2 DEF FirstBar
<1> QED BY <1>2, <1>3, <1>4, <1>6, <1>7, <1>8, <1>9, <1>10, LevelsShape

\* The part of GoodResult that does not depend on how the trade ended.
LEMMA ExitPlace ==
    ASSUME ReplayInv, trade # NoTrade, NEW outcome, NEW pnl,
           NEW r, r = [fold |-> fold, at |-> trade.at, side |-> trade.side,
                       exit |-> trade.k, outcome |-> outcome, pnl |-> pnl]
    PROVE  /\ r.at \in Nat /\ r.exit \in Nat
           /\ \A j \in FirstBar(r.at) .. r.exit - 1 : Untouched(fold, r.side, Bar(r.at).close, j)
           /\ script = "6" =>
                  /\ r.at - SeqLen >= (Folds[r.fold][2] * Len(frame)) \div Days
                  /\ r.fold \in 1 .. Len(Folds) /\ r.at \in 0 .. Len(frame) - 1
<1>1. r.fold = fold /\ r.at = i /\ r.side = trade.side /\ r.exit = trade.k
  BY FollowedTrade
<1>2. \A j \in FirstBar(i) .. trade.k - 1 : Untouched(fold, trade.side, Bar(i).close, j)
  BY DEF ReplayInv, TradeInv
<1>3. ASSUME script = "6"
      PROVE  /\ i - SeqLen >= (Folds[fold][2] * Len(frame)) \div Days
             /\ fold \in 1 .. Len(Folds) /\ i \in 0 .. Len(frame) - 1
  <2>1. (Folds[fold][2] * Len(frame)) \div Days = FoldBounds(fold)[1]
    BY <1>3 DEF FoldBounds
  <2>2. i - SeqLen >= FoldBounds(fold)[1] /\ fold \in 1 .. Len(Folds)
    BY <1>3 DEF ReplayInv, PhaseInv, PlaceInv, LastPart
  <2>3. i \in 0 .. Len(frame) - 1
    <3>1. i + 1 \in DOMAIN frame /\ DOMAIN frame = 1 .. Len(frame)
      BY DEF ReplayInv, FrameInv, TradeInv
    <3> QED BY <3>1, FollowedTrade
  <2> QED BY <2>1, <2>2, <2>3
<1> QED BY <1>1, <1>2, <1>3, FollowedTrade

LEMMA TimeoutIsGood ==
    ASSUME ReplayInv, trade # NoTrade, trade.k > trade.last,
           NEW r, r = [fold |-> fold, at |-> trade.at, side |-> trade.side, exit |-> trade.k,
                       outcome |-> "timeout", pnl |-> Return(trade, Bar(trade.last).close)]
    PROVE  GoodResult(fold, r)
<1>1. trade.last \in FirstBar(i) .. trade.k - 1 /\ trade.last \in 0 .. trade.last
  BY FollowedTrade DEF ReplayInv, TradeInv
<1>2. Untouched(fold, trade.side, Bar(i).close, trade.last)
  BY <1>1 DEF ReplayInv, TradeInv
<1> DEFINE b == Bar(trade.last)
           e == Bar(i).close
<1>3. trade.entry = e /\ e \in Nat \ {0} /\ b \in Bars /\ ((b.close - e) * Den) % e = 0
      /\ SlOf(fold) \in 1 .. Den - 1 /\ TpOf(fold) \in 1 .. Den - 1
  BY <1>1, FollowedTrade
<1>4. ~HitsStop(trade, SlOf(fold), b) /\ ~HitsTarget(trade, TpOf(fold), b)
  BY <1>2, <1>3 DEF Untouched, HitsStop, HitsTarget
<1> HIDE DEF b, e
<1>5. -SlOf(fold) < Return(trade, b.close) /\ Return(trade, b.close) < TpOf(fold)
  BY <1>3, <1>4, ReturnBetween
<1>6. r.outcome = "timeout" /\ r.pnl = Return(trade, b.close)
  BY DEF b
<1>7. "timeout" # "sl" /\ "timeout" # "tp"
  OBVIOUS
<1> QED BY <1>5, <1>6, <1>7, ExitPlace DEF GoodResult

LEMMA StopIsGood ==
    ASSUME ReplayInv, trade # NoTrade, HitsStop(trade, SlOf(fold), Bar(trade.k)),
           NEW r, r = [fold |-> fold, at |-> trade.at, side |-> trade.side, exit |-> trade.k,
                       outcome |-> "sl", pnl |-> -SlOf(fold)]
    PROVE  GoodResult(fold, r)
<1>1. r.at = i /\ r.side = trade.side /\ r.exit = trade.k /\ r.outcome = "sl" /\ r.pnl = -SlOf(fold)
      /\ trade.entry = Bar(i).close
  BY FollowedTrade
<1>2. HitsStop([side |-> r.side, entry |-> Bar(r.at).close], SlOf(fold), Bar(r.exit))
  BY <1>1 DEF HitsStop
<1> QED BY <1>1, <1>2, ExitPlace DEF GoodResult

LEMMA TargetIsGood ==
    ASSUME ReplayInv, trade # NoTrade, ~HitsStop(trade, SlOf(fold), Bar(trade.k)),
           NEW r, r = [fold |-> fold, at |-> trade.at, side |-> trade.side, exit |-> trade.k,
                       outcome |-> "tp", pnl |-> TpOf(fold)]
    PROVE  GoodResult(fold, r)
<1>1. r.at = i /\ r.side = trade.side /\ r.exit = trade.k /\ r.outcome = "tp" /\ r.pnl = TpOf(fold)
      /\ trade.entry = Bar(i).close
  BY FollowedTrade
<1>2. ~HitsStop([side |-> r.side, entry |-> Bar(r.at).close], SlOf(fold), Bar(r.exit))
  BY <1>1 DEF HitsStop
<1>3. "tp" # "sl"
  OBVIOUS
<1> QED BY <1>1, <1>2, <1>3, ExitPlace DEF GoodResult

\* One round of the inner loop.
LEMMA FollowKeeps ==
    ASSUME ReplayInv, trade # NoTrade, NEW next \in Nat,
           FollowTrade(SlOf(fold), TpOf(fold), next), UNCHANGED <<script, frame, fold>>
    PROVE  /\ ResultInv' /\ TradeInv'
           /\ (trade' = NoTrade /\ i' = next) \/ (trade' # NoTrade /\ i' = i)
<1>1. CASE \E outcome, pnl : Exit(outcome, pnl, next) /\
              GoodResult(fold, [fold |-> fold, at |-> trade.at, side |-> trade.side,
                                exit |-> trade.k, outcome |-> outcome, pnl |-> pnl])
  <2>1. PICK outcome, pnl : Exit(outcome, pnl, next) /\
              GoodResult(fold, [fold |-> fold, at |-> trade.at, side |-> trade.side,
                                exit |-> trade.k, outcome |-> outcome, pnl |-> pnl])
    BY <1>1
  <2> DEFINE r == [fold |-> fold, at |-> trade.at, side |-> trade.side,
                   exit |-> trade.k, outcome |-> outcome, pnl |-> pnl]
  <2>2. GoodResult(fold, r) /\ results' = Append(results, r) /\ trade' = NoTrade /\ i' = next
    BY <2>1 DEF Exit
  <2> HIDE DEF r
  <2>3. ResultInv'
    BY <2>2, AppendedKeeps DEF ReplayInv
  <2>4. TradeInv'
    BY <2>2 DEF TradeInv, NoTrade
  <2> QED BY <2>2, <2>3, <2>4
<1>2. CASE /\ trade.k <= trade.last
           /\ ~HitsStop(trade, SlOf(fold), Bar(trade.k)) /\ ~HitsTarget(trade, TpOf(fold), Bar(trade.k))
           /\ trade' = [trade EXCEPT !.k = @ + 1]
           /\ UNCHANGED <<results, i>>
  <2>1. trade = [side |-> trade.side, entry |-> Bar(i).close, at |-> i,
                 k |-> trade.k, last |-> trade.last]
    BY DEF ReplayInv, TradeInv
  <2>2. trade' = [side |-> trade.side, entry |-> Bar(i).close, at |-> i,
                  k |-> trade.k + 1, last |-> trade.last]
    BY <1>2, <2>1
  <2>3. trade'.side = trade.side /\ trade'.k = trade.k + 1 /\ trade'.last = trade.last
        /\ trade.entry = Bar(i).close
    BY <2>1, <2>2
  <2>4. Untouched(fold, trade.side, Bar(i).close, trade.k)
    BY <1>2, <2>3 DEF Untouched, HitsStop, HitsTarget
  <2>5. \A j \in FirstBar(i) .. trade'.k - 1 : Untouched(fold, trade.side, Bar(i).close, j)
    <3>1. \A j \in FirstBar(i) .. trade.k - 1 : Untouched(fold, trade.side, Bar(i).close, j)
      BY DEF ReplayInv, TradeInv
    <3>2. \A j \in FirstBar(i) .. trade'.k - 1 : j \in FirstBar(i) .. trade.k - 1 \/ j = trade.k
      BY <2>3, FollowedTrade
    <3> QED BY <2>4, <3>1, <3>2
  <2>6. /\ trade.side # "none" /\ i + 1 \in DOMAIN frame
        /\ trade.k \in Nat /\ trade.last \in Nat
        /\ FirstBar(i) <= trade.k /\ FirstBar(i) \in Nat
        /\ FirstBar(i) <= trade.last /\ trade.last < Len(frame)
    BY FollowedTrade DEF ReplayInv, TradeInv
  <2>7. /\ Bar(i)' = Bar(i) /\ FirstBar(i)' = FirstBar(i)
        /\ frame' = frame /\ i' = i /\ script' = script
    BY <1>2 DEF Bar, FirstBar
  <2>8. \A side, e, j : Untouched(fold, side, e, j) => Untouched(fold, side, e, j)'
    BY DEF Untouched, HitsStop, HitsTarget, SlOf, TpOf, Bar
  <2>9. \A j \in FirstBar(i)' .. trade'.k - 1 : Untouched(fold, trade.side, Bar(i).close, j)'
    <3>1. \A j \in FirstBar(i) .. trade'.k - 1 : \A side, e : (side = trade'.side /\ e = Bar(i)'.close) =>
             Untouched(fold, side, e, j)'
      BY <2>3, <2>5, <2>7, <2>8
    <3> QED BY <2>7, <3>1
  <2>10. /\ trade'.k \in Nat /\ trade'.last \in Nat
         /\ FirstBar(i) <= trade'.k /\ trade'.k <= trade'.last + 1
         /\ FirstBar(i) <= trade'.last /\ trade'.last < Len(frame)
         /\ trade'.side # "none"
    BY <1>2, <2>3, <2>6
  <2>11. trade' = [side |-> trade'.side, entry |-> Bar(i).close, at |-> i,
                   k |-> trade'.k, last |-> trade'.last]
    BY <2>2, <2>3
  <2>12. TradeInv'
    BY <2>6, <2>7, <2>9, <2>10, <2>11 DEF TradeInv
  <2>13. trade' # NoTrade
    BY <2>10 DEF NoTrade
  <2>14. ResultInv'
    BY <1>2, ResultsStay DEF ReplayInv
  <2> QED BY <1>2, <2>12, <2>13, <2>14
<1>3. CASE trade.k > trade.last /\ Exit("timeout", Return(trade, Bar(trade.last).close), next)
  BY <1>1, <1>3, TimeoutIsGood
<1>4. CASE trade.k <= trade.last /\ HitsStop(trade, SlOf(fold), Bar(trade.k)) /\ Exit("sl", -SlOf(fold), next)
  BY <1>1, <1>4, StopIsGood
<1>5. CASE /\ trade.k <= trade.last /\ ~HitsStop(trade, SlOf(fold), Bar(trade.k))
           /\ HitsTarget(trade, TpOf(fold), Bar(trade.k)) /\ Exit("tp", TpOf(fold), next)
  BY <1>1, <1>5, TargetIsGood
<1> QED BY <1>2, <1>3, <1>4, <1>5 DEF FollowTrade

LEMMA ScanKeeps == ASSUME ReplayInv, NEW s, Scan(s) PROVE ReplayInv'
<1>1. /\ pc = "trade" /\ FollowTrade(SlPct, TpPct, i + Step)
      /\ pc' = (IF trade' = NoTrade THEN "window" ELSE "trade")
      /\ UNCHANGED <<script, rows, frame, fold>>
  BY DEF Scan, replayed
<1>2. /\ i \in Nat /\ fold \in Nat /\ fold \in 1 .. LastPart /\ Walks /\ trade # NoTrade
      /\ FrameInv /\ PlaceInv
  BY <1>1 DEF ReplayInv, PhaseInv
<1>3. SlOf(fold) = SlPct /\ TpOf(fold) = TpPct
  BY <1>2 DEF SlOf, TpOf, Walks
<1>4. Step \in Nat /\ SeqLen \in Nat
  BY BacktestAssumption
<1> DEFINE next == i + Step
<1>5. next \in Nat /\ next >= i
  BY <1>2, <1>4
<1>6. FollowTrade(SlOf(fold), TpOf(fold), next)
  BY <1>1, <1>3
<1>7. /\ ResultInv' /\ TradeInv'
      /\ (trade' = NoTrade /\ i' = next) \/ (trade' # NoTrade /\ i' = i)
  <2> HIDE DEF next
  <2> QED BY <1>1, <1>2, <1>5, <1>6, FollowKeeps
<1>8. Walks' /\ LastPart' = LastPart /\ NoTrade' = NoTrade /\ script' = script
      /\ (FoldBounds(fold)[1])' = FoldBounds(fold)[1] /\ fold' = fold
  BY <1>1, <1>2 DEF Walks, LastPart, NoTrade, FoldBounds
<1>9. FrameInv'
  BY <1>1, <1>2 DEF FrameInv
<1>10. i' \in Nat /\ i' >= i
  BY <1>2, <1>5, <1>7
<1>11. PhaseInv'
  <2>1. CASE trade' = NoTrade
    BY <1>1, <1>2, <1>8, <1>10, <2>1 DEF PhaseInv
  <2>2. CASE trade' # NoTrade
    BY <1>1, <1>2, <1>8, <1>10, <2>2 DEF PhaseInv
  <2> QED BY <2>1, <2>2
<1>12. PlaceInv'
  <2>1. SUFFICES ASSUME script' = "6" PROVE i' - SeqLen >= (FoldBounds(fold)[1])'
    BY DEF PlaceInv
  <2>2. i - SeqLen >= FoldBounds(fold)[1] /\ FoldBounds(fold)[1] \in Nat
    <3>1. Len(frame) \in Nat
      BY <1>2 DEF FrameInv
    <3> QED BY <1>1, <1>2, <1>8, <2>1, <3>1, BoundsShape DEF PlaceInv
  <2> QED BY <1>2, <1>4, <1>8, <1>10, <2>2
<1> QED BY <1>7, <1>9, <1>11, <1>12 DEF ReplayInv

LEMMA ScanForwardKeeps == ASSUME ReplayInv, ScanForward PROVE ReplayInv'
<1>1. /\ pc = "follow" /\ FollowTrade(Grid[fold][1], Grid[fold][2], i + 1)
      /\ pc' = (IF trade' = NoTrade THEN "entry" ELSE "follow")
      /\ UNCHANGED <<script, rows, frame, fold>>
  BY DEF ScanForward, replayed
<1>2. /\ i \in Nat /\ fold \in Nat /\ fold \in 1 .. Len(Grid) /\ script = "5" /\ trade # NoTrade /\ FrameInv
  BY <1>1 DEF ReplayInv, PhaseInv
<1>3. SlOf(fold) = Grid[fold][1] /\ TpOf(fold) = Grid[fold][2]
  BY <1>2 DEF SlOf, TpOf
<1> DEFINE next == i + 1
<1>4. next \in Nat
  BY <1>2
<1>5. FollowTrade(SlOf(fold), TpOf(fold), next)
  BY <1>1, <1>3
<1>6. /\ ResultInv' /\ TradeInv'
      /\ (trade' = NoTrade /\ i' = next) \/ (trade' # NoTrade /\ i' = i)
  <2> HIDE DEF next
  <2> QED BY <1>1, <1>2, <1>4, <1>5, FollowKeeps
<1>7. FrameInv' /\ PlaceInv'
  BY <1>1, <1>2 DEF FrameInv, PlaceInv
<1>8. i' \in Nat /\ NoTrade' = NoTrade
  BY <1>2, <1>4, <1>6 DEF NoTrade
<1>9. PhaseInv'
  <2>1. CASE trade' = NoTrade
    BY <1>1, <1>2, <1>8, <2>1 DEF PhaseInv
  <2>2. CASE trade' # NoTrade
    BY <1>1, <1>2, <1>8, <2>2 DEF PhaseInv
  <2> QED BY <2>1, <2>2
<1> QED BY <1>6, <1>7, <1>9 DEF ReplayInv

LEMMA NextPairKeeps == ASSUME ReplayInv, NextPair PROVE ReplayInv'
<1>1. /\ pc = "measure" /\ results' = <<>> /\ i' = 0 /\ fold' = fold + 1
      /\ pc' = (IF fold = Len(Grid) THEN "done" ELSE "entry")
      /\ UNCHANGED <<script, rows, frame, trade>>
  BY DEF NextPair, replayed
<1>2. fold \in Nat /\ fold \in 1 .. Len(Grid) /\ script = "5" /\ trade = NoTrade /\ FrameInv
  BY <1>1 DEF ReplayInv, PhaseInv
<1>3. FrameInv' /\ PlaceInv'
  BY <1>1, <1>2 DEF FrameInv, PlaceInv
<1>4. trade' = NoTrade'
  BY <1>1, <1>2 DEF NoTrade
<1>5. TradeInv' /\ ResultInv'
  <2>1. DOMAIN results' = {} /\ results' \in Seq(ToSet(results'))
    BY <1>1
  <2> QED BY <1>4, <2>1 DEF TradeInv, ResultInv
<1>6. fold # Len(Grid) => fold' \in 1 .. Len(Grid)
  <2> DEFINE n == Len(Grid)
  <2>1. n \in Nat
    <3> DEFINE L == (1 .. Den - 1) \X (1 .. Den - 1)
    <3>1. Grid \in Seq(L)
      BY BacktestAssumption
    <3> HIDE DEF L
    <3> QED BY <3>1
  <2> HIDE DEF n
  <2>2. fold \in 1 .. n
    BY <1>2 DEF n
  <2>3. fold # n => fold' \in 1 .. n
    BY <1>1, <2>1, <2>2
  <2> QED BY <2>3 DEF n
<1>7. PhaseInv'
  <2>1. fold' \in Nat /\ i' \in Nat
    BY <1>1, <1>2
  <2>2. CASE fold = Len(Grid)
    BY <1>1, <1>2, <1>4, <2>1, <2>2 DEF PhaseInv
  <2>3. CASE fold # Len(Grid)
    BY <1>1, <1>2, <1>4, <1>6, <2>1, <2>3 DEF PhaseInv
  <2> QED BY <2>2, <2>3
<1> QED BY <1>3, <1>5, <1>7 DEF ReplayInv

\* The scripts that only sample keep no trade.
LEMMA SamplingKeeps ==
    ASSUME ReplayInv, pc = "sample", pc' \in {"sample", "done"}, i' \in Nat,
           UNCHANGED <<script, rows, frame, trade, fold>>,
           UNCHANGED results \/ \E e : results' = Append(results, e)
    PROVE  ReplayInv'
<1>1. fold \in Nat /\ ~Replayed /\ trade = NoTrade /\ FrameInv /\ ResultInv
  BY DEF ReplayInv, PhaseInv
<1>2. FrameInv' /\ ~Replayed' /\ trade' = NoTrade'
  BY <1>1 DEF FrameInv, Replayed, NoTrade
<1>3. PhaseInv' /\ PlaceInv' /\ TradeInv'
  BY <1>1, <1>2 DEF PhaseInv, PlaceInv, TradeInv
<1>4. results' \in Seq(ToSet(results'))
  <2>1. CASE UNCHANGED results
    BY <1>1, <2>1 DEF ResultInv
  <2>2. CASE \E e : results' = Append(results, e)
    <3>1. PICK e : results' = Append(results, e)
      BY <2>2
    <3>2. Append(results, e) \in Seq(ToSet(Append(results, e)))
      BY <1>1, AppendShape DEF ResultInv
    <3> QED BY <3>1, <3>2
  <2> QED BY <2>1, <2>2
<1>5. ResultInv'
  BY <1>2, <1>4 DEF ResultInv
<1> QED BY <1>2, <1>3, <1>5 DEF ReplayInv

LEMMA EvaluateKeeps == ASSUME ReplayInv, Evaluate \/ AnalyseAgreement PROVE ReplayInv'
<1>1. Step \in Nat /\ i \in Nat
  BY BacktestAssumption DEF ReplayInv, PhaseInv
<1>2. /\ pc = "sample" /\ pc' \in {"sample", "done"}
      /\ i' = i \/ i' = i + Step \/ i' = i + 1
      /\ UNCHANGED <<script, rows, frame, trade, fold>>
      /\ UNCHANGED results \/ \E e : results' = Append(results, e)
  <2>1. CASE Evaluate
    BY <2>1 DEF Evaluate, Sample, replayed
  <2>2. CASE AnalyseAgreement
    BY <2>2 DEF AnalyseAgreement, Sample, replayed
  <2> QED BY <2>1, <2>2
<1>3. i' \in Nat
  BY <1>1, <1>2
<1> QED BY <1>2, <1>3, SamplingKeeps

LEMMA ContrarianKeeps == ASSUME ReplayInv, ContrarianStrategy PROVE ReplayInv'
<1>1. i \in Nat
  BY DEF ReplayInv, PhaseInv
<1>2. /\ pc = "sample" /\ pc' \in {"sample", "done"} /\ (i' = i \/ i' = i + 1)
      /\ UNCHANGED <<script, rows, frame, trade, fold>>
      /\ UNCHANGED results \/ \E e : results' = Append(results, e)
  BY DEF ContrarianStrategy, replayed
<1>3. i' \in Nat
  BY <1>1, <1>2
<1> QED BY <1>2, <1>3, SamplingKeeps

LEMMA StutterKeeps == ASSUME ReplayInv, UNCHANGED vars PROVE ReplayInv'
<1>1. UNCHANGED <<script, rows, frame, pc, i, trade, results, fold>>
  BY DEF vars
<1>2. PhaseInv' /\ FrameInv' /\ PlaceInv'
  BY <1>1 DEF ReplayInv, PhaseInv, FrameInv, PlaceInv, Fresh, Walks, Replayed, LastPart, NoTrade, FoldBounds
<1>3. ResultInv'
  BY <1>1, ResultsStay DEF ReplayInv
<1>4. TradeInv'
  BY <1>1 DEF ReplayInv, TradeInv, NoTrade, Bar, FirstBar, FoldBounds, Untouched, HitsStop, HitsTarget, SlOf, TpOf
<1> QED BY <1>2, <1>3, <1>4 DEF ReplayInv

LEMMA ReplayStep == ASSUME DownloadInv, DownloadInv', ReplayInv, [Next]_vars PROVE ReplayInv'
<1>1. CASE UNCHANGED vars
  BY <1>1, StutterKeeps
<1>2. CASE RequestOne
  BY <1>2, RequestKeeps
<1>3. CASE BuildFrame
  BY <1>3, BuildKeeps
<1>4. CASE NextFold
  BY <1>4, NextFoldKeeps
<1>5. CASE BacktestSymbol1 \/ BacktestSymbolK \/ BacktestFold
  BY <1>5, WindowKeeps DEF BacktestSymbol1, BacktestSymbolK, BacktestFold
<1>6. CASE SimulateTrade1 \/ SimulateTradeK \/ SimulateTrade6
  BY <1>6, ScanKeeps DEF SimulateTrade1, SimulateTradeK, SimulateTrade6
<1>7. CASE AddSignals
  BY <1>7, AddSignalsKeeps
<1>8. CASE RunBacktest
  BY <1>8, RunBacktestKeeps
<1>9. CASE ScanForward
  BY <1>9, ScanForwardKeeps
<1>10. CASE NextPair
  BY <1>10, NextPairKeeps
<1>11. CASE Evaluate \/ AnalyseAgreement
  BY <1>11, EvaluateKeeps
<1>12. CASE ContrarianStrategy
  BY <1>12, ContrarianKeeps
<1> QED BY <1>1, <1>2, <1>3, <1>4, <1>5, <1>6, <1>7, <1>8, <1>9, <1>10, <1>11, <1>12 DEF Next

LEMMA ReplayInvHolds == Spec => []ReplayInv
<1>1. Init => ReplayInv
  BY ReplayInit
<1>2. DownloadInv /\ DownloadInv' /\ ReplayInv /\ [Next]_vars => ReplayInv'
  BY ReplayStep
<1> QED BY <1>1, <1>2, DownloadInvHolds, PTL DEF Spec

\* Script, history and place stay what they are declared as, the frame has no more
\* bars than were received, and a trade is followed within the frame.
THEOREM BacktestTypeOKHolds == Spec => []TypeOK
<1>1. DownloadInv /\ ReplayInv => TypeOK
  <2> SUFFICES ASSUME DownloadInv, ReplayInv PROVE TypeOK
    OBVIOUS
  <2>1. script \in Scripts /\ ToSet(rows) \subseteq DOMAIN history
    BY ToSetSize DEF DownloadInv
  <2>2. trade # NoTrade => trade.at <= trade.k /\ trade.last < Len(frame)
    <3>1. SUFFICES ASSUME trade # NoTrade PROVE trade.at <= trade.k /\ trade.last < Len(frame)
      OBVIOUS
    <3>2. trade.at = i /\ i \in Nat /\ trade.k \in Nat /\ trade.last < Len(frame)
      BY <3>1, FollowedTrade
    <3>3. FirstBar(i) <= trade.k /\ i <= FirstBar(i) /\ FirstBar(i) \in Nat
      BY <3>1, <3>2 DEF ReplayInv, TradeInv, FirstBar
    <3> QED BY <3>2, <3>3
  <2> QED BY <2>1, <2>2 DEF TypeOK, ReplayInv, PhaseInv, FrameInv
<1> QED BY <1>1, DownloadInvHolds, ReplayInvHolds, PTL

\* A simulated trade that outlives its entry bar ends at the first later bar that
\* touches its stop or its target, the stop first, whatever the prices, the levels and
\* the horizon (simulate_trade, run_backtest).
THEOREM EndsAtFirstTouchHolds == Spec => []EndsAtFirstTouch
<1>1. ReplayInv => EndsAtFirstTouch
  <2> SUFFICES ASSUME ReplayInv, Replayed, NEW n \in DOMAIN results
               PROVE  LET r == results[n]
                          t == [side |-> r.side, entry |-> Bar(r.at).close]
                          untouched(j) == ~HitsStop(t, StopOf, Bar(j)) /\ ~HitsTarget(t, TargetOf, Bar(j))
                      IN  r.exit > r.at =>
                              /\ \A j \in r.at + 1 .. r.exit - 1 : untouched(j)
                              /\ CASE r.outcome = "sl" -> HitsStop(t, StopOf, Bar(r.exit)) /\ r.pnl = -StopOf
                                   [] r.outcome = "tp" -> ~HitsStop(t, StopOf, Bar(r.exit)) /\ r.pnl = TargetOf
                                   [] OTHER -> -StopOf < r.pnl /\ r.pnl < TargetOf
    BY DEF EndsAtFirstTouch
  <2> DEFINE r == results[n]
  <2>1. GoodResult(fold, r)
    BY DEF ReplayInv, ResultInv
  <2>2. SlOf(fold) = StopOf /\ TpOf(fold) = TargetOf
    BY DEF SlOf, TpOf, StopOf, TargetOf
  <2>3. r.at \in Nat /\ r.exit \in Nat /\ FirstBar(r.at) \in {r.at, r.at + 1}
    BY <2>1 DEF GoodResult, FirstBar
  <2>4. \A j \in r.at + 1 .. r.exit - 1 : j \in FirstBar(r.at) .. r.exit - 1
    BY <2>3
  <2> QED BY <2>1, <2>2, <2>4 DEF GoodResult, Untouched
<1> QED BY <1>1, ReplayInvHolds, PTL

\* With every bar of the period, the share of the bars that x of the days are opens
\* when those days are over, or later.
LEMMA ShareIsDays ==
    ASSUME DownloadInv, FrameInv, frame # <<>>, Gapless,
           NEW x \in Nat, NEW j \in 0 .. Len(frame) - 1, j >= (x * Len(frame)) \div Days
    PROVE  (OpenTime(j) - Start) * Days >= x * (End - Start)
<1> DEFINE T == ToSet(rows)
           times == Ascending(T)
           n == Len(frame)
           first == times[1]
           q == (End - Start) \div (Days * Interval)
           p == (x * n) \div Days
<1>1. /\ Days \in Nat \ {0} /\ Interval \in Nat \ {0} /\ Start \in Int /\ End \in Int
      /\ Days * Interval \in Nat \ {0}
  <2>1. Days \in Nat \ {0} /\ Interval \in Nat \ {0} /\ Start \in Int /\ End \in Int
    BY BacktestAssumption, PagingAssumption
  <2>2. Days * Interval \in Nat \ {0}
    BY <2>1
  <2> QED BY <2>1, <2>2
<1>2. End - Start = (Days * Interval) * q /\ q \in Int
  <2> DEFINE b == Days * Interval
             a == End - Start
  <2>1. b \in Nat \ {0} /\ a \in Int
    BY <1>1
  <2>2. a % b = 0
    BY DayAssumption, Zenon
  <2> HIDE DEF a, b
  <2>3. a = b * (a \div b) /\ a \div b \in Int
    BY <2>1, <2>2, ExactQuotient, QuotientBounds
  <2> QED BY <2>3, Zenon DEF a, b, q
<1>3. T \in SUBSET Int /\ IsFiniteSet(T) /\ n = Cardinality(T) /\ n \in Nat
  <2>1. rows \in Seq(DOMAIN history) /\ DOMAIN history \subseteq Int
    BY HistoryShape DEF DownloadInv
  <2>2. IsFiniteSet(ToSet(rows)) /\ ToSet(rows) \subseteq DOMAIN history
    BY <2>1, ToSetSize
  <2> QED BY <2>1, <2>2 DEF FrameInv
<1>4. times \in [1 .. n -> T]
  BY <1>3, AscendingShape
<1> HIDE DEF T, times
<1>5. DOMAIN times = 1 .. n /\ Len(times) = n
  BY <1>3, <1>4
<1>6. /\ first \in Start .. Start + Interval - 1 /\ End <= Last(times) + Interval /\ times # <<>>
      /\ \A k \in 1 .. n : times[k] = first + (k - 1) * Interval
  BY <1>5 DEF Gapless, times, T
<1>7. n >= 1 /\ n \in 1 .. n /\ first \in Int
  BY <1>1, <1>3, <1>5, <1>6
<1>8. Last(times) = first + (n - 1) * Interval
  BY <1>5, <1>6, <1>7 DEF Last
<1>9. OpenTime(j) = first + j * Interval
  <2>1. j + 1 \in 1 .. n /\ (j + 1) - 1 = j
    BY <1>3
  <2>2. times[j + 1] = first + ((j + 1) - 1) * Interval
    BY <1>6, <2>1
  <2> QED BY <2>1, <2>2 DEF OpenTime, times, T
<1> HIDE DEF n, first, q, p
<1>10. n >= Days * q
  <2>1. (n - 1) * Interval = n * Interval - Interval /\ n * Interval \in Int
    BY <1>1, <1>3
  <2>2. (Days * Interval) * q = Interval * (Days * q) /\ n * Interval = Interval * n /\ Days * q \in Int
    BY <1>1, <1>2, <1>3
  <2>3. Interval * (Days * q) < Interval * n + Interval
    BY <1>1, <1>2, <1>6, <1>7, <1>8, <2>1, <2>2
  <2>4. Interval * n + Interval = Interval * (n + 1)
    BY <1>1, <1>3
  <2>5. Days * q < n + 1
    BY <1>1, <1>3, <2>2, <2>3, <2>4, TimesCancel
  <2> QED BY <1>3, <2>2, <2>5
<1>11. p >= x * q
  <2>1. x * n \in Int /\ p \in Int /\ x * n < Days * p + Days
    <3> DEFINE a == x * n
    <3>1. a \in Int
      BY <1>3
    <3> HIDE DEF a
    <3>2. a \div Days \in Int /\ a < Days * (a \div Days) + Days
      BY <1>1, <3>1, QuotientBounds
    <3>3. a \div Days = p
      BY Zenon DEF a, p
    <3>4. p \in Int /\ a < Days * p + Days
      BY <3>2, <3>3, Zenon
    <3> QED BY <3>1, <3>4, Zenon DEF a
  <2>2. x * (Days * q) <= x * n /\ x * (Days * q) = Days * (x * q) /\ x * q \in Int
    BY <1>1, <1>2, <1>3, <1>10, TimesMonotone
  <2>3. Days * p + Days = Days * (p + 1) /\ Days * (x * q) \in Int /\ Days * (p + 1) \in Int
    BY <1>1, <2>1, <2>2
  <2>4. x * q < p + 1
    BY <1>1, <2>1, <2>2, <2>3, TimesCancel
  <2> QED BY <2>1, <2>2, <2>4
<1>12. j >= x * q /\ x * q \in Int /\ p \in Int
  <2>1. j >= p /\ x * q \in Int
    BY <1>2 DEF p, n
  <2>2. p \in Int
    BY <1>1, <1>3, ShareType DEF p
  <2> QED BY <1>11, <2>1, <2>2
<1>13. Interval * (x * q) <= Interval * j /\ Interval * j = j * Interval /\ Interval * j \in Int
  BY <1>1, <1>12, TimesMonotone
<1>14. Interval * (x * q) <= OpenTime(j) - Start /\ OpenTime(j) - Start \in Int /\ Interval * (x * q) \in Int
  BY <1>1, <1>6, <1>7, <1>9, <1>12, <1>13
<1>15. Days * (Interval * (x * q)) <= Days * (OpenTime(j) - Start)
  BY <1>1, <1>14, TimesMonotone
<1>16. Days * (Interval * (x * q)) = x * ((Days * Interval) * q)
  BY <1>1, <1>2
<1>17. Days * (OpenTime(j) - Start) = (OpenTime(j) - Start) * Days
  BY <1>1, <1>14
<1> QED BY <1>2, <1>15, <1>16, <1>17

\* No bar of a fold's training days is used in its test when no bar is missing (main of
\* backtest_6_walkforward.py), whatever the folds, the windows and the period.
THEOREM TestAfterTrainingHolds == Spec => []TestAfterTraining
<1>1. DownloadInv /\ ReplayInv => TestAfterTraining
  <2> SUFFICES ASSUME DownloadInv, ReplayInv, script = "6", Gapless, NEW n \in DOMAIN results
               PROVE  (OpenTime(results[n].at - SeqLen) - Start) * Days
                          >= Folds[results[n].fold][2] * (End - Start)
    BY DEF TestAfterTraining, WindowsInTestDays
  <2> DEFINE r == results[n]
             x == Folds[r.fold][2]
             j == r.at - SeqLen
  <2>1. /\ r.at - SeqLen >= (x * Len(frame)) \div Days
        /\ r.fold \in 1 .. Len(Folds) /\ r.at \in 0 .. Len(frame) - 1
    BY DEF ReplayInv, ResultInv, GoodResult, Replayed
  <2>2. Len(frame) \in Nat /\ frame # <<>>
    <3>1. frame \in Seq(Bars)
      BY DEF ReplayInv, FrameInv
    <3>2. Len(frame) \in Nat /\ Len(<<>>) = 0
      BY <3>1
    <3> QED BY <2>1, <3>2
  <2>3. x \in Nat
    <3>1. Folds \in Seq(Nat \X Nat \X (0 .. Days))
      BY BacktestAssumption
    <3>2. \A f \in 1 .. Len(Folds) : Folds[f] \in Nat \X Nat \X (0 .. Days)
      BY <3>1, ElementOfSeq
    <3>3. \A f \in 1 .. Len(Folds) : Folds[f][2] \in Nat
      BY <3>2
    <3> QED BY <2>1, <3>3
  <2> HIDE DEF r, x
  <2>4. (x * Len(frame)) \div Days \in Nat
    BY <2>2, <2>3, ShareType, BacktestAssumption
  <2>5. SeqLen \in Nat
    BY BacktestAssumption
  <2>6. j \in 0 .. Len(frame) - 1 /\ j >= (x * Len(frame)) \div Days
    BY <2>1, <2>2, <2>4, <2>5
  <2> HIDE DEF j
  <2>7. (OpenTime(j) - Start) * Days >= x * (End - Start)
    BY <2>2, <2>3, <2>6, ShareIsDays DEF ReplayInv
  <2> QED BY <2>7 DEF r, x, j
<1> QED BY <1>1, DownloadInvHolds, ReplayInvHolds, PTL

-----------------------------------------------------------------------------
(* The equity curves of script 5.                                          *)

One(b) == IF b THEN 1 ELSE 0

\* One more place is one more member of P, or none.
LEMMA PlacesNext ==
    ASSUME NEW P, NEW n \in Nat
    PROVE  /\ Cardinality((1 .. n) \cap P) \in Nat
           /\ Cardinality((1 .. n + 1) \cap P) = Cardinality((1 .. n) \cap P) + One(n + 1 \in P)
<1> DEFINE A == (1 .. n) \cap P
           B == (1 .. n + 1) \cap P
<1>1. A \in SUBSET (1 .. n) /\ IsFiniteSet(1 .. n) /\ n + 1 \notin A
  BY FS_Interval
<1>2. IsFiniteSet(A) /\ Cardinality(A) \in Nat
  BY <1>1, FS_Subset, FS_CardinalityType
<1>3. CASE n + 1 \in P
  <2>1. B = A \cup {n + 1}
    BY <1>3
  <2>2. Cardinality(A \cup {n + 1}) = Cardinality(A) + 1
    BY <1>1, <1>2, FS_AddElement
  <2>3. One(n + 1 \in P) = 1
    BY <1>3 DEF One
  <2> QED BY <1>2, <2>1, <2>2, <2>3
<1>4. CASE n + 1 \notin P
  <2>1. B = A
    BY <1>4
  <2>2. One(n + 1 \in P) = 0
    BY <1>4 DEF One
  <2> QED BY <1>2, <2>1, <2>2
<1> QED BY <1>3, <1>4

\* Induction over the naturals, for a property given as a set.
LEMMA SetInduction ==
    ASSUME NEW T, 0 \in T, \A n \in Nat : n \in T => n + 1 \in T
    PROVE  \A n \in Nat : n \in T
<1> DEFINE Bad == {n \in Nat : n \notin T}
<1>1. SUFFICES ASSUME Bad # {} PROVE FALSE
  OBVIOUS
<1>2. PICK n \in Bad : \A m \in Bad : n <= m
  BY <1>1, LeastNatural
<1>3. n \in Nat /\ n # 0 /\ n - 1 \in Nat
  BY <1>2
<1>4. n - 1 \notin Bad
  BY <1>2, <1>3
<1>5. (n - 1) + 1 \in T /\ (n - 1) + 1 = n
  BY <1>3, <1>4
<1> QED BY <1>2, <1>5

CurveStart == [equity |-> 1, peak |-> 1, unit |-> 1, worst |-> <<1, 1>>]
CurveBody(g, k, pnls) == IF k = 0 THEN CurveStart ELSE EquityStep(g[k - 1], pnls[k])

\* The recursive function of EquityCurve exists, so it is what its equation says.
LEMMA CurveSolves ==
    ASSUME NEW pnls, Len(pnls) \in Nat
    PROVE  /\ EquityCurve(pnls)[0] = CurveStart
           /\ \A k \in 1 .. Len(pnls) : EquityCurve(pnls)[k] = EquityStep(EquityCurve(pnls)[k - 1], pnls[k])
<1> DEFINE n == Len(pnls)
           Good(m) == \E g : \A k \in 0 .. m : g[k] = CurveBody(g, k, pnls)
           T == {m \in Nat : Good(m)}
<1>1. 0 \in T
  <2> DEFINE g == [k \in 0 .. 0 |-> CurveStart]
  <2>1. \A k \in 0 .. 0 : g[k] = CurveBody(g, k, pnls)
    BY DEF CurveBody
  <2> HIDE DEF g
  <2> QED BY <2>1
<1>2. ASSUME NEW m \in Nat, m \in T PROVE m + 1 \in T
  <2>1. PICK g : \A k \in 0 .. m : g[k] = CurveBody(g, k, pnls)
    BY <1>2
  <2> DEFINE h == [k \in 0 .. m + 1 |-> IF k = m + 1 THEN EquityStep(g[m], pnls[m + 1]) ELSE g[k]]
  <2>2. \A k \in 0 .. m : h[k] = g[k]
    BY <1>2
  <2>3. h[m + 1] = EquityStep(g[m], pnls[m + 1])
    BY <1>2
  <2> HIDE DEF h
  <2>4. \A k \in 0 .. m : h[k] = CurveBody(h, k, pnls)
    <3> TAKE k \in 0 .. m
    <3>1. CASE k = 0
      BY <2>1, <2>2, <3>1 DEF CurveBody
    <3>2. CASE k # 0
      <4>1. k - 1 \in 0 .. m /\ h[k - 1] = g[k - 1]
        BY <2>2, <3>2
      <4> QED BY <2>1, <2>2, <3>2, <4>1 DEF CurveBody
    <3> QED BY <3>1, <3>2
  <2>5. h[m + 1] = CurveBody(h, m + 1, pnls)
    <3>1. m + 1 # 0 /\ (m + 1) - 1 = m /\ m \in 0 .. m
      BY <1>2
    <3> QED BY <2>2, <2>3, <3>1 DEF CurveBody
  <2>6. \A k \in 0 .. m + 1 : k \in 0 .. m \/ k = m + 1
    BY <1>2
  <2>7. \A k \in 0 .. m + 1 : h[k] = CurveBody(h, k, pnls)
    BY <2>4, <2>5, <2>6
  <2> QED BY <1>2, <2>7
<1> HIDE DEF T
<1>3. n \in T
  BY <1>1, <1>2, SetInduction
<1>4. PICK h : \A k \in 0 .. n : h[k] = CurveBody(h, k, pnls)
  BY <1>3 DEF T
<1> DEFINE g == [k \in 0 .. n |-> h[k]]
<1>5. ASSUME NEW k \in 0 .. n PROVE g[k] = CurveBody(g, k, pnls)
  <2>1. CASE k = 0
    BY <1>4, <2>1 DEF CurveBody
  <2>2. CASE k # 0
    <3>1. k - 1 \in 0 .. n
      BY <2>2
    <3> QED BY <1>4, <2>2, <3>1 DEF CurveBody
  <2> QED BY <2>1, <2>2
<1>6. g = [k \in 0 .. n |-> CurveBody(g, k, pnls)]
  BY <1>5
<1> DEFINE curve[k \in 0 .. n] ==
               IF k = 0 THEN [equity |-> 1, peak |-> 1, unit |-> 1, worst |-> <<1, 1>>]
                        ELSE EquityStep(curve[k - 1], pnls[k])
<1>7. \E f : f = [k \in 0 .. n |->
               IF k = 0 THEN [equity |-> 1, peak |-> 1, unit |-> 1, worst |-> <<1, 1>>]
                        ELSE EquityStep(f[k - 1], pnls[k])]
  BY <1>6, Zenon DEF CurveBody, CurveStart
<1>8. curve = [k \in 0 .. n |->
               IF k = 0 THEN [equity |-> 1, peak |-> 1, unit |-> 1, worst |-> <<1, 1>>]
                        ELSE EquityStep(curve[k - 1], pnls[k])]
  BY <1>7, Zenon
<1>9. EquityCurve(pnls) = curve
  BY DEF EquityCurve
<1> HIDE DEF curve
<1>10. \A k \in 0 .. n : curve[k] = CurveBody(curve, k, pnls)
  BY <1>8 DEF CurveBody, CurveStart
<1>11. 0 \in 0 .. n /\ \A k \in 1 .. n : k \in 0 .. n /\ k # 0
  OBVIOUS
<1> QED BY <1>9, <1>10, <1>11 DEF CurveBody

\* The products a step of the curve compares.
LEMMA PeakGrows ==
    ASSUME NEW e \in Nat, NEW u \in Nat, NEW unit \in Nat, NEW peak \in Nat, NEW d \in Nat, NEW p \in Nat,
           e * unit <= peak * u, peak * d <= p
    PROVE  e * (unit * d) <= p * u
<1>1. d * (e * unit) <= d * (peak * u) /\ d * (e * unit) \in Int /\ d * (peak * u) \in Int
  BY TimesMonotone
<1>2. u * (peak * d) <= u * p /\ u * (peak * d) \in Int /\ u * p \in Int
  BY TimesMonotone
<1>3. d * (e * unit) = e * (unit * d) /\ d * (peak * u) = u * (peak * d) /\ u * p = p * u
  OBVIOUS
<1> QED BY <1>1, <1>2, <1>3

LEMMA FallToNew ==
    ASSUME NEW e \in Nat, NEW u \in Nat, NEW unit \in Nat, NEW p \in Nat,
           NEW new \in Nat, NEW w1 \in Nat, NEW w2 \in Nat,
           e * unit <= p * u, w1 * p <= new * w2
    PROVE  w1 * (e * unit) <= (new * u) * w2
<1>1. w1 * (e * unit) <= w1 * (p * u) /\ w1 * (e * unit) \in Int /\ w1 * (p * u) \in Int
  BY TimesMonotone
<1>2. u * (w1 * p) <= u * (new * w2) /\ u * (w1 * p) \in Int /\ u * (new * w2) \in Int
  BY TimesMonotone
<1>3. u * (w1 * p) = w1 * (p * u) /\ u * (new * w2) = (new * u) * w2
  OBVIOUS
<1> QED BY <1>1, <1>2, <1>3

LEMMA FallToOld ==
    ASSUME NEW x \in Nat, NEW y \in Nat, NEW w1 \in Nat, NEW w2 \in Nat \ {0},
           NEW new \in Nat, NEW p \in Nat,
           w1 * x <= y * w2, new * w2 <= w1 * p
    PROVE  new * x <= y * p
<1>1. p * (w1 * x) <= p * (y * w2) /\ p * (w1 * x) \in Int /\ p * (y * w2) \in Int
  BY TimesMonotone
<1>2. x * (new * w2) <= x * (w1 * p) /\ x * (new * w2) \in Int /\ x * (w1 * p) \in Int
  BY TimesMonotone
<1>3. x * (new * w2) = w2 * (new * x) /\ x * (w1 * p) = p * (w1 * x) /\ p * (y * w2) = w2 * (y * p)
  OBVIOUS
<1>4. w2 * (new * x) <= w2 * (y * p) /\ new * x \in Int /\ y * p \in Int
  BY <1>1, <1>2, <1>3
<1>5. ~(y * p < new * x)
  <2>1. SUFFICES ASSUME y * p + 1 <= new * x PROVE FALSE
    BY <1>4
  <2>2. w2 * (y * p + 1) <= w2 * (new * x) /\ w2 * (y * p + 1) = w2 * (y * p) + w2
        /\ w2 * (y * p) \in Int /\ w2 * (new * x) \in Int
    BY <1>4, <2>1, TimesMonotone
  <2> QED BY <1>4, <2>2
<1> QED BY <1>4, <1>5

\* The equity at b and at a, in the same unit.
To(g, a, b) == g[b].equity * g[a].unit
From(g, a, b) == g[a].equity * g[b].unit

Positive(g, k) == \A a \in 0 .. k : g[a].equity \in Nat /\ g[a].unit \in Nat \ {0}
Typed(c) == c.peak \in Nat \ {0} /\ c.worst[1] \in Nat /\ c.worst[2] \in Nat \ {0}
PeakIsHighest(g, k) ==
    /\ \A a \in 0 .. k : g[a].equity * g[k].unit <= g[k].peak * g[a].unit
    /\ \E a \in 0 .. k : g[a].equity * g[k].unit = g[k].peak * g[a].unit
WorstBounds(g, k) ==
    \A a, b \in 0 .. k : a <= b => g[k].worst[1] * From(g, a, b) <= To(g, a, b) * g[k].worst[2]
WorstIsReached(g, k) ==
    \E a, b \in 0 .. k : a <= b /\ g[k].worst[1] * From(g, a, b) = To(g, a, b) * g[k].worst[2]
WipedOutStays(g, k, pnls) ==
    (\E j \in 1 .. k : pnls[j] <= -Den) => g[k].equity = 0 /\ g[k].worst[1] = 0

\* What the curve keeps at every trade: its peak is the highest point so far and its
\* worst is the worst fall so far.
CurveOK(g, k, pnls) ==
    /\ Positive(g, k) /\ Typed(g[k]) /\ PeakIsHighest(g, k)
    /\ WorstBounds(g, k) /\ WorstIsReached(g, k) /\ WipedOutStays(g, k, pnls)

LEMMA CurveStarts ==
    ASSUME NEW g, g[0] = CurveStart, NEW pnls
    PROVE  CurveOK(g, 0, pnls)
<1>1. g[0].equity = 1 /\ g[0].peak = 1 /\ g[0].unit = 1 /\ g[0].worst[1] = 1 /\ g[0].worst[2] = 1
  BY DEF CurveStart
<1>2. \A a \in 0 .. 0 : a = 0
  OBVIOUS
<1>3. Positive(g, 0) /\ Typed(g[0]) /\ PeakIsHighest(g, 0)
  BY <1>1, <1>2 DEF Positive, Typed, PeakIsHighest
<1>4. WorstBounds(g, 0) /\ WorstIsReached(g, 0)
  BY <1>1, <1>2 DEF WorstBounds, WorstIsReached, To, From
<1>5. WipedOutStays(g, 0, pnls)
  BY DEF WipedOutStays
<1> QED BY <1>3, <1>4, <1>5 DEF CurveOK

LEMMA CurveSteps ==
    ASSUME NEW g, NEW pnls, NEW k \in Nat, CurveOK(g, k, pnls),
           g[k + 1] = EquityStep(g[k], pnls[k + 1]),
           pnls[k + 1] \in Int, pnls[k + 1] >= -Den
    PROVE  CurveOK(g, k + 1, pnls)
<1> DEFINE n == k + 1
           p == pnls[n]
           e == g[k].equity
           u == g[k].unit
           top == g[k].peak
           v1 == g[k].worst[1]
           v2 == g[k].worst[2]
           E == e * (Den + p)
           P == IF E > top * Den THEN E ELSE top * Den
           U == u * Den
           worse == E * v2 < v1 * P
           w1 == g[n].worst[1]
           w2 == g[n].worst[2]
<1>1. Den \in Nat \ {0}
  BY BacktestAssumption
<1>2. /\ g[n].equity = E /\ g[n].peak = P /\ g[n].unit = U
      /\ worse => w1 = E /\ w2 = P
      /\ ~worse => w1 = v1 /\ w2 = v2
  BY DEF EquityStep
<1>3. /\ e \in Nat /\ u \in Nat \ {0} /\ top \in Nat \ {0} /\ v1 \in Nat /\ v2 \in Nat \ {0} /\ n \in Nat
      /\ k \in 0 .. k
  BY DEF CurveOK, Positive, Typed
<1>4. p \in Int /\ Den + p \in Nat
  BY <1>1
<1>5. \A a, b \in Nat : a * b \in Nat /\ (a # 0 /\ b # 0 => a * b # 0)
  OBVIOUS
<1> HIDE DEF n, p, e, u, top, v1, v2
<1>6. /\ E \in Nat /\ U \in Nat \ {0} /\ top * Den \in Nat \ {0} /\ P \in Nat \ {0}
      /\ E <= P /\ top * Den <= P
  <2>1. E \in Nat /\ U \in Nat \ {0} /\ top * Den \in Nat \ {0}
    BY <1>1, <1>3, <1>4, <1>5
  <2> HIDE DEF E
  <2> QED BY <2>1
<1>7. E * v2 \in Nat /\ v1 * P \in Nat
  <2> HIDE DEF E, P
  <2> QED BY <1>3, <1>5, <1>6
<1>8. /\ w1 \in Nat /\ w2 \in Nat \ {0} /\ w1 * P <= E * w2 /\ E * w2 \in Nat /\ w1 * P \in Nat
  <2> HIDE DEF E, P, w1, w2
  <2>1. CASE worse
    BY <1>2, <1>3, <1>5, <1>6, <2>1
  <2>2. CASE ~worse
    BY <1>2, <1>3, <1>6, <1>7, <2>2
  <2> QED BY <2>1, <2>2
<1> HIDE DEF E, P, U, w1, w2
<1>9. \A a \in 0 .. n : a \in 0 .. k \/ a = n
  BY DEF n
<1>10. \A a \in 0 .. k : a \in 0 .. n
  BY DEF n
<1>11. n \in 0 .. n
  BY <1>3
<1>12. Positive(g, n)
  BY <1>2, <1>6, <1>9 DEF CurveOK, Positive
<1>13. Typed(g[n])
  BY <1>2, <1>6, <1>8 DEF Typed, w1, w2
<1>14. \A a \in 0 .. n : g[a].equity \in Nat /\ g[a].unit \in Nat
  BY <1>12 DEF Positive
<1>15. ASSUME NEW a \in 0 .. n PROVE g[a].equity * U <= P * g[a].unit
  <2>1. CASE a \in 0 .. k
    <3>1. g[a].equity * u <= top * g[a].unit
      BY <2>1 DEF CurveOK, PeakIsHighest, u, top
    <3>2. g[a].equity * (u * Den) <= P * g[a].unit
      BY <1>1, <1>3, <1>6, <1>14, <3>1, PeakGrows
    <3> QED BY <3>2 DEF U
  <2>2. CASE a = n
    <3>1. U * E <= U * P /\ U * E = E * U /\ U * P = P * U
      BY <1>6, TimesMonotone
    <3> QED BY <1>2, <2>2, <3>1
  <2> QED BY <1>9, <2>1, <2>2
<1>16. \E a \in 0 .. n : g[a].equity * U = P * g[a].unit
  <2>1. CASE P = E
    <3>1. g[n].equity * U = P * g[n].unit
      BY <1>2, <2>1
    <3> QED BY <1>11, <3>1
  <2>2. CASE P = top * Den
    <3>1. PICK a \in 0 .. k : g[a].equity * u = top * g[a].unit
      BY DEF CurveOK, PeakIsHighest, u, top
    <3> DEFINE x == g[a].equity
               y == g[a].unit
    <3>2. x \in Nat /\ y \in Nat /\ x * u = top * y
      BY <1>10, <1>14, <3>1
    <3> HIDE DEF x, y
    <3>3. x * (u * Den) = (x * u) * Den /\ (top * y) * Den = (top * Den) * y
      BY <1>1, <1>3, <3>2
    <3>4. x * U = P * y
      BY <2>2, <3>2, <3>3 DEF U
    <3> QED BY <1>10, <3>4 DEF x, y
  <2>3. P = E \/ P = top * Den
    BY DEF P
  <2> QED BY <2>1, <2>2, <2>3
<1>17. PeakIsHighest(g, n)
  BY <1>2, <1>15, <1>16 DEF PeakIsHighest
<1>18. ASSUME NEW a \in 0 .. n, NEW b \in 0 .. n, a <= b
       PROVE  w1 * From(g, a, b) <= To(g, a, b) * w2
  <2>1. CASE b = n
    <3>1. g[a].equity * U <= P * g[a].unit
      BY <1>15
    <3>2. w1 * (g[a].equity * U) <= (E * g[a].unit) * w2
      BY <1>6, <1>8, <1>14, <3>1, FallToNew
    <3> QED BY <1>2, <2>1, <3>2 DEF From, To
  <2>2. CASE b \in 0 .. k
    <3>1. a \in 0 .. k
      BY <1>3, <1>18, <2>2
    <3>2. v1 * From(g, a, b) <= To(g, a, b) * v2
      BY <1>18, <2>2, <3>1 DEF CurveOK, WorstBounds, v1, v2
    <3>3. CASE ~worse
      BY <1>2, <3>2, <3>3
    <3>4. CASE worse
      <4>1. E * v2 <= v1 * P
        BY <1>7, <3>4
      <4>2. From(g, a, b) \in Nat /\ To(g, a, b) \in Nat
        BY <1>5, <1>14 DEF From, To
      <4>3. E * From(g, a, b) <= To(g, a, b) * P
        BY <1>3, <1>6, <3>2, <4>1, <4>2, FallToOld
      <4> QED BY <1>2, <3>4, <4>3
    <3> QED BY <3>3, <3>4
  <2> QED BY <1>9, <2>1, <2>2
<1>19. WorstBounds(g, n)
  BY <1>18 DEF WorstBounds, w1, w2
<1>20. \E a, b \in 0 .. n : a <= b /\ w1 * From(g, a, b) = To(g, a, b) * w2
  <2>1. CASE worse
    <3>1. PICK a \in 0 .. n : g[a].equity * U = P * g[a].unit
      BY <1>16
    <3> DEFINE y == g[a].unit
    <3>2. y \in Nat /\ From(g, a, n) = P * y /\ To(g, a, n) = E * y
      BY <1>2, <1>14, <3>1 DEF From, To
    <3> HIDE DEF y
    <3>3. E * (P * y) = (E * y) * P
      BY <1>6, <3>2
    <3>4. a <= n
      BY <1>3
    <3> QED BY <1>2, <1>11, <2>1, <3>2, <3>3, <3>4
  <2>2. CASE ~worse
    <3>1. PICK a \in 0 .. k, b \in 0 .. k : a <= b /\ v1 * From(g, a, b) = To(g, a, b) * v2
      BY DEF CurveOK, WorstIsReached, v1, v2
    <3> QED BY <1>2, <1>10, <2>2, <3>1
  <2> QED BY <2>1, <2>2
<1>21. WorstIsReached(g, n)
  BY <1>20 DEF WorstIsReached, w1, w2
<1>22. WipedOutStays(g, n, pnls)
  <2>1. SUFFICES ASSUME NEW j \in 1 .. n, pnls[j] <= -Den PROVE E = 0 /\ w1 = 0
    BY <1>2 DEF WipedOutStays, w1
  <2>2. CASE j = n
    <3>1. p = -Den
      BY <1>1, <1>4, <2>1, <2>2 DEF p, n
    <3>2. E = 0
      BY <1>1, <1>3, <3>1 DEF E
    <3>3. worse => w1 = 0
      BY <1>2, <3>2
    <3>4. ~worse => w1 = 0
      <4>1. E * v2 = 0
        BY <1>3, <3>2
      <4>2. v1 # 0 => v1 * P # 0
        BY <1>3, <1>5, <1>6
      <4> QED BY <1>2, <1>7, <4>1, <4>2
    <3> QED BY <3>2, <3>3, <3>4
  <2>3. CASE j \in 1 .. k
    <3>1. e = 0 /\ v1 = 0
      BY <2>1, <2>3 DEF CurveOK, WipedOutStays, e, v1
    <3>2. E = 0
      BY <1>4, <3>1 DEF E
    <3> QED BY <1>2, <3>1, <3>2
  <2>4. j \in 1 .. k \/ j = n
    BY DEF n
  <2> QED BY <2>2, <2>3, <2>4
<1>23. CurveOK(g, n, pnls)
  BY <1>12, <1>13, <1>17, <1>19, <1>21, <1>22 DEF CurveOK
<1> QED BY <1>23 DEF n

\* The curve of any trades that lose no more than the stake.
LEMMA CurveKeeps ==
    ASSUME NEW pnls, Len(pnls) \in Nat, \A j \in 1 .. Len(pnls) : pnls[j] \in Int /\ pnls[j] >= -Den
    PROVE  CurveOK(EquityCurve(pnls), Len(pnls), pnls)
<1> DEFINE g == EquityCurve(pnls)
           n == Len(pnls)
           T == {k \in Nat : k <= n => CurveOK(g, k, pnls)}
<1>1. g[0] = CurveStart /\ \A k \in 1 .. n : g[k] = EquityStep(g[k - 1], pnls[k])
  BY CurveSolves
<1> HIDE DEF g
<1>2. 0 \in T
  BY <1>1, CurveStarts
<1>3. ASSUME NEW k \in Nat, k \in T PROVE k + 1 \in T
  <2>1. SUFFICES ASSUME k + 1 <= n PROVE CurveOK(g, k + 1, pnls)
    BY <1>3
  <2>2. k + 1 \in 1 .. n /\ k <= n /\ (k + 1) - 1 = k
    BY <1>3, <2>1
  <2>3. CurveOK(g, k, pnls)
    BY <1>3, <2>2
  <2>4. g[k + 1] = EquityStep(g[k], pnls[k + 1])
    BY <1>1, <2>2
  <2>5. pnls[k + 1] \in Int /\ pnls[k + 1] >= -Den
    BY <2>2
  <2> QED BY <1>3, <2>3, <2>4, <2>5, CurveSteps
<1> HIDE DEF T
<1>4. n \in T
  BY <1>2, <1>3, SetInduction
<1> QED BY <1>4 DEF T, g

\* The signals of the first n bars.
Counted(n) == Cardinality({j \in 1 .. n : signals[j] # "none"})

GoodMetric(m) ==
    /\ Len(m.pnls) \in Nat /\ DOMAIN m.pnls = 1 .. Len(m.pnls)
    /\ Len(m.pnls) = Counted(Len(frame) - 1)
    /\ CurveOK(EquityCurve(m.pnls), Len(m.pnls), m.pnls)
    /\ m.equity = EquityCurve(m.pnls)[Len(m.pnls)].equity
    /\ m.worst = EquityCurve(m.pnls)[Len(m.pnls)].worst

\* What DrawdownIsWorstFall needs to be inductive: while the bars of a pair are
\* replayed, there is one result for each signal passed.
TallyInv ==
    /\ metrics \in Seq(ToSet(metrics))
    /\ pc \in {"fetch", "fetched", "failed", "signals"} => metrics = <<>>
    /\ pc = "signals" => i = 0
    /\ script = "5" =>
           /\ \A n \in DOMAIN metrics : GoodMetric(metrics[n])
           /\ \A n \in DOMAIN results : results[n].pnl \in Int
           /\ pc \in {"entry", "follow"} => Len(results) = Counted(i) /\ (i = 0 \/ i <= Len(frame) - 1)
           /\ pc = "follow" => signals[i + 1] # "none" /\ i + 1 <= Len(frame) - 1
           /\ pc = "measure" => Len(results) = Counted(Len(frame) - 1)

LEMMA CountedNext ==
    ASSUME NEW n \in Nat
    PROVE  Counted(n) \in Nat /\ Counted(n + 1) = Counted(n) + One(signals[n + 1] # "none")
<1> DEFINE P == {k \in Nat : signals[k] # "none"}
<1>1. \A m \in Nat : {j \in 1 .. m : signals[j] # "none"} = (1 .. m) \cap P
  OBVIOUS
<1>2. One(n + 1 \in P) = One(signals[n + 1] # "none") /\ n + 1 \in Nat
  BY DEF One
<1> HIDE DEF P
<1> QED BY <1>1, <1>2, PlacesNext DEF Counted

LEMMA CountedNone == ASSUME NEW n \in Int, n <= 0 PROVE Counted(n) = 0
<1>1. {j \in 1 .. n : signals[j] # "none"} = {}
  OBVIOUS
<1> QED BY <1>1, FS_EmptySet DEF Counted

LEMMA SeqOfItsOwn == ASSUME NEW S, NEW s \in Seq(S) PROVE s \in Seq(ToSet(s))
<1>1. Len(s) \in Nat /\ s = [k \in 1 .. Len(s) |-> s[k]] /\ DOMAIN s = 1 .. Len(s)
  OBVIOUS
<1>2. \A k \in 1 .. Len(s) : s[k] \in ToSet(s)
  BY <1>1 DEF ToSet
<1> HIDE DEF ToSet
<1>3. s \in [1 .. Len(s) -> ToSet(s)]
  BY <1>1, <1>2
<1> QED BY <1>1, <1>3

\* Metrics stay good when the frame and the signals stand.
LEMMA MetricStays ==
    ASSUME NEW m, GoodMetric(m), UNCHANGED <<frame, signals>>
    PROVE  GoodMetric(m)'
<1>1. (Len(frame) - 1)' = Len(frame) - 1 /\ \A n : Counted(n) = Counted(n)'
  BY DEF Counted
<1> QED BY <1>1 DEF GoodMetric, Counted, CurveOK, Positive, Typed, PeakIsHighest, WorstBounds,
           WorstIsReached, WipedOutStays, To, From, EquityCurve, EquityStep

LEMMA MetricsStay ==
    ASSUME \A n \in DOMAIN metrics : GoodMetric(metrics[n]), UNCHANGED <<frame, signals, metrics>>
    PROVE  \A n \in DOMAIN metrics' : GoodMetric(metrics[n])'
<1> SUFFICES ASSUME NEW n \in DOMAIN metrics' PROVE GoodMetric(metrics[n])'
  OBVIOUS
<1> DEFINE m == metrics[n]
<1>1. GoodMetric(m)
  OBVIOUS
<1>2. \A x : x = m => GoodMetric(x)'
  BY <1>1, MetricStays
<1> QED BY <1>2

LEMMA MetricIsGood ==
    ASSUME ReplayInv, TallyInv, pc = "measure", NEW leverage \in Nat
    PROVE  GoodMetric(ComputeMetrics(leverage))
<1> DEFINE pnls == [n \in 1 .. Len(results) |-> Leveraged(results[n].pnl, leverage)]
           m == ComputeMetrics(leverage)
<1>1. script = "5" /\ results \in Seq(ToSet(results))
  BY DEF ReplayInv, PhaseInv, ResultInv
<1>2. Len(results) \in Nat /\ DOMAIN results = 1 .. Len(results)
  BY <1>1
<1>3. Len(pnls) = Len(results) /\ DOMAIN pnls = 1 .. Len(pnls)
  BY <1>2
<1>4. Den \in Nat
  BY BacktestAssumption
<1>5. \A n \in 1 .. Len(results) : results[n].pnl \in Int
  BY <1>1, <1>2 DEF TallyInv
<1>6. \A x \in Int : x * leverage \in Int
  OBVIOUS
<1>7. ASSUME NEW j \in 1 .. Len(results) PROVE pnls[j] \in Int /\ pnls[j] >= -Den
  <2> DEFINE x == results[j].pnl * leverage
  <2>1. x \in Int
    BY <1>5, <1>6
  <2>2. pnls[j] = IF x <= -Den THEN -Den ELSE x
    BY DEF Leveraged
  <2> HIDE DEF x
  <2> QED BY <1>4, <2>1, <2>2
<1>8. /\ m.pnls = pnls /\ m.equity = EquityCurve(pnls)[Len(pnls)].equity
      /\ m.worst = EquityCurve(pnls)[Len(pnls)].worst
  BY DEF ComputeMetrics
<1> HIDE DEF pnls, m
<1>9. CurveOK(EquityCurve(pnls), Len(pnls), pnls)
  BY <1>2, <1>3, <1>7, CurveKeeps
<1>10. Len(results) = Counted(Len(frame) - 1)
  BY <1>1 DEF TallyInv
<1>11. GoodMetric(m)
  BY <1>2, <1>3, <1>8, <1>9, <1>10 DEF GoodMetric
<1> QED BY <1>11 DEF m

LEMMA NextPairTallies == ASSUME ReplayInv, TallyInv, NextPair PROVE TallyInv'
<1> DEFINE X == [n \in 1 .. Len(Leverages) |-> ComputeMetrics(Leverages[n])]
<1>1. /\ pc = "measure" /\ metrics' = metrics \o X /\ results' = <<>> /\ i' = 0
      /\ pc' \in {"done", "entry"} /\ UNCHANGED <<script, frame, signals>>
  BY DEF NextPair, replayed
<1>2. script = "5" /\ metrics \in Seq(ToSet(metrics)) /\ \A n \in DOMAIN metrics : GoodMetric(metrics[n])
  BY <1>1 DEF ReplayInv, PhaseInv, TallyInv
<1>3. Len(Leverages) \in Nat /\ \A n \in 1 .. Len(Leverages) : Leverages[n] \in Nat
  <2>1. Leverages \in Seq(Nat)
    BY BacktestAssumption
  <2> QED BY <2>1
<1>4. \A n \in 1 .. Len(Leverages) : GoodMetric(X[n])
  BY <1>1, <1>3, MetricIsGood
<1>5. Len(X) = Len(Leverages) /\ X \in Seq({X[n] : n \in 1 .. Len(Leverages)})
  BY <1>3
<1> HIDE DEF X
<1> DEFINE S == ToSet(metrics) \cup {X[n] : n \in 1 .. Len(Leverages)}
<1>6. metrics \in Seq(S) /\ X \in Seq(S)
  BY <1>2, <1>5
<1> HIDE DEF S
<1>7. /\ metrics' \in Seq(S) /\ Len(metrics') = Len(metrics) + Len(X) /\ Len(metrics) \in Nat
      /\ \A k \in 1 .. Len(metrics') : metrics'[k] = IF k <= Len(metrics) THEN metrics[k] ELSE X[k - Len(metrics)]
  BY <1>1, <1>6, ConcatProperties
<1>8. metrics' \in Seq(ToSet(metrics'))
  BY <1>7, SeqOfItsOwn
<1>9. ASSUME NEW k \in DOMAIN metrics' PROVE GoodMetric(metrics'[k])
  <2>1. k \in 1 .. Len(metrics') /\ DOMAIN metrics = 1 .. Len(metrics)
    BY <1>6, <1>7
  <2>2. CASE k <= Len(metrics)
    BY <1>2, <1>7, <2>1, <2>2
  <2>3. CASE ~(k <= Len(metrics))
    <3>1. k - Len(metrics) \in 1 .. Len(Leverages)
      BY <1>3, <1>5, <1>7, <2>1, <2>3
    <3> QED BY <1>4, <1>7, <2>1, <2>3, <3>1
  <2> QED BY <2>2, <2>3
<1>10. \A k \in DOMAIN metrics' : GoodMetric(metrics[k])'
  <2> SUFFICES ASSUME NEW k \in DOMAIN metrics' PROVE GoodMetric(metrics[k])'
    OBVIOUS
  <2> DEFINE m == metrics'[k]
  <2>1. GoodMetric(m)
    BY <1>9
  <2>2. \A x : x = m => GoodMetric(x)'
    BY <1>1, <2>1, MetricStays
  <2> QED BY <2>2
<1>11. Counted(0) = 0 /\ Counted(i)' = Counted(0)
  BY <1>1, CountedNone DEF Counted
<1>12. Len(results') = 0 /\ DOMAIN results' = {}
  BY <1>1
<1> QED BY <1>1, <1>8, <1>10, <1>11, <1>12 DEF TallyInv

LEMMA RunBacktestTallies == ASSUME ReplayInv, TallyInv, RunBacktest PROVE TallyInv'
<1>1. /\ pc = "entry"
      /\ IF i >= Len(frame) - 1
         THEN pc' = "measure" /\ UNCHANGED i
         ELSE IF signals[i + 1] = "none"
              THEN pc' = "entry" /\ i' = i + 1
              ELSE pc' = "follow" /\ i' = i
      /\ UNCHANGED <<script, frame, results, metrics, signals>>
  BY DEF RunBacktest, replayed
<1>2. script = "5" /\ i \in Nat /\ Len(frame) \in Nat
  BY <1>1 DEF ReplayInv, PhaseInv, FrameInv
<1>3. /\ Len(results) = Counted(i) /\ (i = 0 \/ i <= Len(frame) - 1)
      /\ \A n \in DOMAIN results : results[n].pnl \in Int
      /\ metrics \in Seq(ToSet(metrics)) /\ \A n \in DOMAIN metrics : GoodMetric(metrics[n])
  BY <1>1, <1>2 DEF TallyInv
<1>4. /\ \A n \in DOMAIN metrics' : GoodMetric(metrics[n])'
      /\ \A n \in DOMAIN results' : results'[n].pnl \in Int
      /\ metrics' \in Seq(ToSet(metrics'))
  BY <1>1, <1>3, MetricsStay
<1>5. CASE i >= Len(frame) - 1
  <2>1. pc' = "measure"
    BY <1>1, <1>5
  <2>2. Counted(i) = Counted(Len(frame) - 1)
    <3>1. CASE i = Len(frame) - 1
      BY <3>1
    <3>2. CASE i = 0 /\ Len(frame) - 1 <= 0
      BY <1>2, <3>2, CountedNone
    <3> QED BY <1>2, <1>3, <1>5, <3>1, <3>2
  <2>3. Len(results') = Counted(Len(frame) - 1)'
    BY <1>1, <1>3, <2>2 DEF Counted
  <2> QED BY <1>4, <2>1, <2>3 DEF TallyInv
<1>6. CASE ~(i >= Len(frame) - 1) /\ signals[i + 1] = "none"
  <2>1. pc' = "entry" /\ i' = i + 1 /\ i' <= Len(frame') - 1
    BY <1>1, <1>2, <1>6
  <2>2. Counted(i + 1) = Counted(i)
    <3>1. One(signals[i + 1] # "none") = 0
      BY <1>6 DEF One
    <3> QED BY <1>2, <3>1, CountedNext
  <2>3. Len(results') = Counted(i)'
    BY <1>1, <1>3, <2>1, <2>2 DEF Counted
  <2> QED BY <1>4, <2>1, <2>3 DEF TallyInv
<1>7. CASE ~(i >= Len(frame) - 1) /\ signals[i + 1] # "none"
  <2>1. pc' = "follow" /\ i' = i /\ i + 1 <= Len(frame) - 1
    BY <1>1, <1>2, <1>7
  <2>2. Len(results') = Counted(i)' /\ signals'[i' + 1] # "none" /\ i' + 1 <= Len(frame') - 1
    BY <1>1, <1>3, <1>7, <2>1 DEF Counted
  <2>3. i' = 0 \/ i' <= Len(frame') - 1
    BY <1>1, <1>3, <2>1
  <2> QED BY <1>4, <2>1, <2>2, <2>3 DEF TallyInv
<1> QED BY <1>5, <1>6, <1>7

\* A round of the inner loop adds a result when the trade ends, and none before.
LEMMA FollowAppends ==
    ASSUME ReplayInv, trade # NoTrade, NEW next, FollowTrade(SlOf(fold), TpOf(fold), next)
    PROVE  \/ \E e : results' = Append(results, e) /\ e.pnl \in Int /\ trade' = NoTrade /\ i' = next
           \/ results' = results /\ trade' # NoTrade /\ i' = i
<1>1. ASSUME NEW outcome, NEW pnl \in Int, Exit(outcome, pnl, next)
      PROVE  \E e : results' = Append(results, e) /\ e.pnl \in Int /\ trade' = NoTrade /\ i' = next
  <2> DEFINE e == [fold |-> fold, at |-> trade.at, side |-> trade.side,
                   exit |-> trade.k, outcome |-> outcome, pnl |-> pnl]
  <2>1. results' = Append(results, e) /\ trade' = NoTrade /\ i' = next
    BY <1>1 DEF Exit
  <2>2. e.pnl \in Int
    OBVIOUS
  <2> QED BY <2>1, <2>2
<1>2. -SlOf(fold) \in Int /\ TpOf(fold) \in Int
  BY FollowedTrade
<1>3. Return(trade, Bar(trade.last).close) \in Int
  <2> DEFINE e == trade.entry
             p == Bar(trade.last).close
  <2>1. trade.last \in 0 .. trade.last /\ e \in Nat \ {0}
    BY FollowedTrade
  <2>2. p \in Nat
    BY <2>1, FollowedTrade DEF Bars
  <2> HIDE DEF e, p
  <2>3. Den \in Nat
    BY BacktestAssumption
  <2>4. (p - e) * Den \in Int /\ (e - p) * Den \in Int
    BY <2>1, <2>2, <2>3
  <2>5. ((p - e) * Den) \div e \in Int /\ ((e - p) * Den) \div e \in Int
    BY <2>1, <2>4, QuotientBounds
  <2>6. Return(trade, p) = ((p - e) * Den) \div e \/ Return(trade, p) = ((e - p) * Den) \div e
    BY DEF Return, e
  <2> QED BY <2>5, <2>6 DEF p
<1>4. CASE trade' = [trade EXCEPT !.k = @ + 1] /\ UNCHANGED <<results, i>>
  <2>1. trade = [side |-> trade.side, entry |-> Bar(i).close, at |-> i,
                 k |-> trade.k, last |-> trade.last] /\ trade.side # "none"
    BY DEF ReplayInv, TradeInv
  <2>2. trade' = [side |-> trade.side, entry |-> Bar(i).close, at |-> i,
                  k |-> trade.k + 1, last |-> trade.last]
    BY <1>4, <2>1
  <2>3. trade'.side # "none"
    BY <2>1, <2>2
  <2>4. trade' # NoTrade
    BY <2>3 DEF NoTrade
  <2> QED BY <1>4, <2>4
<1>5. CASE \/ Exit("timeout", Return(trade, Bar(trade.last).close), next)
           \/ Exit("sl", -SlOf(fold), next)
           \/ Exit("tp", TpOf(fold), next)
  BY <1>1, <1>2, <1>3, <1>5
<1> QED BY <1>4, <1>5 DEF FollowTrade

LEMMA ScanForwardTallies == ASSUME ReplayInv, TallyInv, ScanForward PROVE TallyInv'
<1>1. /\ pc = "follow" /\ FollowTrade(Grid[fold][1], Grid[fold][2], i + 1)
      /\ pc' = (IF trade' = NoTrade THEN "entry" ELSE "follow")
      /\ UNCHANGED <<script, frame, signals, metrics>>
  BY DEF ScanForward, replayed
<1>2. /\ i \in Nat /\ script = "5" /\ trade # NoTrade /\ Len(frame) \in Nat
      /\ results \in Seq(ToSet(results))
  BY <1>1 DEF ReplayInv, PhaseInv, FrameInv, ResultInv
<1>3. /\ Len(results) = Counted(i) /\ signals[i + 1] # "none" /\ i + 1 <= Len(frame) - 1
      /\ \A n \in DOMAIN results : results[n].pnl \in Int
      /\ metrics \in Seq(ToSet(metrics)) /\ \A n \in DOMAIN metrics : GoodMetric(metrics[n])
  BY <1>1, <1>2 DEF TallyInv
<1>4. /\ \A n \in DOMAIN metrics' : GoodMetric(metrics[n])'
      /\ metrics' \in Seq(ToSet(metrics'))
  BY <1>1, <1>3, MetricsStay
<1>5. \/ \E e : results' = Append(results, e) /\ e.pnl \in Int /\ trade' = NoTrade /\ i' = i + 1
      \/ results' = results /\ trade' # NoTrade /\ i' = i
  <2>1. FollowTrade(SlOf(fold), TpOf(fold), i + 1)
    BY <1>1, <1>2 DEF SlOf, TpOf
  <2> QED BY <1>2, <2>1, FollowAppends
<1>6. CASE \E e : results' = Append(results, e) /\ e.pnl \in Int /\ trade' = NoTrade /\ i' = i + 1
  <2>1. PICK e : results' = Append(results, e) /\ e.pnl \in Int /\ trade' = NoTrade /\ i' = i + 1
    BY <1>6
  <2>2. \A n \in DOMAIN results' : results'[n].pnl \in Int
    BY <1>2, <1>3, <2>1, AppendShape
  <2>3. Len(results') = Len(results) + 1
    BY <1>2, <2>1
  <2>4. Counted(i + 1) = Counted(i) + 1
    <3>1. One(signals[i + 1] # "none") = 1
      BY <1>3 DEF One
    <3> QED BY <1>2, <3>1, CountedNext
  <2>5. Len(results') = Counted(i)'
    <3>1. Counted(i)' = Counted(i + 1)
      BY <1>1, <2>1 DEF Counted
    <3> QED BY <1>3, <2>3, <2>4, <3>1
  <2>6. pc' = "entry" /\ i' <= Len(frame') - 1
    BY <1>1, <1>3, <2>1
  <2> QED BY <1>4, <2>2, <2>5, <2>6 DEF TallyInv
<1>7. CASE results' = results /\ trade' # NoTrade /\ i' = i
  <2>1. pc' = "follow" /\ Len(results') = Counted(i)' /\ signals'[i' + 1] # "none"
    BY <1>1, <1>3, <1>7 DEF Counted
  <2>2. i' + 1 <= Len(frame') - 1 /\ (i' = 0 \/ i' <= Len(frame') - 1)
    BY <1>1, <1>2, <1>3, <1>7
  <2>3. \A n \in DOMAIN results' : results'[n].pnl \in Int
    BY <1>3, <1>7
  <2> QED BY <1>4, <2>1, <2>2, <2>3 DEF TallyInv
<1> QED BY <1>5, <1>6, <1>7

LEMMA AddSignalsTallies == ASSUME ReplayInv, TallyInv, AddSignals PROVE TallyInv'
<1>1. /\ pc = "signals" /\ pc' = "entry" /\ UNCHANGED <<script, frame, i, results, metrics>>
  BY DEF AddSignals
<1>2. results = <<>> /\ metrics = <<>> /\ i = 0
  BY <1>1 DEF ReplayInv, PhaseInv, TallyInv
<1>3. Counted(i)' = 0
  <2>1. {j \in 1 .. 0 : signals'[j] # "none"} = {}
    OBVIOUS
  <2> QED BY <1>1, <1>2, <2>1, FS_EmptySet DEF Counted
<1>4. Len(results') = 0 /\ DOMAIN results' = {} /\ DOMAIN metrics' = {} /\ metrics' \in Seq(ToSet(metrics'))
  BY <1>1, <1>2
<1> QED BY <1>1, <1>2, <1>3, <1>4 DEF TallyInv

LEMMA StepTallies == ASSUME ReplayInv, TallyInv, [Next]_vars PROVE TallyInv'
<1>1. CASE UNCHANGED vars
  <2>1. UNCHANGED <<script, frame, pc, i, results, metrics, signals>>
    BY <1>1 DEF vars
  <2>2. script' = "5" => \A n \in DOMAIN metrics' : GoodMetric(metrics[n])'
    BY <2>1, MetricsStay DEF TallyInv
  <2>3. Counted(i)' = Counted(i) /\ Counted(Len(frame) - 1)' = Counted(Len(frame) - 1)
    BY <2>1 DEF Counted
  <2> QED BY <2>1, <2>2, <2>3 DEF TallyInv
<1>2. ASSUME pc \in {"fetch", "fetched"}, pc' \in {"fetch", "fetched", "failed", "fold", "signals", "sample"},
             UNCHANGED <<i, results, metrics>>
      PROVE  TallyInv'
  <2>1. metrics = <<>> /\ results = <<>> /\ i = 0
    BY <1>2 DEF TallyInv, ReplayInv, PhaseInv, Fresh
  <2>2. DOMAIN results' = {} /\ DOMAIN metrics' = {} /\ metrics' \in Seq(ToSet(metrics')) /\ metrics' = <<>>
    BY <1>2, <2>1
  <2> QED BY <1>2, <2>1, <2>2 DEF TallyInv
<1>3. CASE RequestOne
  <2>1. CASE FetchPage
    BY <1>2, <1>3, <2>1 DEF RequestOne, FetchPage, Fetching, Receive, FetchKlinesBinance1, FetchKlinesBinance6,
       FetchKlinesBinanceK, FetchKlines2, Fetch1hKlines, FetchKlines5, FetchBtcDaily
  <2>2. CASE RequestFails
    BY <1>2, <1>3, <2>2 DEF RequestOne, RequestFails
  <2> QED BY <1>3, <2>1, <2>2 DEF RequestOne
<1>4. CASE BuildFrame
  <2>1. pc = "fetched" /\ pc' \in {"fold", "signals", "sample"} /\ UNCHANGED <<i, results, metrics>>
    BY <1>4 DEF BuildFrame
  <2> QED BY <1>2, <2>1
<1>5. ASSUME pc \in {"fold", "window", "trade", "sample"}, script' = script, metrics' = metrics,
             pc' \notin {"fetch", "fetched", "failed", "signals"}
      PROVE  TallyInv'
  <2>1. script # "5"
    BY <1>5 DEF ReplayInv, PhaseInv, Walks, Replayed
  <2> QED BY <1>5, <2>1 DEF TallyInv
<1>6. CASE NextFold
  BY <1>5, <1>6 DEF NextFold, replayed
<1>7. CASE BacktestSymbol1 \/ BacktestSymbolK \/ BacktestFold
  BY <1>5, <1>7 DEF BacktestSymbol1, BacktestSymbolK, BacktestFold, Window, replayed
<1>8. CASE SimulateTrade1 \/ SimulateTradeK \/ SimulateTrade6
  BY <1>5, <1>8 DEF SimulateTrade1, SimulateTradeK, SimulateTrade6, Scan, replayed
<1>9. CASE Evaluate \/ AnalyseAgreement
  BY <1>5, <1>9 DEF Evaluate, AnalyseAgreement, Sample, replayed
<1>10. CASE ContrarianStrategy
  BY <1>5, <1>10 DEF ContrarianStrategy, replayed
<1> QED BY <1>1, <1>3, <1>4, <1>6, <1>7, <1>8, <1>9, <1>10, AddSignalsTallies, RunBacktestTallies,
           ScanForwardTallies, NextPairTallies DEF Next

\* The drawdown of a pair of the grid is the worst fall of its equity curve, for
\* every grid, leverage and history.
THEOREM DrawdownIsWorstFallHolds == Spec => []DrawdownIsWorstFall
<1>1. Init => TallyInv
  <2> SUFFICES ASSUME Init PROVE TallyInv
    OBVIOUS
  <2>1. metrics = <<>> /\ results = <<>> /\ pc = "fetch"
    BY DEF Init, DownloadInit
  <2>2. DOMAIN results = {} /\ DOMAIN metrics = {} /\ metrics \in Seq(ToSet(metrics))
    BY <2>1
  <2> QED BY <2>1, <2>2 DEF TallyInv
<1>2. ReplayInv /\ TallyInv /\ [Next]_vars => TallyInv'
  BY StepTallies
<1>3. TallyInv => DrawdownIsWorstFall
  <2> SUFFICES ASSUME TallyInv, script = "5" PROVE DrawdownIsWorstFall
    BY DEF DrawdownIsWorstFall
  <2>1. ASSUME NEW n \in DOMAIN metrics
        PROVE  LET m == metrics[n]
                   size == Len(m.pnls)
                   curve == EquityCurve(m.pnls)
                   spans == {p \in (0 .. size) \X (0 .. size) : p[1] <= p[2]}
                   falls == {<<curve[p[2]].equity * curve[p[1]].unit,
                               curve[p[1]].equity * curve[p[2]].unit>> : p \in spans}
               IN  /\ size = Cardinality({j \in 1 .. Len(frame) - 1 : signals[j] # "none"})
                   /\ \A f \in falls : f[1] * m.worst[2] >= m.worst[1] * f[2]
                   /\ \E f \in falls : f[1] * m.worst[2] = m.worst[1] * f[2]
                   /\ m.equity >= 0
                   /\ (\E k \in DOMAIN m.pnls : m.pnls[k] <= -Den) => m.equity = 0 /\ m.worst[1] = 0
    <3> DEFINE m == metrics[n]
               size == Len(m.pnls)
               curve == EquityCurve(m.pnls)
               spans == {p \in (0 .. size) \X (0 .. size) : p[1] <= p[2]}
               falls == {<<curve[p[2]].equity * curve[p[1]].unit,
                           curve[p[1]].equity * curve[p[2]].unit>> : p \in spans}
    <3>1. GoodMetric(m)
      BY DEF TallyInv
    <3>2. /\ size \in Nat /\ DOMAIN m.pnls = 1 .. size
          /\ CurveOK(curve, size, m.pnls) /\ size = Counted(Len(frame) - 1)
          /\ m.equity = curve[size].equity /\ m.worst = curve[size].worst
      BY <3>1 DEF GoodMetric
    <3>3. /\ \A a, b \in 0 .. size : curve[a].equity \in Nat /\ curve[b].unit \in Nat
          /\ m.worst[1] \in Nat /\ m.worst[2] \in Nat
      BY <3>2 DEF CurveOK, Positive, Typed
    <3> HIDE DEF m, size, curve
    <3>4. ASSUME NEW a \in 0 .. size, NEW b \in 0 .. size
          PROVE  /\ m.worst[1] * From(curve, a, b) \in Int /\ To(curve, a, b) * m.worst[2] \in Int
                 /\ m.worst[1] * From(curve, a, b) = m.worst[1] * (curve[a].equity * curve[b].unit)
                 /\ To(curve, a, b) * m.worst[2] = (curve[b].equity * curve[a].unit) * m.worst[2]
      <4>1. From(curve, a, b) \in Nat /\ To(curve, a, b) \in Nat
        BY <3>3 DEF From, To
      <4>2. \A x, y \in Nat : x * y \in Int
        OBVIOUS
      <4> QED BY <3>3, <4>1, <4>2 DEF From, To
    <3>5. \A f \in falls : f[1] * m.worst[2] >= m.worst[1] * f[2]
      <4>1. SUFFICES ASSUME NEW p \in spans
                     PROVE  (curve[p[2]].equity * curve[p[1]].unit) * m.worst[2]
                                >= m.worst[1] * (curve[p[1]].equity * curve[p[2]].unit)
        OBVIOUS
      <4>2. p[1] \in 0 .. size /\ p[2] \in 0 .. size /\ p[1] <= p[2]
        OBVIOUS
      <4>3. m.worst[1] * From(curve, p[1], p[2]) <= To(curve, p[1], p[2]) * m.worst[2]
        BY <3>2, <4>2 DEF CurveOK, WorstBounds
      <4> QED BY <3>4, <4>2, <4>3
    <3>6. \E f \in falls : f[1] * m.worst[2] = m.worst[1] * f[2]
      <4>1. PICK a \in 0 .. size, b \in 0 .. size :
                   a <= b /\ m.worst[1] * From(curve, a, b) = To(curve, a, b) * m.worst[2]
        BY <3>2 DEF CurveOK, WorstIsReached
      <4> DEFINE f == <<curve[b].equity * curve[a].unit, curve[a].equity * curve[b].unit>>
      <4>2. <<a, b>> \in spans
        BY <4>1
      <4>3. f \in falls
        BY <4>2
      <4>4. f[1] * m.worst[2] = m.worst[1] * f[2]
        BY <3>4, <4>1
      <4> QED BY <4>3, <4>4
    <3>7. m.equity \in Nat
      <4>1. size \in 0 .. size
        BY <3>2
      <4> QED BY <3>2, <3>3, <4>1
    <3>8. (\E k \in DOMAIN m.pnls : m.pnls[k] <= -Den) => m.equity = 0 /\ m.worst[1] = 0
      BY <3>2 DEF CurveOK, WipedOutStays
    <3>9. m.equity >= 0
      BY <3>7
    <3> QED BY <3>2, <3>5, <3>6, <3>8, <3>9 DEF Counted, m, size, curve
  <2> QED BY <2>1 DEF DrawdownIsWorstFall
<1> QED BY <1>1, <1>2, <1>3, ReplayInvHolds, PTL DEF Spec
=============================================================================
