------------------------------ MODULE SumProofs ------------------------------
(***************************************************************************)
(* What the proofs about accounts and means need of Sum: it is an integer, *)
(* 0 for the zero function, changing one summand changes it by the         *)
(* difference, it is linear, and a sum of naturals is 0 only if each of    *)
(* them is.  Each is an induction over the subsets of the finite domain,*)
(* done by looking at a minimal counterexample (WFMin).                    *)
(***************************************************************************)
EXTENDS Sums, FiniteSetTheorems, WellFoundedInduction, TLAPS

Body(f, g, S) == IF S = {} THEN 0 ELSE f[Pick(S)] + g[S \ {Pick(S)}]

\* The defining equation of the function inside Sum.
Solves(f, D, g) == g = [S \in SUBSET D |-> Body(f, g, S)]

\* g solves it for the subsets of at most n elements.
SolvesUpTo(f, D, g, n) ==
    \A S \in SUBSET D : Cardinality(S) <= n => g[S] = Body(f, g, S)

LEMMA PickInSet == ASSUME NEW S, S # {} PROVE Pick(S) \in S
BY DEF Pick

\* A set of naturals that is not empty has a least element.
LEMMA LeastNatural ==
    ASSUME NEW T \in SUBSET Nat, T # {}
    PROVE  \E n \in T : \A m \in T : n <= m
<1>1. \E n \in T : \A m \in T : ~(<<m, n>> \in OpToRel(<, Nat))
  BY NatLessThanWellFounded, WFMin, Zenon
<1>2. PICK n \in T : \A m \in T : ~(<<m, n>> \in OpToRel(<, Nat))
  BY <1>1
<1>3. ASSUME NEW m \in T PROVE n <= m
  <2>1. ~(<<m, n>> \in OpToRel(<, Nat))
    BY <1>2
  <2>2. ~(m < n)
    BY <2>1 DEF OpToRel
  <2> QED BY <2>2
<1> QED BY <1>3

\* A property that fails for a subset of a finite set fails for a minimal one.
LEMMA MinimalSubset ==
    ASSUME NEW D, IsFiniteSet(D), NEW Bad \in SUBSET (SUBSET D), Bad # {}
    PROVE  \E S \in Bad : \A x \in S : S \ {x} \notin Bad
<1>1. FiniteSubsetsOf(D) = SUBSET D
  BY FS_FiniteSubsetsOfFinite
<1>2. IsWellFoundedOn(StrictSubsetOrdering(D), SUBSET D)
  BY <1>1, FS_StrictSubsetOrderingWellFounded
<1>3. PICK S \in Bad : \A U \in Bad : ~(<<U, S>> \in StrictSubsetOrdering(D))
  BY <1>2, WFMin, Zenon
<1>4. ASSUME NEW x \in S PROVE S \ {x} \notin Bad
  <2>1. <<S \ {x}, S>> \in (SUBSET D) \X (SUBSET D)
    OBVIOUS
  <2>2. S \ {x} \subseteq S /\ S \ {x} # S
    OBVIOUS
  <2>3. <<S \ {x}, S>> \in StrictSubsetOrdering(D)
    BY <2>1, <2>2 DEF StrictSubsetOrdering
  <2> QED BY <1>3, <2>3
<1> QED BY <1>4

\* Approximations: for every n some function solves the equation for the subsets of
\* at most n elements.
LEMMA SumApproximable ==
    ASSUME NEW D, IsFiniteSet(D), NEW f
    PROVE  \A n \in Nat : \E g : SolvesUpTo(f, D, g, n)
<1> DEFINE Bad == {n \in Nat : ~ \E g : SolvesUpTo(f, D, g, n)}
<1>1. SUFFICES ASSUME Bad # {} PROVE FALSE
  OBVIOUS
<1>2. PICK n \in Bad : \A m \in Bad : n <= m
  BY <1>1, LeastNatural
<1>3. \A S \in SUBSET D : IsFiniteSet(S) /\ Cardinality(S) \in Nat
  BY FS_Subset, FS_CardinalityType
<1>4. CASE n = 0
  <2> DEFINE g == [S \in SUBSET D |-> 0]
  <2>1. ASSUME NEW S \in SUBSET D, Cardinality(S) <= 0
        PROVE  g[S] = Body(f, g, S)
    <3>1. S = {}
      BY <2>1, <1>3, FS_EmptySet
    <3> QED BY <3>1 DEF Body
  <2>2. SolvesUpTo(f, D, g, 0)
    BY <2>1 DEF SolvesUpTo
  <2> QED BY <2>2, <1>2, <1>4
<1>5. CASE n # 0
  <2>1. n - 1 \in Nat /\ n - 1 \notin Bad
    BY <1>2, <1>5
  <2>2. PICK h : SolvesUpTo(f, D, h, n - 1)
    BY <2>1
  <2> DEFINE g == [S \in SUBSET D |-> Body(f, h, S)]
  <2>3. ASSUME NEW S \in SUBSET D, Cardinality(S) <= n
        PROVE  g[S] = Body(f, g, S)
    <3>1. CASE S = {}
      BY <3>1 DEF Body
    <3>2. CASE S # {}
      <4> DEFINE R == S \ {Pick(S)}
      <4>1. R \in SUBSET D /\ Cardinality(R) = Cardinality(S) - 1
        BY <3>2, <1>3, PickInSet, FS_RemoveElement
      <4>2. Cardinality(R) <= n - 1
        BY <4>1, <2>3, <1>3, <1>2
      <4>3. h[R] = Body(f, h, R)
        BY <4>1, <4>2, <2>2 DEF SolvesUpTo
      <4>4. g[R] = h[R]
        BY <4>1, <4>3
      <4>5. g[S] = f[Pick(S)] + h[R]
        BY <3>2 DEF Body
      <4> QED BY <3>2, <4>4, <4>5 DEF Body
    <3> QED BY <3>1, <3>2
  <2>4. SolvesUpTo(f, D, g, n)
    BY <2>3 DEF SolvesUpTo
  <2> QED BY <2>4, <1>2
<1> QED BY <1>4, <1>5

\* The recursive function inside Sum exists, so Sum is its value at D.
LEMMA SumSolves ==
    ASSUME NEW D, IsFiniteSet(D), NEW f
    PROVE  \E g : Solves(f, D, g) /\ Sum(f, D) = g[D]
<1>1. \A S \in SUBSET D : IsFiniteSet(S) /\ Cardinality(S) \in Nat
                          /\ Cardinality(S) <= Cardinality(D)
  BY FS_Subset, FS_CardinalityType
<1>2. PICK h : SolvesUpTo(f, D, h, Cardinality(D))
  <2>1. Cardinality(D) \in Nat
    BY <1>1
  <2> QED BY <2>1, SumApproximable
<1> DEFINE k == [S \in SUBSET D |-> h[S]]
<1>3. ASSUME NEW S \in SUBSET D PROVE k[S] = Body(f, k, S)
  <2>1. S \ {Pick(S)} \in SUBSET D
    OBVIOUS
  <2> QED BY <1>1, <1>2, <2>1 DEF Body, SolvesUpTo
<1>4. k = [S \in SUBSET D |-> Body(f, k, S)]
  BY <1>3
<1> DEFINE sum[S \in SUBSET D] == IF S = {} THEN 0 ELSE f[Pick(S)] + sum[S \ {Pick(S)}]
<1>5. \E g : g = [S \in SUBSET D |-> IF S = {} THEN 0 ELSE f[Pick(S)] + g[S \ {Pick(S)}]]
  BY <1>4, Zenon DEF Body
<1>6. sum = [S \in SUBSET D |-> IF S = {} THEN 0 ELSE f[Pick(S)] + sum[S \ {Pick(S)}]]
  BY <1>5, Zenon
<1>7. Solves(f, D, sum)
  BY <1>6, Zenon DEF Solves, Body
<1>8. Sum(f, D) = sum[D]
  BY DEF Sum
<1> QED BY <1>7, <1>8, Zenon

-----------------------------------------------------------------------------

\* A sum of integers is an integer.
THEOREM SumType ==
    ASSUME NEW D, IsFiniteSet(D), NEW f \in [D -> Int]
    PROVE  Sum(f, D) \in Int
<1>1. PICK g : Solves(f, D, g) /\ Sum(f, D) = g[D]
  BY SumSolves
<1> DEFINE Bad == {S \in SUBSET D : g[S] \notin Int}
<1>2. SUFFICES ASSUME Bad # {} PROVE FALSE
  BY <1>1
<1>3. PICK S \in Bad : \A x \in S : S \ {x} \notin Bad
  BY <1>2, MinimalSubset
<1>4. g[S] = Body(f, g, S)
  BY <1>1 DEF Solves
<1>5. CASE S = {}
  BY <1>3, <1>4, <1>5 DEF Body
<1>6. CASE S # {}
  <2>1. Pick(S) \in S /\ g[S \ {Pick(S)}] \in Int
    BY <1>3, <1>6, PickInSet
  <2>2. f[Pick(S)] \in Int
    BY <2>1, <1>3
  <2> QED BY <1>3, <1>4, <1>6, <2>1, <2>2 DEF Body
<1> QED BY <1>5, <1>6

\* The sum of zeros is zero.
THEOREM SumZero ==
    ASSUME NEW D, IsFiniteSet(D), NEW f, \A x \in D : f[x] = 0
    PROVE  Sum(f, D) = 0
<1>1. PICK g : Solves(f, D, g) /\ Sum(f, D) = g[D]
  BY SumSolves
<1> DEFINE Bad == {S \in SUBSET D : g[S] # 0}
<1>2. SUFFICES ASSUME Bad # {} PROVE FALSE
  BY <1>1
<1>3. PICK S \in Bad : \A x \in S : S \ {x} \notin Bad
  BY <1>2, MinimalSubset
<1>4. g[S] = Body(f, g, S)
  BY <1>1 DEF Solves
<1>5. CASE S = {}
  BY <1>3, <1>4, <1>5 DEF Body
<1>6. CASE S # {}
  <2>1. Pick(S) \in S /\ g[S \ {Pick(S)}] = 0
    BY <1>3, <1>6, PickInSet
  <2>2. f[Pick(S)] = 0
    BY <2>1, <1>3
  <2> QED BY <1>3, <1>4, <1>6, <2>1, <2>2 DEF Body
<1> QED BY <1>5, <1>6

\* Changing the summand of x changes the sum by the difference.
THEOREM SumUpdate ==
    ASSUME NEW D, IsFiniteSet(D), NEW e \in [D -> Int], NEW f \in [D -> Int],
           NEW x \in D, \A y \in D \ {x} : f[y] = e[y]
    PROVE  Sum(f, D) = Sum(e, D) + (f[x] - e[x])
<1>1. PICK g : Solves(f, D, g) /\ Sum(f, D) = g[D]
  BY SumSolves
<1>2. PICK h : Solves(e, D, h) /\ Sum(e, D) = h[D]
  BY SumSolves
<1> DEFINE Diff(S) == IF x \in S THEN f[x] - e[x] ELSE 0
           Bad == {S \in SUBSET D : ~(h[S] \in Int /\ g[S] = h[S] + Diff(S))}
<1>3. SUFFICES ASSUME Bad # {} PROVE FALSE
  BY <1>1, <1>2
<1>4. PICK S \in Bad : \A y \in S : S \ {y} \notin Bad
  BY <1>3, MinimalSubset
<1>5. g[S] = Body(f, g, S) /\ h[S] = Body(e, h, S)
  BY <1>1, <1>2 DEF Solves
<1>6. CASE S = {}
  BY <1>4, <1>5, <1>6 DEF Body
<1>7. CASE S # {}
  <2> DEFINE p == Pick(S)
             R == S \ {p}
  <2>1. p \in S /\ p \in D /\ R \in SUBSET D /\ R \notin Bad
    BY <1>4, <1>7, PickInSet
  <2>2. h[R] \in Int /\ g[R] = h[R] + Diff(R)
    BY <2>1
  <2>3. g[S] = f[p] + g[R] /\ h[S] = e[p] + h[R]
    BY <1>5, <1>7 DEF Body
  <2>4. e[p] \in Int /\ f[p] \in Int /\ e[x] \in Int /\ f[x] \in Int
    BY <2>1
  <2>5. CASE p = x
    <3>1. Diff(R) = 0 /\ Diff(S) = f[x] - e[x]
      BY <2>1, <2>5
    <3> HIDE DEF Diff, R
    <3>2. h[S] \in Int /\ g[S] = h[S] + Diff(S)
      BY <2>2, <2>3, <2>4, <2>5, <3>1
    <3> QED BY <1>4, <3>2
  <2>6. CASE p # x
    <3>1. Diff(R) = Diff(S) /\ Diff(S) \in Int /\ f[p] = e[p]
      BY <2>1, <2>4, <2>6
    <3> HIDE DEF Diff, R
    <3>2. h[S] \in Int /\ g[S] = h[S] + Diff(S)
      BY <2>2, <2>3, <2>4, <3>1
    <3> QED BY <1>4, <3>2
  <2> QED BY <2>5, <2>6
<1> QED BY <1>6, <1>7

\* h is a times e plus b times f.
Combines(h, a, e, b, f, D) ==
    /\ {a, b} \subseteq Int /\ {e, f, h} \subseteq [D -> Int]
    /\ \A x \in D : h[x] = a * e[x] + b * f[x]

\* The sum is linear in its summands.
THEOREM SumLinear ==
    ASSUME NEW D, IsFiniteSet(D), NEW e, NEW f, NEW h, NEW a, NEW b, Combines(h, a, e, b, f, D)
    PROVE  Sum(h, D) = a * Sum(e, D) + b * Sum(f, D)
<1>0. /\ a \in Int /\ b \in Int /\ e \in [D -> Int] /\ f \in [D -> Int] /\ h \in [D -> Int]
      /\ \A x \in D : h[x] = a * e[x] + b * f[x]
  BY DEF Combines
<1>1. PICK k : Solves(e, D, k) /\ Sum(e, D) = k[D]
  BY SumSolves
<1>2. PICK l : Solves(f, D, l) /\ Sum(f, D) = l[D]
  BY SumSolves
<1>3. PICK m : Solves(h, D, m) /\ Sum(h, D) = m[D]
  BY SumSolves
<1> DEFINE Good(S) == k[S] \in Int /\ l[S] \in Int /\ m[S] = a * k[S] + b * l[S]
           Bad == {S \in SUBSET D : ~Good(S)}
<1>4. SUFFICES ASSUME Bad # {} PROVE FALSE
  BY <1>1, <1>2, <1>3
<1>5. PICK S \in Bad : \A y \in S : S \ {y} \notin Bad
  BY <1>4, MinimalSubset
<1>6. k[S] = Body(e, k, S) /\ l[S] = Body(f, l, S) /\ m[S] = Body(h, m, S)
  BY <1>1, <1>2, <1>3 DEF Solves
<1>7. CASE S = {}
  BY <1>0, <1>5, <1>6, <1>7 DEF Body
<1>8. CASE S # {}
  <2> DEFINE p == Pick(S)
             R == S \ {p}
  <2>1. p \in S /\ p \in D /\ R \in SUBSET D /\ R \notin Bad
    BY <1>5, <1>8, PickInSet
  <2>2. k[R] \in Int /\ l[R] \in Int /\ m[R] = a * k[R] + b * l[R]
    BY <2>1
  <2>3. k[S] = e[p] + k[R] /\ l[S] = f[p] + l[R] /\ m[S] = h[p] + m[R]
    BY <1>6, <1>8 DEF Body
  <2>4. e[p] \in Int /\ f[p] \in Int /\ h[p] = a * e[p] + b * f[p]
    BY <1>0, <2>1
  <2> HIDE DEF p, R
  <2>5. a * (e[p] + k[R]) = a * e[p] + a * k[R] /\ b * (f[p] + l[R]) = b * f[p] + b * l[R]
    BY <1>0, <2>2, <2>4
  <2>6. Good(S)
    BY <1>0, <2>2, <2>3, <2>4, <2>5
  <2> QED BY <1>5, <2>6
<1> QED BY <1>7, <1>8

\* A sum of naturals is a natural, and 0 only if each of them is.
THEOREM SumOfNaturals ==
    ASSUME NEW D, IsFiniteSet(D), NEW f \in [D -> Nat]
    PROVE  Sum(f, D) \in Nat /\ (Sum(f, D) = 0 => \A x \in D : f[x] = 0)
<1>1. PICK g : Solves(f, D, g) /\ Sum(f, D) = g[D]
  BY SumSolves
<1> DEFINE Good(S) == g[S] \in Nat /\ (g[S] = 0 => \A x \in S : f[x] = 0)
           Bad == {S \in SUBSET D : ~Good(S)}
<1>2. SUFFICES ASSUME Bad # {} PROVE FALSE
  BY <1>1
<1>3. PICK S \in Bad : \A x \in S : S \ {x} \notin Bad
  BY <1>2, MinimalSubset
<1>4. g[S] = Body(f, g, S)
  BY <1>1 DEF Solves
<1>5. CASE S = {}
  BY <1>3, <1>4, <1>5 DEF Body
<1>6. CASE S # {}
  <2>1. Pick(S) \in S /\ Pick(S) \in D /\ Good(S \ {Pick(S)})
    BY <1>3, <1>6, PickInSet
  <2>2. f[Pick(S)] \in Nat /\ g[S] = f[Pick(S)] + g[S \ {Pick(S)}]
    BY <1>4, <1>6, <2>1 DEF Body
  <2> QED BY <1>3, <2>1, <2>2
<1> QED BY <1>5, <1>6

LEMMA ProductIsNatural == \A r \in Nat, i \in Nat : r * i \in Nat
OBVIOUS

LEMMA ProductIsPositive == \A r \in Nat, i \in Nat : (r > 0 /\ i > 0) => r * i > 0
OBVIOUS

LEMMA Combination ==
    \A c, t, u, r, s \in Int : (c * t) * (s * r) + (-(c * u)) * r = r * (c * (s * t - u))
OBVIOUS

\* The mean of some values with natural weights that are not all 0 lies within them:
\* a value with a weight is not above it, and one is not below it.
THEOREM MeanWithin ==
    ASSUME NEW D, IsFiniteSet(D), NEW w \in [D -> Nat], NEW v \in [D -> Int],
           NEW p \in [D -> Int], \A x \in D : p[x] = v[x] * w[x], Sum(w, D) # 0
    PROVE  /\ \E x \in D : w[x] > 0 /\ v[x] * Sum(w, D) <= Sum(p, D)
           /\ \E x \in D : w[x] > 0 /\ v[x] * Sum(w, D) >= Sum(p, D)
<1> DEFINE T == Sum(w, D)
           W == Sum(p, D)
<1>1. T \in Nat /\ W \in Int /\ \E x \in D : w[x] # 0
  BY SumOfNaturals, SumType, SumZero
<1>2. ASSUME NEW c \in {-1, 1}, \A x \in D : w[x] > 0 => c * (v[x] * T - W) > 0
      PROVE  FALSE
  <2> DEFINE h == [x \in D |-> (c * T) * p[x] + (-(c * W)) * w[x]]
  <2>1. ASSUME NEW x \in D PROVE h[x] \in Nat /\ (w[x] > 0 => h[x] > 0)
    <3> DEFINE i == c * (v[x] * T - W)
    <3>1. w[x] \in Nat /\ v[x] \in Int /\ p[x] = v[x] * w[x] /\ i \in Int
      BY <1>1, <1>2
    <3>2. h[x] = w[x] * i
      <4>1. h[x] = (c * T) * (v[x] * w[x]) + (-(c * W)) * w[x]
        BY <3>1
      <4> QED BY <1>1, <1>2, <3>1, <4>1, Combination
    <3>3. w[x] > 0 => i > 0
      BY <1>2
    <3> HIDE DEF i, h
    <3>4. CASE w[x] = 0
      BY <3>1, <3>2, <3>4
    <3>5. CASE w[x] # 0
      <4>1. i \in Nat /\ i > 0 /\ w[x] > 0
        BY <3>1, <3>3, <3>5
      <4> QED BY <3>1, <3>2, <4>1, ProductIsNatural, ProductIsPositive
    <3> QED BY <3>4, <3>5
  <2>2. h \in [D -> Nat]
    BY <2>1
  <2>3. Sum(h, D) = (c * T) * W + (-(c * W)) * T
    <3> DEFINE a == c * T
               b == -(c * W)
    <3>1. a \in Int /\ b \in Int
      BY <1>1, <1>2
    <3>2. \A x \in D : h[x] = a * p[x] + b * w[x]
      OBVIOUS
    <3>3. h \in [D -> Int] /\ w \in [D -> Int]
      BY <2>2
    <3> HIDE DEF h, a, b, T, W
    <3>4. Sum(h, D) = a * Sum(p, D) + b * Sum(w, D)
      <4>1. Combines(h, a, p, b, w, D)
        BY <3>1, <3>2, <3>3 DEF Combines
      <4> QED BY <4>1, SumLinear
    <3> QED BY <3>4 DEF T, W, a, b
  <2>4. Sum(h, D) = 0
    <3> HIDE DEF h, T, W
    <3>1. (c * T) * W + (-(c * W)) * T = 0
      BY <1>1, <1>2
    <3> QED BY <2>3, <3>1
  <2>5. \A x \in D : h[x] = 0
    <3> HIDE DEF h
    <3> QED BY <2>2, <2>4, SumOfNaturals
  <2> HIDE DEF h
  <2> QED BY <1>1, <2>1, <2>5
<1> HIDE DEF T, W
<1>3. \E x \in D : w[x] > 0 /\ v[x] * T <= W
  <2>1. PICK x \in D : w[x] > 0 /\ ~(1 * (v[x] * T - W) > 0)
    BY <1>2
  <2>2. v[x] * T \in Int
    BY <1>1
  <2> QED BY <1>1, <2>1, <2>2
<1>4. \E x \in D : w[x] > 0 /\ v[x] * T >= W
  <2>1. PICK x \in D : w[x] > 0 /\ ~((-1) * (v[x] * T - W) > 0)
    BY <1>2
  <2>2. v[x] * T \in Int
    BY <1>1
  <2> QED BY <1>1, <2>1, <2>2
<1> QED BY <1>3, <1>4 DEF T, W
=============================================================================
