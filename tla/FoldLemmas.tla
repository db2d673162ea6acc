----------------------------- MODULE FoldLemmas -----------------------------
(* What the modules with theorems need of folds, of finite sets and of their  *)
(* least members.  A fold's step is a function here, and so is its choice of  *)
(* an element: the theorems that take an operator cannot be instantiated.     *)
EXTENDS Integers, TLAPS, FiniteSetTheorems, WellFoundedInduction

\* Induction over the subsets of a finite set: a set F of them that has members
\* has one with no proper subset in F.
LEMMA LeastSubset ==
  ASSUME NEW S, IsFiniteSet(S), NEW F, F \subseteq SUBSET S, F # {}
  PROVE  \E T \in F : \A U \in F : U \subseteq T => U = T
<1>1. F \subseteq FiniteSubsetsOf(S)
  BY FS_FiniteSubsetsOfFinite
<1>2. IsWellFoundedOn(StrictSubsetOrdering(S), FiniteSubsetsOf(S))
  BY FS_StrictSubsetOrderingWellFounded
<1>3. PICK T \in F : \A U \in F : ~ (<<U, T>> \in StrictSubsetOrdering(S))
  BY <1>1, <1>2, WFMin
<1> QED BY <1>3 DEF StrictSubsetOrdering

Chooses(c, S) == \A s \in SUBSET S : s # {} => c[s] \in s

\* g is the fold of every subset of S by the steps F, in the order of c.
IsFold(g, S, base, F, c) ==
  g = [s \in SUBSET S |-> IF s = {} THEN base ELSE F[<<c[s], g[s \ {c[s]}]>>]]

LEMMA FoldsAgree ==
  ASSUME NEW S, NEW T, IsFiniteSet(S), NEW base, NEW F, NEW c, Chooses(c, S),
         NEW g, IsFold(g, S, base, F, c), NEW h, IsFold(h, T, base, F, c),
         NEW s \in SUBSET S, s \subseteq T
  PROVE  g[s] = h[s]
<1> DEFINE Differ == {u \in SUBSET s : g[u] # h[u]}
<1> SUFFICES ASSUME Differ # {} PROVE FALSE
  OBVIOUS
<1>1. IsFiniteSet(s)
  BY FS_Subset
<1>2. PICK u \in Differ : \A v \in Differ : v \subseteq u => v = u
  <2>1. Differ \subseteq SUBSET s
    OBVIOUS
  <2> HIDE DEF Differ
  <2> QED BY <1>1, <2>1, LeastSubset
<1>3. /\ u \in SUBSET S /\ u \in SUBSET T
      /\ g[u] = IF u = {} THEN base ELSE F[<<c[u], g[u \ {c[u]}]>>]
      /\ h[u] = IF u = {} THEN base ELSE F[<<c[u], h[u \ {c[u]}]>>]
  BY DEF IsFold
<1>4. u # {} => u \ {c[u]} \notin Differ
  BY <1>2, <1>3 DEF Chooses
<1> QED BY <1>3, <1>4

LEMMA FoldExists ==
  ASSUME NEW S, IsFiniteSet(S), NEW base, NEW F, NEW c, Chooses(c, S)
  PROVE  \E g : IsFold(g, S, base, F, c)
<1> DEFINE Missing == {T \in SUBSET S : ~ \E g : IsFold(g, T, base, F, c)}
<1> SUFFICES ASSUME Missing # {} PROVE FALSE
  OBVIOUS
<1>1. PICK T \in Missing : \A U \in Missing : U \subseteq T => U = T
  <2>1. Missing \subseteq SUBSET S
    OBVIOUS
  <2> HIDE DEF Missing
  <2> QED BY <2>1, LeastSubset
<1> DEFINE FoldOf(U) == CHOOSE g : IsFold(g, U, base, F, c)
           Rest(s) == s \ {c[s]}
           h == [s \in SUBSET T |-> IF s = {} THEN base ELSE F[<<c[s], FoldOf(Rest(s))[Rest(s)]>>]]
<1>2. ASSUME NEW U, U \subseteq T, U # T
      PROVE  IsFold(FoldOf(U), U, base, F, c)
  BY <1>1, <1>2
<1>3. ASSUME NEW s \in SUBSET T, s # {}
      PROVE  h[Rest(s)] = FoldOf(Rest(s))[Rest(s)]
  <2> DEFINE u == Rest(s)
  <2>1. c[s] \in s /\ u \subseteq T /\ u # T /\ u \in SUBSET S
    BY <1>3 DEF Chooses
  <2>2. FoldOf(u)[u] = IF u = {} THEN base ELSE F[<<c[u], FoldOf(u)[Rest(u)]>>]
    <3>1. IsFold(FoldOf(u), u, base, F, c)
      BY <1>2, <2>1
    <3> HIDE DEF FoldOf, u
    <3> QED BY <3>1 DEF IsFold
  <2>3. CASE u = {}
    BY <2>1, <2>2, <2>3
  <2>4. CASE u # {}
    <3>1. c[u] \in u /\ Rest(u) \subseteq T /\ Rest(u) # T /\ Rest(u) \subseteq u
      BY <2>1, <2>4 DEF Chooses
    <3>2. IsFold(FoldOf(u), u, base, F, c) /\ IsFold(FoldOf(Rest(u)), Rest(u), base, F, c)
      BY <1>2, <2>1, <3>1
    <3>3. IsFiniteSet(u) /\ Chooses(c, u)
      BY <2>1, FS_Subset DEF Chooses
    <3> HIDE DEF FoldOf, u
    <3>4. FoldOf(u)[Rest(u)] = FoldOf(Rest(u))[Rest(u)]
      BY <3>1, <3>2, <3>3, FoldsAgree
    <3>5. h[u] = F[<<c[u], FoldOf(Rest(u))[Rest(u)]>>]
      BY <2>1, <2>4
    <3> QED BY <2>2, <2>4, <3>4, <3>5 DEF u
  <2> QED BY <2>3, <2>4
<1>4. IsFold(h, T, base, F, c)
  <2> HIDE DEF h, FoldOf
  <2>1. \A s \in SUBSET T : s # {} => h[Rest(s)] = FoldOf(Rest(s))[Rest(s)]
    BY <1>3
  <2>2. h = [s \in SUBSET T |-> IF s = {} THEN base ELSE F[<<c[s], FoldOf(Rest(s))[Rest(s)]>>]]
    BY DEF h
  <2>3. h = [s \in SUBSET T |-> IF s = {} THEN base ELSE F[<<c[s], h[Rest(s)]>>]]
    BY <2>1, <2>2
  <2> QED BY <2>3 DEF IsFold
<1> QED BY <1>1, <1>4

\* A step that stays in V has a fold, and its values are in V.
LEMMA TypedFold ==
  ASSUME NEW S, IsFiniteSet(S), NEW V, NEW base \in V, NEW F \in [S \X V -> V],
         NEW c, Chooses(c, S)
  PROVE  \E g \in [SUBSET S -> V] : IsFold(g, S, base, F, c)
<1>1. PICK g : IsFold(g, S, base, F, c)
  BY FoldExists
<1> DEFINE Bad == {s \in SUBSET S : g[s] \notin V}
<1>2. CASE Bad # {}
  <2>1. PICK s \in Bad : \A u \in Bad : u \subseteq s => u = s
    <3>1. Bad \subseteq SUBSET S
      OBVIOUS
    <3> HIDE DEF Bad
    <3> QED BY <1>2, <3>1, LeastSubset
  <2>2. g[s] = IF s = {} THEN base ELSE F[<<c[s], g[s \ {c[s]}]>>]
    BY <1>1 DEF IsFold
  <2>3. s # {} => c[s] \in s /\ c[s] \in S /\ s \ {c[s]} \notin Bad
    BY <2>1 DEF Chooses
  <2>4. s # {} => g[s \ {c[s]}] \in V
    BY <2>3
  <2> QED BY <2>2, <2>3, <2>4
<1>3. CASE Bad = {}
  <2>1. g = [s \in SUBSET S |-> IF s = {} THEN base ELSE F[<<c[s], g[s \ {c[s]}]>>]]
    BY <1>1 DEF IsFold
  <2>2. DOMAIN g = SUBSET S
    BY <2>1
  <2>3. g \in [SUBSET S -> V]
    BY <1>3, <2>1, <2>2
  <2> QED BY <1>1, <2>3
<1> QED BY <1>2, <1>3

\* -------------------------------------------------------------------------
\* Least and greatest members of finite sets, by a weight.

LEMMA LeastMember ==
  ASSUME NEW S, IsFiniteSet(S), S # {}, NEW w, \A x \in S : w[x] \in Int
  PROVE  \E x \in S : \A y \in S : w[x] <= w[y]
<1> DEFINE Without == {T \in SUBSET S : T # {} /\ ~ \E x \in T : \A y \in T : w[x] <= w[y]}
<1> SUFFICES ASSUME Without # {} PROVE FALSE
  OBVIOUS
<1>1. PICK T \in Without : \A U \in Without : U \subseteq T => U = T
  <2>1. Without \subseteq SUBSET S
    OBVIOUS
  <2> HIDE DEF Without
  <2> QED BY <2>1, LeastSubset
<1>2. PICK a \in T : TRUE
  OBVIOUS
<1>3. T \ {a} # {}
  OBVIOUS
<1>4. PICK x \in T \ {a} : \A y \in T \ {a} : w[x] <= w[y]
  <2> DEFINE U == T \ {a}
  <2>1. U \in SUBSET S /\ U \subseteq T /\ U # T
    OBVIOUS
  <2>2. U \notin Without
    <3> HIDE DEF U, Without
    <3> QED BY <1>1, <2>1
  <2>3. U # {} => \E x \in U : \A y \in U : w[x] <= w[y]
    BY <2>1, <2>2
  <2> QED BY <1>3, <2>3
<1>5. w[x] \in Int /\ \A y \in T : w[y] \in Int
  OBVIOUS
<1>6. CASE w[a] <= w[x]
  <2>1. \A y \in T : w[a] <= w[y]
    BY <1>2, <1>4, <1>5, <1>6
  <2> QED BY <2>1
<1>7. CASE w[x] < w[a]
  <2>1. \A y \in T : w[x] <= w[y]
    BY <1>2, <1>4, <1>5, <1>7
  <2> QED BY <1>4, <2>1
<1> QED BY <1>2, <1>5, <1>6, <1>7

LEMMA GreatestMember ==
  ASSUME NEW S, IsFiniteSet(S), S # {}, NEW w, \A x \in S : w[x] \in Int
  PROVE  \E x \in S : \A y \in S : w[y] <= w[x]
<1> DEFINE v == [x \in S |-> - w[x]]
<1>1. \A x \in S : v[x] \in Int /\ v[x] = - w[x]
  OBVIOUS
<1> HIDE DEF v
<1>2. PICK x \in S : \A y \in S : v[x] <= v[y]
  BY <1>1, LeastMember
<1>3. \A y \in S : w[y] <= w[x]
  BY <1>1, <1>2
<1> QED BY <1>3

LEMMA HasLeast ==
  ASSUME NEW S, IsFiniteSet(S), S # {}, S \subseteq Int
  PROVE  \E m \in S : \A x \in S : m <= x
<1> DEFINE w == [x \in S |-> x]
<1>1. \A x \in S : w[x] = x /\ w[x] \in Int
  OBVIOUS
<1> HIDE DEF w
<1>2. PICK m \in S : \A y \in S : w[m] <= w[y]
  BY <1>1, LeastMember
<1> QED BY <1>1, <1>2

LEMMA HasGreatest ==
  ASSUME NEW S, IsFiniteSet(S), S # {}, S \subseteq Int
  PROVE  \E m \in S : \A x \in S : x <= m
<1> DEFINE w == [x \in S |-> x]
<1>1. \A x \in S : w[x] = x /\ w[x] \in Int
  OBVIOUS
<1> HIDE DEF w
<1>2. PICK m \in S : \A y \in S : w[y] <= w[m]
  BY <1>1, GreatestMember
<1> QED BY <1>1, <1>2

\* What holds at 0, and with k at k + 1, holds up to n.
LEMMA UpTo ==
  ASSUME NEW n \in Nat, NEW P, P[0], \A k \in 0 .. n - 1 : P[k] => P[k + 1]
  PROVE  \A k \in 0 .. n : P[k]
<1> DEFINE Bad == {k \in 0 .. n : ~ P[k]}
<1> SUFFICES ASSUME Bad # {} PROVE FALSE
  OBVIOUS
<1>1. IsFiniteSet(Bad) /\ Bad \subseteq Int
  <2>1. IsFiniteSet(0 .. n) /\ Bad \subseteq 0 .. n
    BY FS_Interval
  <2> QED BY <2>1, FS_Subset
<1>2. PICK k \in Bad : \A j \in Bad : k <= j
  <2> HIDE DEF Bad
  <2> QED BY <1>1, HasLeast
<1>3. k \in 0 .. n /\ k # 0
  BY <1>2
<1>4. k - 1 \in 0 .. n - 1 /\ k - 1 \in 0 .. n /\ (k - 1) + 1 = k /\ ~ (k <= k - 1)
  BY <1>3
<1>5. P[k - 1]
  BY <1>2, <1>4
<1> QED BY <1>2, <1>4, <1>5

\* -------------------------------------------------------------------------
\* Sums of weights.

IsSum(g, S, w, c) ==
  g = [s \in SUBSET S |-> IF s = {} THEN 0 ELSE w[c[s]] + g[s \ {c[s]}]]

LEMMA SumExists ==
  ASSUME NEW S, IsFiniteSet(S), NEW w, \A x \in S : w[x] \in Nat, NEW c, Chooses(c, S)
  PROVE  \E g \in [SUBSET S -> Nat] : IsSum(g, S, w, c)
<1> DEFINE F == [p \in S \X Nat |-> w[p[1]] + p[2]]
<1>1. F \in [S \X Nat -> Nat]
  OBVIOUS
<1>2. \A x \in S, n \in Nat : F[<<x, n>>] = w[x] + n
  OBVIOUS
<1> HIDE DEF F
<1>3. PICK g \in [SUBSET S -> Nat] : IsFold(g, S, 0, F, c)
  BY <1>1, TypedFold
<1>4. \A s \in SUBSET S : s # {} => c[s] \in S /\ g[s \ {c[s]}] \in Nat
  BY DEF Chooses
<1>5. \A s \in SUBSET S : s # {} => F[<<c[s], g[s \ {c[s]}]>>] = w[c[s]] + g[s \ {c[s]}]
  BY <1>2, <1>4
<1>6. g = [s \in SUBSET S |-> IF s = {} THEN 0 ELSE F[<<c[s], g[s \ {c[s]}]>>]]
  BY <1>3 DEF IsFold
<1>7. g = [s \in SUBSET S |-> IF s = {} THEN 0 ELSE w[c[s]] + g[s \ {c[s]}]]
  BY <1>5, <1>6
<1> QED BY <1>3, <1>7 DEF IsSum

\* A sum lies between the count times a lower and the count times an upper bound.
LEMMA SumBounds ==
  ASSUME NEW S, IsFiniteSet(S), NEW w, NEW c, Chooses(c, S),
         NEW lo \in Nat, NEW hi \in Nat,
         \A x \in S : w[x] \in Nat /\ lo <= w[x] /\ w[x] <= hi,
         NEW g, IsSum(g, S, w, c)
  PROVE  g[S] \in Nat /\ lo * Cardinality(S) <= g[S] /\ g[S] <= hi * Cardinality(S)
<1> DEFINE Within(s) == /\ g[s] \in Nat
                        /\ lo * Cardinality(s) <= g[s] /\ g[s] <= hi * Cardinality(s)
           Out == {s \in SUBSET S : ~ Within(s)}
<1>1. CASE Out # {}
  <2>1. PICK s \in Out : \A u \in Out : u \subseteq s => u = s
    <3>1. Out \subseteq SUBSET S
      OBVIOUS
    <3> HIDE DEF Out
    <3> QED BY <1>1, <3>1, LeastSubset
  <2>2. g[s] = IF s = {} THEN 0 ELSE w[c[s]] + g[s \ {c[s]}]
    BY <2>1 DEF IsSum
  <2>3. s # {}
    <3>1. Cardinality({}) = 0
      BY FS_EmptySet
    <3>2. s = {} => Within(s)
      BY <2>2, <3>1
    <3> QED BY <2>1, <3>2
  <2> DEFINE u == s \ {c[s]}
             n == Cardinality(u)
  <2>4. c[s] \in s /\ c[s] \in S /\ u \in SUBSET S /\ u # s
    BY <2>1, <2>3 DEF Chooses
  <2>5. IsFiniteSet(s)
    BY <2>1, FS_Subset
  <2>6. n \in Nat /\ Cardinality(s) = n + 1
    <3>1. IsFiniteSet(u) /\ Cardinality(u) = Cardinality(s) - 1 /\ Cardinality(s) \in Nat
      BY <2>4, <2>5, FS_RemoveElement, FS_CardinalityType
    <3>2. n \in Nat
      BY <3>1, FS_CardinalityType
    <3> QED BY <3>1, <3>2
  <2>7. g[u] \in Nat /\ lo * n <= g[u] /\ g[u] <= hi * n
    BY <2>1, <2>4
  <2>8. w[c[s]] \in Nat /\ lo <= w[c[s]] /\ w[c[s]] <= hi
    BY <2>4
  <2> HIDE DEF n, u
  <2>9. lo * (n + 1) = lo * n + lo /\ hi * (n + 1) = hi * n + hi /\ lo * n \in Nat /\ hi * n \in Nat
    BY <2>6
  <2>10. g[s] = w[c[s]] + g[u]
    BY <2>2, <2>3 DEF u
  <2>11. /\ g[s] \in Nat
         /\ lo * n + lo <= g[s] /\ g[s] <= hi * n + hi
    BY <2>7, <2>8, <2>9, <2>10
  <2>12. Within(s)
    BY <2>6, <2>9, <2>11
  <2> QED BY <2>1, <2>12
<1>2. CASE Out = {}
  BY <1>2
<1> QED BY <1>1, <1>2

\* -------------------------------------------------------------------------
\* Products of weights.

IsProduct(g, S, w, c) ==
  g = [s \in SUBSET S |-> IF s = {} THEN 1 ELSE w[c[s]] * g[s \ {c[s]}]]

LEMMA ProductExists ==
  ASSUME NEW S, IsFiniteSet(S), NEW w, \A x \in S : w[x] \in Nat \ {0}, NEW c, Chooses(c, S)
  PROVE  \E g \in [SUBSET S -> Nat \ {0}] : IsProduct(g, S, w, c)
<1> DEFINE F == [p \in S \X (Nat \ {0}) |-> w[p[1]] * p[2]]
<1>1. F \in [S \X (Nat \ {0}) -> Nat \ {0}]
  <2>1. \A m, n \in Nat \ {0} : m * n \in Nat \ {0}
    BY SMT
  <2> QED BY <2>1
<1>2. \A x \in S, n \in Nat \ {0} : F[<<x, n>>] = w[x] * n
  OBVIOUS
<1> HIDE DEF F
<1>3. PICK g \in [SUBSET S -> Nat \ {0}] : IsFold(g, S, 1, F, c)
  <2> DEFINE V == Nat \ {0}
  <2>1. 1 \in V /\ F \in [S \X V -> V]
    BY <1>1
  <2> HIDE DEF V
  <2>2. \E g \in [SUBSET S -> V] : IsFold(g, S, 1, F, c)
    BY <2>1, TypedFold
  <2> QED BY <2>2 DEF V
<1>4. \A s \in SUBSET S : s # {} => c[s] \in S /\ g[s \ {c[s]}] \in Nat \ {0}
  BY DEF Chooses
<1>5. \A s \in SUBSET S : s # {} => F[<<c[s], g[s \ {c[s]}]>>] = w[c[s]] * g[s \ {c[s]}]
  BY <1>2, <1>4
<1>6. g = [s \in SUBSET S |-> IF s = {} THEN 1 ELSE F[<<c[s], g[s \ {c[s]}]>>]]
  BY <1>3 DEF IsFold
<1>7. g = [s \in SUBSET S |-> IF s = {} THEN 1 ELSE w[c[s]] * g[s \ {c[s]}]]
  BY <1>5, <1>6
<1> QED BY <1>3, <1>7 DEF IsProduct

IsMultiple(m, n) == \E k \in Nat : m = n * k

\* A product is positive and a multiple of each weight.
LEMMA ProductIsMultiple ==
  ASSUME NEW S, IsFiniteSet(S), NEW w, \A x \in S : w[x] \in Nat \ {0},
         NEW c, Chooses(c, S), NEW g, IsProduct(g, S, w, c)
  PROVE  /\ g[S] \in Nat \ {0}
         /\ \A x \in S : IsMultiple(g[S], w[x])
<1> DEFINE Good(s) == /\ g[s] \in Nat \ {0}
                      /\ \A x \in s : \E k \in Nat : g[s] = w[x] * k
           Bad == {s \in SUBSET S : ~ Good(s)}
<1>1. CASE Bad # {}
  <2>1. PICK s \in Bad : \A u \in Bad : u \subseteq s => u = s
    <3>1. Bad \subseteq SUBSET S
      OBVIOUS
    <3> HIDE DEF Bad
    <3> QED BY <1>1, <3>1, LeastSubset
  <2>2. g[s] = IF s = {} THEN 1 ELSE w[c[s]] * g[s \ {c[s]}]
    BY <2>1 DEF IsProduct
  <2>3. s # {}
    BY <2>1, <2>2
  <2> DEFINE u == s \ {c[s]}
             a == w[c[s]]
             b == g[u]
  <2>4. c[s] \in s /\ c[s] \in S /\ u \in SUBSET S /\ u # s
    BY <2>1, <2>3 DEF Chooses
  <2>5. Good(u)
    BY <2>1, <2>4
  <2>6. a \in Nat \ {0} /\ b \in Nat \ {0} /\ g[s] = a * b
    BY <2>2, <2>3, <2>4, <2>5
  <2>7. ASSUME NEW x \in s
        PROVE  \E k \in Nat : g[s] = w[x] * k
    <3>1. CASE x = c[s]
      BY <2>6, <3>1
    <3>2. CASE x # c[s]
      <4>1. PICK k \in Nat : b = w[x] * k
        BY <2>5, <3>2
      <4>2. w[x] \in Nat
        BY <2>1
      <4> HIDE DEF a, b
      <4>3. a * (w[x] * k) = w[x] * (a * k) /\ a * k \in Nat
        BY <2>6, <4>2
      <4> QED BY <2>6, <4>1, <4>3
    <3> QED BY <3>1, <3>2
  <2>8. g[s] \in Nat \ {0}
    <3> HIDE DEF a, b
    <3> QED BY <2>6
  <2> QED BY <2>1, <2>7, <2>8
<1>2. CASE Bad = {}
  BY <1>2 DEF IsMultiple
<1> QED BY <1>1, <1>2
=============================================================================
