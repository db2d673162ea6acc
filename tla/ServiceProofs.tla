---------------------------- MODULE ServiceProofs ----------------------------
(* Theorems of module Service, for all shops, any number of tries, restarts   *)
(* and requests.                                                             *)
EXTENDS Service, FoldLemmas, SequenceTheorems

USE ClientAssumption, SeedAssumption, WatchAssumption

LEMMA PageIsSeq ==
  ASSUME ClientTypeOK
  PROVE  /\ Page \in Seq(Ids)
         /\ call.shop = "dummyjson" /\ call.skip = 0 => Page # <<>>
<1>1. /\ list \in Seq(Ids) /\ FakeList \in Seq(Ids) /\ list # <<>>
      /\ call.skip \in Nat
  BY DEF ClientTypeOK
<1>2. /\ Len(list) \in Nat \ {0}
      /\ \A i \in 1 .. Len(list) : list[i] \in Ids
  BY <1>1, EmptySeq, ElementOfSeq
<1> DEFINE n == Smaller(call.skip + limit, Len(list))
<1>3. n \in Nat /\ n <= Len(list) /\ n >= 1
  BY <1>1, <1>2 DEF Smaller
<1>4. \A i \in call.skip + 1 .. n : list[i] \in Ids
  BY <1>1, <1>2, <1>3
<1> HIDE DEF n
<1>5. /\ SubSeq(list, call.skip + 1, n) \in Seq(Ids)
      /\ call.skip = 0 => Len(SubSeq(list, call.skip + 1, n)) = n
  BY <1>1, <1>3, <1>4, SubSeqProperties
<1>6. call.skip = 0 => SubSeq(list, call.skip + 1, n) # <<>>
  BY <1>3, <1>5, EmptySeq
<1> QED BY <1>1, <1>5, <1>6 DEF Page, n

Calls == [shop : {"none", "dummyjson", "fakestore"},
          state : {"none", "getting", "answered", "raised"},
          skip : Nat, attempt : 1 .. attempts + 1, products : Seq(Ids)]

\* What the requests to a shop keep, and what they make of the call under way.
LEMMA ClientSteps ==
  ASSUME ClientTypeOK, ClientStep, call.state = "getting" => call.attempt <= attempts
  PROVE  /\ ClientTypeOK'
         /\ call'.shop = call.shop
         /\ call'.state = "getting" => call'.attempt <= attempts
         /\ call.shop = "dummyjson" /\ FirstOrMore(call) => FirstOrMore(call')
<1>0. call \in Calls /\ call.state = "getting"
  BY DEF ClientTypeOK, Calls, ClientStep, GetPage, TransientError, BadAnswer
<1>1. CASE GetPage
  <2> DEFINE products2 == call.products \o Page
             state2 == IF LastPage THEN "answered" ELSE call.state
  <2>1. products2 \in Seq(Ids) /\ Len(products2) = Len(call.products) + Len(Page)
    BY <1>0, PageIsSeq, ConcatProperties DEF Calls
  <2>2. products2 = <<>> => call.products = <<>> /\ Page = <<>>
    BY <1>0, <2>1, PageIsSeq, EmptySeq, LenProperties DEF Calls
  <2>3. state2 \in {"getting", "answered"}
    BY <1>0
  <2>4. /\ call' = [call EXCEPT !.products = products2, !.skip = @ + limit, !.attempt = 1, !.state = state2]
        /\ UNCHANGED <<list, first, moved, changes>>
    BY <1>1 DEF GetPage
  <2> HIDE DEF products2, state2
  <2>8. call.skip + limit \in Nat /\ 1 \in 1 .. attempts + 1
    BY <1>0 DEF Calls
  <2>5. call' \in Calls
    BY <1>0, <2>1, <2>3, <2>4, <2>8 DEF Calls
  <2>6. call'.shop = call.shop /\ call'.products = products2 /\ call'.attempt = 1
    BY <1>0, <2>4 DEF Calls
  <2>7. attempts >= 1
    BY <1>0 DEF Calls
  <2> QED BY <1>0, <2>2, <2>4, <2>5, <2>6, <2>7, PageIsSeq DEF ClientTypeOK, Calls, FirstOrMore
<1>2. CASE TransientError
  <2> DEFINE state2 == IF call.attempt >= attempts THEN "raised" ELSE call.state
  <2>1. /\ call' = [call EXCEPT !.attempt = @ + 1, !.state = state2]
        /\ UNCHANGED <<list, first, moved, changes>>
    BY <1>2 DEF TransientError
  <2>2. /\ state2 \in {"getting", "raised"}
        /\ state2 = "getting" => call.attempt + 1 <= attempts
        /\ call.attempt + 1 \in 1 .. attempts + 1
    BY <1>0 DEF Calls
  <2> HIDE DEF state2
  <2>3. call' \in Calls
    BY <1>0, <2>1, <2>2 DEF Calls
  <2> QED BY <1>0, <2>1, <2>2, <2>3 DEF ClientTypeOK, FirstOrMore
<1>3. CASE BadAnswer
  BY <1>0, <1>3 DEF BadAnswer, ClientTypeOK, FirstOrMore
<1> QED BY <1>1, <1>2, <1>3 DEF ClientStep

LEMMA NewCall ==
  ASSUME ClientTypeOK, NEW s \in {"dummyjson", "fakestore"}, fetch_products(s)
  PROVE  /\ ClientTypeOK'
         /\ call'.shop = s /\ FirstOrMore(call')
         /\ call'.state = "getting" => call'.attempt <= attempts
<1> DEFINE state2 == IF attempts = 0 THEN "raised" ELSE "getting"
<1>1. <<>> \in Seq(Ids)
  BY EmptySeq
<1>2. /\ call' = [shop |-> s, state |-> state2, skip |-> 0, attempt |-> 1, products |-> <<>>]
      /\ first' \in {first, list}
      /\ moved' = (moved /\ s # "dummyjson")
      /\ UNCHANGED <<list, changes>>
  BY DEF fetch_products, NoCall
<1>3. state2 \in {"raised", "getting"} /\ (state2 = "getting" => 1 <= attempts)
  OBVIOUS
<1> HIDE DEF state2
<1>4. call' \in Calls
  BY <1>1, <1>2, <1>3 DEF Calls
<1> QED BY <1>2, <1>3, <1>4 DEF ClientTypeOK, FirstOrMore

-----------------------------------------------------------------------------
(* The pages of DummyJSON's list.                                            *)

LEMMA ListsAre ==
  ASSUME NEW s \in Lists
  PROVE  s \in Seq(DummyIds) /\ IsInjective(s) /\ Len(s) \in Nat \ {0}
<1>1. s \in Seq(Ids) /\ IsInjective(s) /\ s # <<>>
  OBVIOUS
<1>2. Len(s) \in Nat \ {0} /\ DOMAIN s = 1 .. Len(s) /\ s \in [1 .. Len(s) -> Ids]
  BY <1>1, EmptySeq, LenProperties
<1>3. \A i \in 1 .. Len(s) : s[i] \in DummyIds
  BY <1>2 DEF DummyIds, ToSet
<1>4. s \in [1 .. Len(s) -> DummyIds]
  BY <1>2, <1>3
<1>5. s \in Seq(DummyIds)
  BY <1>2, <1>4, SeqDef
<1> QED BY <1>1, <1>2, <1>5

LEMMA SubSeqIs ==
  ASSUME NEW S, NEW s \in Seq(S), NEW n \in Nat, n <= Len(s)
  PROVE  /\ SubSeq(s, 1, n) \in Seq(S) /\ Len(SubSeq(s, 1, n)) = n
         /\ \A i \in 1 .. n : SubSeq(s, 1, n)[i] = s[i]
<1>1. Len(s) \in Nat /\ \A i \in 1 .. n : s[i] \in S
  BY LenProperties, ElementOfSeq
<1>2. /\ SubSeq(s, 1, n) \in Seq(S)
      /\ Len(SubSeq(s, 1, n)) = IF 1 <= n THEN n - 1 + 1 ELSE 0
      /\ \A i \in 1 .. n - 1 + 1 : SubSeq(s, 1, n)[i] = s[1 + i - 1]
  BY <1>1, SubSeqProperties
<1> QED BY <1>2

LEMMA PrefixIs ==
  ASSUME NEW S, NEW s \in Seq(S), NEW t \in Seq(S)
  PROVE  IsPrefix(s, t) <=> Len(s) <= Len(t) /\ \A i \in 1 .. Len(s) : s[i] = t[i]
<1>1. Len(s) \in Nat /\ Len(t) \in Nat
  BY LenProperties
<1>2. SubSeq(s, 1, Len(s)) = s
  BY SubSeqFull
<1>3. CASE Len(s) <= Len(t)
  <2> DEFINE u == SubSeq(t, 1, Len(s))
  <2>1. u \in Seq(S) /\ Len(u) = Len(s) /\ \A i \in 1 .. Len(s) : u[i] = t[i]
    BY <1>1, <1>3, SubSeqIs
  <2> HIDE DEF u
  <2>2. s = u <=> \A i \in 1 .. Len(s) : s[i] = u[i]
    BY <2>1, SeqEqual
  <2> QED BY <1>2, <1>3, <2>1, <2>2 DEF IsPrefix, u
<1>4. CASE ~ (Len(s) <= Len(t))
  BY <1>4 DEF IsPrefix
<1> QED BY <1>3, <1>4

\* A list that begins with s after it did so before is cut off after s in the same way.
LEMMA PrefixOfPrefix ==
  ASSUME NEW s \in Lists, NEW t \in Lists, NEW u \in Lists, IsPrefix(t, u)
  PROVE  /\ IsPrefix(s, t) => IsPrefix(s, u)
         /\ \A n \in 0 .. Len(t) : n <= Len(u) /\ SubSeq(u, 1, n) = SubSeq(t, 1, n)
<1>1. /\ s \in Seq(DummyIds) /\ t \in Seq(DummyIds) /\ u \in Seq(DummyIds)
      /\ Len(s) \in Nat /\ Len(t) \in Nat /\ Len(u) \in Nat
  BY ListsAre
<1>2. Len(t) <= Len(u) /\ \A i \in 1 .. Len(t) : t[i] = u[i]
  BY <1>1, PrefixIs
<1>3. IsPrefix(s, t) => IsPrefix(s, u)
  <2> SUFFICES ASSUME IsPrefix(s, t)
               PROVE  IsPrefix(s, u)
    OBVIOUS
  <2>1. Len(s) <= Len(t) /\ \A i \in 1 .. Len(s) : s[i] = t[i]
    BY <1>1, PrefixIs
  <2>2. \A i \in 1 .. Len(s) : i \in 1 .. Len(t)
    BY <1>1, <2>1
  <2>3. Len(s) <= Len(u) /\ \A i \in 1 .. Len(s) : s[i] = u[i]
    BY <1>1, <1>2, <2>1, <2>2
  <2> QED BY <1>1, <2>3, PrefixIs
<1>4. ASSUME NEW n \in 0 .. Len(t)
      PROVE  n <= Len(u) /\ SubSeq(u, 1, n) = SubSeq(t, 1, n)
  <2> DEFINE x == SubSeq(t, 1, n)
             y == SubSeq(u, 1, n)
  <2>1. n \in Nat /\ n <= Len(t) /\ n <= Len(u) /\ \A i \in 1 .. n : i \in 1 .. Len(t)
    BY <1>1, <1>2
  <2>2. x \in Seq(DummyIds) /\ Len(x) = n /\ \A i \in 1 .. n : x[i] = t[i]
    BY <1>1, <2>1, SubSeqIs
  <2>3. y \in Seq(DummyIds) /\ Len(y) = n /\ \A i \in 1 .. n : y[i] = u[i]
    BY <1>1, <2>1, SubSeqIs
  <2> HIDE DEF x, y
  <2>4. \A i \in 1 .. n : x[i] = y[i]
    BY <1>2, <2>1, <2>2, <2>3
  <2>5. x = y
    BY <2>2, <2>3, <2>4, SeqEqual
  <2> QED BY <2>1, <2>5 DEF x, y
<1> QED BY <1>3, <1>4

\* The page after the first skip entries makes the beginning of the list longer.
LEMMA NextPage ==
  ASSUME NEW s \in Lists, NEW skip \in Nat, skip <= Len(s), NEW n \in Nat,
         n = Smaller(skip + limit, Len(s))
  PROVE  /\ SubSeq(s, 1, skip) \o SubSeq(s, skip + 1, n) = SubSeq(s, 1, n)
         /\ skip + limit >= Len(s) => SubSeq(s, 1, n) = s
         /\ skip + limit < Len(s) => n = skip + limit
<1>1. s \in Seq(DummyIds) /\ Len(s) \in Nat
  BY ListsAre
<1>2. skip <= n /\ n <= Len(s) /\ (skip + limit >= Len(s) => n = Len(s))
  BY <1>1 DEF Smaller
<1>3. 1 \in 1 .. Len(s) + 1 /\ skip \in 1 - 1 .. Len(s) /\ n \in skip .. Len(s)
  BY <1>1, <1>2
<1>4. SubSeq(s, 1, skip) \o SubSeq(s, skip + 1, n) = SubSeq(s, 1, n)
  BY <1>1, <1>3, ConcatAdjacentSubSeq
<1>5. skip + limit >= Len(s) => SubSeq(s, 1, n) = s
  BY <1>1, <1>2, SubSeqFull
<1> QED BY <1>4, <1>5 DEF Smaller

-----------------------------------------------------------------------------
(* The pairing of the two shops' products.                                   *)

GapTo(d, i, f) == Gap(DummyPrice[d[i]], FakePrice[f])

LEMMA GapIsNat ==
  ASSUME NEW d \in Seq(DummyIds), NEW i \in DOMAIN d, NEW f \in ToSet(FakeList)
  PROVE  GapTo(d, i, f) \in Nat
<1>1. d[i] \in DummyIds
  BY LenProperties, ElementOfSeq
<1>2. DummyPrice[d[i]] \in Nat /\ FakePrice[f] \in Nat
  BY <1>1
<1> QED BY <1>2 DEF Gap, GapTo

LEMMA NearestIsNearest ==
  ASSUME NEW d \in Seq(DummyIds), NEW f \in ToSet(FakeList),
         NEW S, S \subseteq DOMAIN d, S # {}
  PROVE  /\ Nearest(d, S, f) \in S
         /\ \A j \in S : GapTo(d, Nearest(d, S, f), f) <= GapTo(d, j, f)
<1> DEFINE w == [i \in S |-> GapTo(d, i, f)]
           First(i) == \A j \in S : GapTo(d, i, f) < GapTo(d, j, f)
                                    \/ (GapTo(d, i, f) = GapTo(d, j, f) /\ i <= j)
<1>1. S \subseteq Int /\ IsFiniteSet(S)
  <2>1. DOMAIN d = 1 .. Len(d) /\ Len(d) \in Nat
    BY LenProperties
  <2>2. IsFiniteSet(1 .. Len(d))
    BY <2>1, FS_Interval
  <2> QED BY <2>1, <2>2, FS_Subset
<1>2. \A i \in S : GapTo(d, i, f) \in Nat /\ w[i] = GapTo(d, i, f) /\ w[i] \in Int
  BY GapIsNat
<1> HIDE DEF w
<1>3. PICK a \in S : \A j \in S : w[a] <= w[j]
  BY <1>1, <1>2, LeastMember
<1> DEFINE E == {i \in S : w[i] = w[a]}
<1>4. E # {} /\ E \subseteq Int /\ IsFiniteSet(E)
  BY <1>1, FS_Subset
<1>5. PICK m \in E : \A i \in E : m <= i
  <2> HIDE DEF E
  <2> QED BY <1>4, HasLeast
<1>6. m \in S /\ First(m)
  <2> SUFFICES ASSUME NEW j \in S
               PROVE  w[m] < w[j] \/ (w[m] = w[j] /\ m <= j)
    BY <1>2
  <2>1. w[m] = w[a] /\ w[a] <= w[j] /\ w[j] \in Int /\ w[a] \in Int
    BY <1>2, <1>3
  <2>2. CASE w[j] = w[a]
    BY <1>5, <2>1, <2>2
  <2>3. CASE w[j] # w[a]
    BY <2>1, <2>3
  <2> QED BY <2>2, <2>3
<1>7. Nearest(d, S, f) = CHOOSE i \in S : First(i)
  BY DEF Nearest, GapTo
<1> DEFINE best == CHOOSE i \in S : First(i)
<1>8. best \in S /\ First(best)
  BY <1>6
<1>9. Nearest(d, S, f) = best
  BY <1>7
<1> HIDE DEF best
<1>10. ASSUME NEW j \in S
       PROVE  GapTo(d, best, f) <= GapTo(d, j, f)
  <2>1. GapTo(d, best, f) \in Nat /\ GapTo(d, j, f) \in Nat
    BY <1>2, <1>8
  <2>2. GapTo(d, best, f) < GapTo(d, j, f) \/ GapTo(d, best, f) = GapTo(d, j, f)
    BY <1>8
  <2> QED BY <2>1, <2>2
<1> HIDE DEF First
<1> QED BY <1>8, <1>9, <1>10

\* The mappings of some of the entries of d to FakeStore's products.
Mappings(d) == UNION {[D -> ToSet(FakeList)] : D \in SUBSET DOMAIN d}

Pair(d, mapping, f) ==
  LET free == DOMAIN d \ DOMAIN mapping
  IN IF free = {} THEN mapping ELSE Attach(mapping, Nearest(d, free, f), f)

LEMMA MappingsAre ==
  ASSUME NEW d, NEW m
  PROVE  m \in Mappings(d) <=> /\ m = [i \in DOMAIN m |-> m[i]]
                               /\ DOMAIN m \subseteq DOMAIN d
                               /\ \A i \in DOMAIN m : m[i] \in ToSet(FakeList)
<1>1. ASSUME m \in Mappings(d)
      PROVE  /\ m = [i \in DOMAIN m |-> m[i]]
             /\ DOMAIN m \subseteq DOMAIN d
             /\ \A i \in DOMAIN m : m[i] \in ToSet(FakeList)
  <2>1. PICK D \in SUBSET DOMAIN d : m \in [D -> ToSet(FakeList)]
    BY <1>1 DEF Mappings
  <2> QED BY <2>1
<1>2. ASSUME m = [i \in DOMAIN m |-> m[i]], DOMAIN m \subseteq DOMAIN d,
             \A i \in DOMAIN m : m[i] \in ToSet(FakeList)
      PROVE  m \in Mappings(d)
  <2>1. m \in [DOMAIN m -> ToSet(FakeList)]
    BY <1>2
  <2> QED BY <1>2, <2>1 DEF Mappings
<1> QED BY <1>1, <1>2

\* What the first k products of FakeStore make of the mapping.
Paired(d, m, k) ==
  /\ m \in Mappings(d)
  /\ \A i \in DOMAIN m : \E j \in 1 .. k : m[i] = FakeList[j]
  /\ Cardinality(DOMAIN m) = Smaller(Len(d), k)
  /\ \A i, j \in DOMAIN m : m[i] = m[j] => i = j
  /\ \A i \in DOMAIN m, j \in DOMAIN d \ DOMAIN m : GapTo(d, i, m[i]) <= GapTo(d, j, m[i])

LEMMA FakeListIs ==
  /\ Len(FakeList) \in Nat /\ DOMAIN FakeList = 1 .. Len(FakeList)
  /\ \A k \in 1 .. Len(FakeList) : FakeList[k] \in ToSet(FakeList)
  /\ \A j, k \in 1 .. Len(FakeList) : FakeList[j] = FakeList[k] => j = k
<1>1. FakeList \in Seq(Ids) /\ IsInjective(FakeList)
  OBVIOUS
<1>2. Len(FakeList) \in Nat /\ DOMAIN FakeList = 1 .. Len(FakeList)
  BY <1>1, LenProperties
<1> QED BY <1>1, <1>2 DEF IsInjective, ToSet

LEMMA PairKeeps ==
  ASSUME NEW d \in Seq(DummyIds), NEW k \in Nat, k + 1 <= Len(FakeList),
         NEW m, Paired(d, m, k)
  PROVE  Paired(d, Pair(d, m, FakeList[k + 1]), k + 1)
<1> DEFINE f == FakeList[k + 1]
           free == DOMAIN d \ DOMAIN m
           i0 == Nearest(d, free, f)
           new == Attach(m, i0, f)
           n == Len(d)
<1>1. /\ k + 1 \in 1 .. Len(FakeList) /\ f \in ToSet(FakeList)
      /\ \A j \in 1 .. k : FakeList[j] # f
  <2>1. k + 1 \in 1 .. Len(FakeList)
    BY FakeListIs
  <2>2. \A j \in 1 .. k : j \in 1 .. Len(FakeList) /\ j # k + 1
    BY <2>1, FakeListIs
  <2> QED BY <2>1, <2>2, FakeListIs
<1> HIDE DEF f
<1>2. /\ DOMAIN m \subseteq DOMAIN d /\ \A i \in DOMAIN m : m[i] \in ToSet(FakeList)
      /\ m = [i \in DOMAIN m |-> m[i]]
  BY MappingsAre DEF Paired
<1>3. n \in Nat /\ DOMAIN d = 1 .. n /\ IsFiniteSet(DOMAIN d) /\ Cardinality(DOMAIN d) = n
  <2>1. n \in Nat /\ DOMAIN d = 1 .. n
    BY LenProperties
  <2> HIDE DEF n
  <2>2. IsFiniteSet(1 .. n) /\ Cardinality(1 .. n) = IF 1 > n THEN 0 ELSE n - 1 + 1
    BY <2>1, FS_Interval
  <2> QED BY <2>1, <2>2
<1> HIDE DEF n
<1>4. IsFiniteSet(DOMAIN m) /\ Cardinality(DOMAIN m) = Smaller(n, k)
  BY <1>2, <1>3, FS_Subset DEF Paired, n
<1>5. CASE free = {}
  <2>1. DOMAIN m = DOMAIN d
    BY <1>2, <1>5
  <2>2. Smaller(n, k) = n /\ Smaller(n, k + 1) = n
    <3>1. Smaller(n, k) = n
      BY <1>3, <1>4, <2>1
    <3>2. n < k + 1
      BY <1>3, <3>1 DEF Smaller
    <3> QED BY <3>1, <3>2 DEF Smaller
  <2>3. \A i \in DOMAIN m : \E j \in 1 .. k + 1 : m[i] = FakeList[j]
    <3>1. \A j \in 1 .. k : j \in 1 .. k + 1
      OBVIOUS
    <3> QED BY <3>1 DEF Paired
  <2>4. Paired(d, m, k + 1)
    BY <1>4, <2>2, <2>3 DEF Paired, n
  <2> QED BY <1>5, <2>4 DEF Pair, f
<1>6. CASE free # {}
  <2>1. i0 \in free /\ \A j \in free : GapTo(d, i0, f) <= GapTo(d, j, f)
    <3>1. free \subseteq DOMAIN d
      OBVIOUS
    <3> HIDE DEF free
    <3> QED BY <1>1, <1>6, <3>1, NearestIsNearest
  <2> HIDE DEF i0
  <2>2. /\ DOMAIN new = DOMAIN m \cup {i0} /\ i0 \notin DOMAIN m /\ i0 \in DOMAIN d
        /\ new[i0] = f /\ \A i \in DOMAIN m : new[i] = m[i]
        /\ new = [i \in DOMAIN new |-> new[i]]
    BY <2>1 DEF Attach
  <2> HIDE DEF new
  <2>3. new \in Mappings(d)
    BY <1>1, <1>2, <2>2, MappingsAre
  <2>4. \A i \in DOMAIN new : \E j \in 1 .. k + 1 : new[i] = FakeList[j]
    <3>1. \A j \in 1 .. k : j \in 1 .. k + 1
      OBVIOUS
    <3>2. k + 1 \in 1 .. k + 1
      OBVIOUS
    <3>3. ASSUME NEW i \in DOMAIN m
          PROVE  \E j \in 1 .. k + 1 : new[i] = FakeList[j]
      BY <2>2, <3>1 DEF Paired
    <3>4. new[i0] = FakeList[k + 1]
      BY <2>2 DEF f
    <3> QED BY <2>2, <3>2, <3>3, <3>4
  <2>5. Cardinality(DOMAIN new) = Smaller(n, k + 1)
    <3>1. Cardinality(DOMAIN new) = Cardinality(DOMAIN m) + 1
      BY <1>4, <2>2, FS_AddElement
    <3>2. IsFiniteSet(DOMAIN new) /\ Cardinality(DOMAIN new) <= n
      BY <1>2, <1>3, <2>2, FS_Subset
    <3>3. Smaller(n, k) + 1 <= n
      BY <1>4, <3>1, <3>2
    <3>4. Smaller(n, k) = k /\ k + 1 <= n
      BY <1>3, <3>3 DEF Smaller
    <3>5. Smaller(n, k + 1) = k + 1
      BY <1>3, <3>4 DEF Smaller
    <3> QED BY <1>4, <3>1, <3>4, <3>5
  <2>6. \A i, j \in DOMAIN new : new[i] = new[j] => i = j
    <3>1. \A i \in DOMAIN m : new[i] # f
      BY <1>1, <2>2 DEF Paired
    <3> QED BY <2>2, <3>1 DEF Paired
  <2>7. \A i \in DOMAIN new, j \in DOMAIN d \ DOMAIN new : GapTo(d, i, new[i]) <= GapTo(d, j, new[i])
    <3>1. \A j \in DOMAIN d \ DOMAIN new : j \in free /\ j \in DOMAIN d \ DOMAIN m
      BY <2>2
    <3> QED BY <2>1, <2>2, <3>1 DEF Paired
  <2>8. Paired(d, new, k + 1)
    BY <2>3, <2>4, <2>5, <2>6, <2>7 DEF Paired, n
  <2> QED BY <1>6, <2>8 DEF Pair, f, new, i0
<1> QED BY <1>5, <1>6

LEMMA PairIsMapping ==
  ASSUME NEW d \in Seq(DummyIds), NEW f \in ToSet(FakeList), NEW m \in Mappings(d)
  PROVE  Pair(d, m, f) \in Mappings(d)
<1> DEFINE free == DOMAIN d \ DOMAIN m
           i0 == Nearest(d, free, f)
           new == Attach(m, i0, f)
<1>1. CASE free = {}
  BY <1>1 DEF Pair
<1>2. CASE free # {}
  <2>1. i0 \in free
    <3>1. free \subseteq DOMAIN d
      OBVIOUS
    <3> HIDE DEF free
    <3> QED BY <1>2, <3>1, NearestIsNearest
  <2> HIDE DEF i0
  <2>2. /\ DOMAIN new = DOMAIN m \cup {i0} /\ i0 \in DOMAIN d
        /\ new[i0] = f /\ \A i \in DOMAIN m : i # i0 => new[i] = m[i]
        /\ new = [i \in DOMAIN new |-> new[i]]
    BY <2>1 DEF Attach
  <2> HIDE DEF new
  <2>3. new \in Mappings(d)
    BY <2>2, MappingsAre
  <2> QED BY <1>2, <2>3 DEF Pair, new, i0
<1> QED BY <1>1, <1>2

PairFold(g, d) ==
  g = [s \in SUBSET DOMAIN FakeList |->
         IF s = {} THEN <<>>
         ELSE LET x == Max(s) IN Pair(d, g[s \ {x}], FakeList[x])]

LEMMA PairFoldExists ==
  ASSUME NEW d \in Seq(DummyIds)
  PROVE  \E g : PairFold(g, d)
<1> DEFINE I == DOMAIN FakeList
           V == Mappings(d)
           F == [p \in I \X V |-> Pair(d, p[2], FakeList[p[1]])]
           c == [s \in SUBSET I |-> Max(s)]
<1>1. IsFiniteSet(I) /\ I \subseteq Int /\ \A x \in I : FakeList[x] \in ToSet(FakeList)
  BY FakeListIs, FS_Interval
<1>2. <<>> \in V
  <2>1. <<>> \in [{} -> ToSet(FakeList)]
    <3>1. <<>> \in Seq(ToSet(FakeList)) /\ Len(<<>>) = 0
      BY EmptySeq
    <3>2. <<>> \in [1 .. 0 -> ToSet(FakeList)] /\ 1 .. 0 = {}
      BY <3>1, LenProperties
    <3> QED BY <3>2
  <2> QED BY <2>1 DEF Mappings
<1>3. F \in [I \X V -> V]
  BY <1>1, PairIsMapping
<1>4. \A x \in I, m \in V : F[<<x, m>>] = Pair(d, m, FakeList[x])
  OBVIOUS
<1>5. Chooses(c, I)
  <2> SUFFICES ASSUME NEW s \in SUBSET I, s # {}
               PROVE  Max(s) \in s
    BY DEF Chooses
  <2>1. IsFiniteSet(s) /\ s \subseteq Int
    BY <1>1, FS_Subset
  <2>2. \E x \in s : \A y \in s : x >= y
    BY <2>1, HasGreatest
  <2> QED BY <2>2 DEF Max
<1> HIDE DEF V, F
<1>6. PICK g \in [SUBSET I -> V] : IsFold(g, I, <<>>, F, c)
  <2> HIDE DEF I, c
  <2> QED BY <1>1, <1>2, <1>3, <1>5, TypedFold
<1> DEFINE G(s) == IF s = {} THEN <<>> ELSE F[<<c[s], g[s \ {c[s]}]>>]
           H(s) == IF s = {} THEN <<>>
                   ELSE LET x == Max(s) IN Pair(d, g[s \ {x}], FakeList[x])
<1>7. \A s \in SUBSET I : G(s) = H(s)
  <2> SUFFICES ASSUME NEW s \in SUBSET I, s # {}
               PROVE  F[<<c[s], g[s \ {c[s]}]>>] = Pair(d, g[s \ {Max(s)}], FakeList[Max(s)])
    OBVIOUS
  <2>1. c[s] = Max(s) /\ c[s] \in I
    BY <1>5 DEF Chooses
  <2> HIDE DEF c
  <2>2. g[s \ {c[s]}] \in V
    BY <1>6
  <2> QED BY <1>4, <2>1, <2>2
<1>8. g = [s \in SUBSET I |-> G(s)]
  BY <1>6 DEF IsFold
<1>9. PairFold(g, d) <=> g = [s \in SUBSET I |-> H(s)]
  BY DEF PairFold
<1> HIDE DEF G, H
<1>10. [s \in SUBSET I |-> G(s)] = [s \in SUBSET I |-> H(s)]
  BY <1>7
<1> QED BY <1>8, <1>9, <1>10

\* The loop over FakeStore's products, one product after the other.
LEMMA MapIsPaired ==
  ASSUME NEW d \in Seq(DummyIds)
  PROVE  Paired(d, map_by_nearest_price(d, FakeList), Len(FakeList))
<1> DEFINE g == CHOOSE h : PairFold(h, d)
           N == Len(FakeList)
           Done(k) == Paired(d, g[1 .. k], k)
           Bad == {k \in 0 .. N : ~ Done(k)}
<1>1. map_by_nearest_price(d, FakeList) = g[DOMAIN FakeList]
  BY DEF map_by_nearest_price, FoldLeft, MapThenFoldSet, PairFold, Pair
<1>2. PairFold(g, d)
  BY PairFoldExists
<1> HIDE DEF g
<1>3. N \in Nat /\ DOMAIN FakeList = 1 .. N
  BY FakeListIs
<1>4. \A s \in SUBSET (1 .. N) :
        g[s] = IF s = {} THEN <<>> ELSE Pair(d, g[s \ {Max(s)}], FakeList[Max(s)])
  BY <1>2, <1>3 DEF PairFold
<1>5. Done(0)
  <2>1. g[1 .. 0] = <<>>
    <3>1. 1 .. 0 = {} /\ {} \in SUBSET (1 .. N)
      OBVIOUS
    <3> QED BY <1>4, <3>1
  <2>2. <<>> \in Seq(ToSet(FakeList)) /\ Len(<<>>) = 0
    BY EmptySeq
  <2>3. <<>> \in [1 .. 0 -> ToSet(FakeList)] /\ 1 .. 0 = {}
    BY <2>2, LenProperties
  <2> DEFINE e == <<>>
  <2>4. e \in [{} -> ToSet(FakeList)]
    BY <2>3
  <2> HIDE DEF e
  <2>5. DOMAIN e = {} /\ e \in Mappings(d)
    BY <2>4 DEF Mappings
  <2>6. Cardinality({}) = 0 /\ Len(d) \in Nat
    BY FS_EmptySet, LenProperties
  <2>7. Smaller(Len(d), 0) = 0
    BY <2>6 DEF Smaller
  <2>8. Paired(d, e, 0)
    BY <2>5, <2>6, <2>7 DEF Paired
  <2> QED BY <2>1, <2>8 DEF e
<1>6. ASSUME NEW k \in Nat, k + 1 <= N, Done(k)
      PROVE  Done(k + 1)
  <2> DEFINE s == 1 .. k + 1
  <2>1. s \in SUBSET (1 .. N) /\ s # {} /\ k + 1 \in s /\ s \ {k + 1} = 1 .. k
    <3>1. k + 1 \in Nat /\ k + 1 <= N /\ N \in Nat
      BY <1>3, <1>6
    <3> HIDE DEF N
    <3>2. \A x \in s : x \in 1 .. N
      BY <3>1
    <3>3. k + 1 \in s
      BY <3>1
    <3>4. s \ {k + 1} = 1 .. k
      BY <3>1
    <3> QED BY <3>2, <3>3, <3>4
  <2>2. Max(s) = k + 1
    <3>1. \A x \in s : (\A y \in s : x >= y) => x = k + 1
      BY <2>1
    <3>2. \A y \in s : k + 1 >= y
      OBVIOUS
    <3> HIDE DEF s
    <3> QED BY <2>1, <3>1, <3>2 DEF Max
  <2> HIDE DEF s
  <2>3. g[s] = Pair(d, g[1 .. k], FakeList[k + 1])
    BY <1>4, <2>1, <2>2
  <2> QED BY <1>6, <2>3, PairKeeps DEF s
<1>7. CASE Bad # {}
  <2>1. IsFiniteSet(Bad) /\ Bad \subseteq Int
    <3>1. IsFiniteSet(0 .. N) /\ Bad \subseteq 0 .. N
      BY <1>3, FS_Interval
    <3> QED BY <3>1, FS_Subset
  <2>2. PICK k \in Bad : \A j \in Bad : k <= j
    <3> HIDE DEF Bad
    <3> QED BY <1>7, <2>1, HasLeast
  <2> HIDE DEF Done
  <2>3. k # 0 /\ k \in 0 .. N
    BY <1>5, <2>2
  <2>4. k - 1 \in Nat /\ k - 1 \in 0 .. N /\ (k - 1) + 1 = k
    BY <1>3, <2>3
  <2>5. Done(k - 1)
    BY <2>2, <2>4
  <2>6. Done((k - 1) + 1)
    BY <1>3, <1>6, <2>3, <2>4, <2>5
  <2> QED BY <2>2, <2>4, <2>6
<1>8. CASE Bad = {}
  <2>1. N \in 0 .. N
    BY <1>3
  <2>2. Done(N)
    BY <1>8, <2>1
  <2> QED BY <1>1, <1>3, <2>2
<1> QED BY <1>7, <1>8

\* What the seed makes of DummyJSON's answer: a product for each of its entries.
Listings == [dummyjson : DummyIds, fakestore : ToSet(FakeList) \cup {None}]

IdsOf(ps) == [i \in DOMAIN ps |-> ps[i].dummyjson]

LEMMA NewProductsAre ==
  ASSUME NEW d \in Seq(DummyIds), d # <<>>, NEW m, m = map_by_nearest_price(d, FakeList),
         NEW new, new = NewProducts(d, FakeList)
  PROVE  /\ new \in Seq(Listings) /\ Len(new) = Len(d) /\ DOMAIN new = DOMAIN d
         /\ new # <<>> /\ <<>> \o new = new /\ IdsOf(new) = d
         /\ \A i \in DOMAIN d : /\ new[i].dummyjson = d[i]
                                /\ new[i].fakestore = IF i \in DOMAIN m THEN m[i] ELSE None
<1> DEFINE Entry(i) == [dummyjson |-> d[i], fakestore |-> IF i \in DOMAIN m THEN m[i] ELSE None]
<1>1. Len(d) \in Nat \ {0} /\ DOMAIN d = 1 .. Len(d) /\ d \in [1 .. Len(d) -> DummyIds]
  BY EmptySeq, LenProperties
<1>2. new = [i \in 1 .. Len(d) |-> Entry(i)]
  BY <1>1 DEF NewProducts
<1>3. \A i \in DOMAIN m : m[i] \in ToSet(FakeList)
  BY MapIsPaired, MappingsAre DEF Paired
<1>4. \A i \in 1 .. Len(d) : Entry(i) \in Listings
  BY <1>1, <1>3 DEF Listings
<1>5. \A i \in 1 .. Len(d) : new[i] = Entry(i)
  BY <1>2
<1>6. \A i \in 1 .. Len(d) : /\ new[i].dummyjson = d[i]
                             /\ new[i].fakestore = IF i \in DOMAIN m THEN m[i] ELSE None
  <2> TAKE i \in 1 .. Len(d)
  <2> DEFINE x == IF i \in DOMAIN m THEN m[i] ELSE None
  <2>1. new[i] = [dummyjson |-> d[i], fakestore |-> x]
    BY <1>5
  <2> HIDE DEF x
  <2>2. new[i].dummyjson = d[i] /\ new[i].fakestore = x
    BY <2>1
  <2> QED BY <2>2 DEF x
<1>7. new \in [1 .. Len(d) -> Listings]
  <2>1. \A i \in 1 .. Len(d) : new[i] \in Listings
    BY <1>4, <1>5
  <2>2. DOMAIN new = 1 .. Len(d) /\ new = [i \in DOMAIN new |-> new[i]]
    BY <1>2
  <2> QED BY <2>1, <2>2
<1>8. new \in Seq(Listings) /\ DOMAIN new = 1 .. Len(d)
  <2>1. Seq(Listings) = UNION {[1 .. n -> Listings] : n \in Nat}
    BY SeqDef
  <2>2. new \in Seq(Listings)
    BY <1>1, <1>7, <2>1
  <2> QED BY <1>7, <2>2
<1>9. Len(new) = Len(d)
  BY <1>1, <1>8, LenProperties
<1>10. new # <<>> /\ <<>> \o new = new
  BY <1>1, <1>8, <1>9, EmptySeq, ConcatEmptySeq
<1>11. IdsOf(new) = d
  <2>1. IdsOf(new) = [i \in 1 .. Len(d) |-> d[i]]
    BY <1>6, <1>8 DEF IdsOf
  <2> QED BY <1>1, <2>1
<1> QED BY <1>1, <1>6, <1>8, <1>9, <1>10, <1>11

-----------------------------------------------------------------------------
(* PagingInv.                                                                *)

LEMMA PagesAsked ==
  ASSUME ClientTypeOK, NEW s \in {"dummyjson", "fakestore"}, fetch_products(s)
  PROVE  PagingInv'
<1> DEFINE state2 == IF attempts = 0 THEN "raised" ELSE "getting"
<1>1. /\ call' = [shop |-> s, state |-> state2, skip |-> 0, attempt |-> 1, products |-> <<>>]
      /\ s = "dummyjson" => first' = list
      /\ list' = list
  BY DEF fetch_products, NoCall
<1>2. state2 # "answered"
  OBVIOUS
<1> HIDE DEF state2
<1>3. call'.shop = s /\ call'.state # "answered" /\ call'.skip = 0 /\ call'.products = <<>>
  BY <1>1, <1>2
<1>4. <<>> \in Seq(DummyIds)
  BY EmptySeq
<1>5. SubSeq(list, 1, 0) = <<>>
  BY SubSeqEmpty
<1>6. list \in Seq(DummyIds) /\ Len(list) \in Nat /\ 0 <= Len(list)
  BY ListsAre DEF ClientTypeOK
<1>7. IsPrefix(list, list)
  BY <1>6, PrefixIs
<1> QED BY <1>1, <1>3, <1>4, <1>5, <1>6, <1>7 DEF PagingInv

LEMMA PageAdded ==
  ASSUME ClientTypeOK, PagingInv, GetPage
  PROVE  PagingInv'
<1> DEFINE state2 == IF LastPage THEN "answered" ELSE call.state
           n == Smaller(call.skip + limit, Len(list))
<1>1. /\ call \in Calls /\ call.state = "getting" /\ call.skip \in Nat
      /\ UNCHANGED <<list, first, moved>>
  BY DEF ClientTypeOK, Calls, GetPage
<1>2. call' = [call EXCEPT !.products = call.products \o Page, !.skip = @ + limit,
                           !.attempt = 1, !.state = state2]
  BY DEF GetPage
<1> HIDE DEF state2
<1>3. /\ call'.shop = call.shop /\ call'.products = call.products \o Page
      /\ call'.skip = call.skip + limit /\ call'.state = state2
  BY <1>1, <1>2 DEF Calls
<1>4. list \in Lists /\ first \in Lists /\ list \in Seq(DummyIds) /\ Len(list) \in Nat /\ IsInjective(list)
  BY ListsAre DEF ClientTypeOK
<1>5. n \in Nat /\ n <= Len(list)
  BY <1>1, <1>4 DEF Smaller
<1> HIDE DEF n
<1>6. CASE call.shop = "fakestore"
  <2>1. state2 = "answered" /\ call.products = <<>> /\ Page = FakeList
    BY <1>1, <1>6 DEF state2, LastPage, Page, PagingInv
  <2>2. <<>> \o FakeList = FakeList
    BY ConcatEmptySeq
  <2> QED BY <1>3, <1>6, <2>1, <2>2 DEF PagingInv
<1>7. CASE call.shop = "dummyjson"
  <2>1. Page = SubSeq(list, call.skip + 1, n)
    BY <1>7 DEF Page, n
  <2>2. call'.products \in Seq(DummyIds)
    <3>1. \A i \in call.skip + 1 .. n : list[i] \in DummyIds
      BY <1>1, <1>4, <1>5, ElementOfSeq
    <3>2. Page \in Seq(DummyIds)
      BY <1>1, <1>5, <2>1, <3>1, SubSeqProperties
    <3> QED BY <1>3, <1>7, <3>2, ConcatProperties DEF PagingInv
  <2>3. ASSUME ~ moved
        PROVE  /\ call'.state = "getting" =>
                    /\ IsPrefix(first, list)
                    /\ call'.skip <= Len(list) /\ call'.products = SubSeq(list, 1, call'.skip)
               /\ call'.state = "answered" => IsOnce(call'.products)
    <3>1. /\ IsPrefix(first, list) /\ call.skip <= Len(list)
          /\ call.products = SubSeq(list, 1, call.skip)
      BY <1>1, <1>7, <2>3 DEF PagingInv
    <3>2. n = Smaller(call.skip + limit, Len(list))
      BY DEF n
    <3>3. /\ call'.products = SubSeq(list, 1, n)
          /\ call.skip + limit >= Len(list) => SubSeq(list, 1, n) = list
          /\ call.skip + limit < Len(list) => n = call.skip + limit
      <4>1. /\ SubSeq(list, 1, call.skip) \o SubSeq(list, call.skip + 1, n) = SubSeq(list, 1, n)
            /\ call.skip + limit >= Len(list) => SubSeq(list, 1, n) = list
            /\ call.skip + limit < Len(list) => n = call.skip + limit
        BY <1>1, <1>4, <1>5, <3>1, <3>2, NextPage
      <4> QED BY <1>3, <2>1, <3>1, <4>1
    <3>4. CASE call.skip + limit >= Len(list)
      <4>1. state2 = "answered"
        BY <3>4 DEF state2, LastPage
      <4> QED BY <1>3, <1>4, <3>1, <3>3, <3>4, <4>1 DEF IsOnce
    <3>5. CASE call.skip + limit < Len(list)
      <4>1. state2 = "getting"
        BY <1>1, <1>4, <1>7, <3>5 DEF state2, LastPage
      <4>2. call'.state = "getting" /\ call'.skip = n
        BY <1>3, <3>3, <3>5, <4>1
      <4>3. call'.state # "answered"
        BY <4>2
      <4> QED BY <1>5, <3>1, <3>3, <4>2, <4>3
    <3> QED BY <1>1, <1>4, <3>4, <3>5
  <2> QED BY <1>1, <1>3, <1>7, <2>2, <2>3 DEF PagingInv, IsOnce
<1>8. CASE call.shop \notin {"dummyjson", "fakestore"}
  BY <1>3, <1>8 DEF PagingInv
<1> QED BY <1>6, <1>7, <1>8

\* A failed try changes neither what was received nor where the next page begins.
LEMMA PageFailed ==
  ASSUME ClientTypeOK, PagingInv, TransientError \/ BadAnswer
  PROVE  PagingInv'
<1>1. call \in Calls /\ call.state = "getting" /\ UNCHANGED <<list, first, moved>>
  BY DEF ClientTypeOK, Calls, TransientError, BadAnswer
<1>2. /\ call'.shop = call.shop /\ call'.products = call.products /\ call'.skip = call.skip
      /\ call'.state \in {"getting", "raised"}
  BY <1>1 DEF TransientError, BadAnswer, Calls
<1> QED BY <1>1, <1>2 DEF PagingInv

\* What is only appended to the list leaves the pages so far as they were.
LEMMA PagesWhileListChanges ==
  ASSUME ClientTypeOK, PagingInv, ListChanges
  PROVE  PagingInv'
<1>1. list \in Lists /\ first \in Lists /\ list' \in Lists /\ call' = call /\ first' = first
  BY DEF ClientTypeOK, ListChanges
<1>2. call \in Calls /\ call.skip \in Nat
  BY DEF ClientTypeOK, Calls
<1>3. ~ moved' => ~ moved /\ (call.shop = "dummyjson" /\ call.state = "getting" => IsPrefix(list, list'))
  BY DEF ListChanges
<1>4. ASSUME call.shop = "dummyjson", call.state = "getting", ~ moved'
      PROVE  /\ IsPrefix(first, list')
             /\ call.skip <= Len(list') /\ call.products = SubSeq(list', 1, call.skip)
  <2>1. /\ IsPrefix(first, list) /\ IsPrefix(list, list')
        /\ call.skip <= Len(list) /\ call.products = SubSeq(list, 1, call.skip)
    BY <1>3, <1>4 DEF PagingInv
  <2>2. call.skip \in 0 .. Len(list)
    BY <1>1, <1>2, <2>1, ListsAre
  <2> QED BY <1>1, <2>1, <2>2, PrefixOfPrefix
<1> QED BY <1>1, <1>3, <1>4 DEF PagingInv, IsOnce

LEMMA PagesKept ==
  ASSUME PagingInv, UNCHANGED clientVars
  PROVE  PagingInv'
BY DEF PagingInv, clientVars, IsOnce

-----------------------------------------------------------------------------
(* CatalogInv.                                                               *)

LEMMA CatalogKept ==
  ASSUME CatalogInv, products' = products, first' = first, ~ moved' => ~ moved,
         pc' = "fakestore" => pc = "fakestore" /\ dummy' = dummy
  PROVE  CatalogInv'
BY DEF CatalogInv, IsOnce

\* The seed asks DummyJSON for its first page only when there are no products yet.
LEMMA CatalogWhileEmpty ==
  ASSUME products' = <<>>, pc' # "fakestore"
  PROVE  CatalogInv'
BY DEF CatalogInv

LEMMA CatalogSeeded ==
  ASSUME CatalogInv, PagingInv, CallInv, SeedTypeOK, seed_products, UNCHANGED clientVars
  PROVE  CatalogInv' /\ SeedTypeOK' /\ products' # <<>>
<1>1. pc = "fakestore" /\ products = <<>> /\ dummy # <<>> /\ call.products = FakeList
  BY DEF seed_products, CallInv, PagingInv
<1>2. dummy \in Seq(DummyIds)
  BY DEF SeedTypeOK
<1> DEFINE new == NewProducts(dummy, FakeList)
           m == map_by_nearest_price(dummy, FakeList)
<1>3. products' = <<>> \o new
  BY <1>1 DEF seed_products
<1> HIDE DEF new, m
<1>4. new \in Seq(Listings) /\ new # <<>> /\ <<>> \o new = new /\ IdsOf(new) = dummy
  <2>1. new = NewProducts(dummy, FakeList) /\ m = map_by_nearest_price(dummy, FakeList)
    BY DEF new, m
  <2> QED BY <1>1, <1>2, <2>1, NewProductsAre
<1>5. products' = new /\ products' \in Seq(Listings)
  BY <1>3, <1>4
<1>6. [i \in DOMAIN products' |-> products'[i].dummyjson] = dummy
  BY <1>4, <1>5 DEF IdsOf
<1>7. ~ moved => IsOnce(dummy)
  BY <1>1 DEF CatalogInv
<1>8. /\ UNCHANGED <<first, moved, user, shops, rates, session, failed>>
      /\ pc' = "rates" /\ dummy' = <<>>
  BY DEF clientVars, seed_products
<1>9. CatalogInv'
  BY <1>2, <1>5, <1>6, <1>7, <1>8 DEF CatalogInv, IsOnce, new
<1>10. SeedTypeOK'
  BY <1>5, <1>8, EmptySeq DEF SeedTypeOK, Listings
<1> QED BY <1>4, <1>5, <1>9, <1>10

-----------------------------------------------------------------------------
LEMMA InitInv == Init => ServiceInv
<1> SUFFICES ASSUME Init PROVE ServiceInv
  OBVIOUS
<1> USE DEF Init
<1>1. SeedInv
  BY EmptySeq DEF SeedInit, SeedInv, SeedTypeOK
<1>2. CallInv
  <2>1. <<>> \in Seq(Ids)
    BY EmptySeq
  <2>2. NoCall \in Calls /\ NoCall.state # "getting"
    BY <2>1 DEF NoCall, Calls
  <2>3. call = NoCall /\ list \in Lists /\ first \in Lists /\ moved \in BOOLEAN
    BY DEF ClientInit
  <2>4. changes \in 0 .. MaxChanges
    BY DEF ClientInit
  <2>5. ClientTypeOK /\ call.state # "getting"
    BY <2>2, <2>3, <2>4 DEF ClientTypeOK, Calls
  <2> QED BY <2>1, <2>5 DEF SeedInit, CallInv
<1>3. RequestInv
  BY DEF WatchInit, RequestInv, WatchTypeOK, Busy
<1>4. PagingInv
  BY DEF ClientInit, NoCall, PagingInv
<1>5. CatalogInv
  BY DEF SeedInit, CatalogInv
<1> QED BY <1>1, <1>2, <1>3, <1>4, <1>5 DEF ServiceInv

\* What one step of the startup, or anything else outside the requests, keeps.
StartupInv == SeedInv /\ CallInv /\ PagingInv /\ CatalogInv

LEMMA SeedKeeps ==
  ASSUME ServiceInv, StartupStep
  PROVE  StartupInv'
<1> USE DEF ServiceInv
<1> SUFFICES SeedInv' /\ CallInv' /\ PagingInv' /\ CatalogInv'
  BY DEF StartupInv
<1>0. ASSUME UNCHANGED clientVars
      PROVE  PagingInv' /\ first' = first /\ moved' = moved
  BY <1>0, PagesKept DEF clientVars
<1>1. CASE seed_demo_user /\ UNCHANGED clientVars
  <2>1. CatalogInv'
    BY <1>0, <1>1, CatalogKept DEF seed_demo_user
  <2> QED BY <1>0, <1>1, <2>1 DEF seed_demo_user, clientVars, SeedInv, SeedTypeOK, CallInv, ClientTypeOK
<1>2. CASE seed_shops /\ UNCHANGED clientVars
  <2>1. CatalogInv'
    BY <1>0, <1>2, CatalogKept DEF seed_shops
  <2> QED BY <1>0, <1>2, <2>1 DEF seed_shops, clientVars, SeedInv, SeedTypeOK, CallInv, ClientTypeOK
<1>3. CASE seed_products /\ UNCHANGED clientVars
  <2>1. CatalogInv' /\ SeedTypeOK' /\ products' # <<>> /\ pc' = "rates"
    BY <1>3, CatalogSeeded DEF seed_products, SeedInv
  <2>2. SeedInv'
    BY <1>3, <2>1 DEF seed_products, SeedInv
  <2>3. CallInv'
    BY <1>3, <2>1 DEF clientVars, CallInv, ClientTypeOK
  <2> QED BY <1>0, <1>3, <2>1, <2>2, <2>3
<1>4. CASE CommitProductsFails /\ UNCHANGED clientVars
  <2>1. SeedInv'
    BY <1>4, EmptySeq DEF CommitProductsFails, SeedInv, SeedTypeOK
  <2>2. CallInv'
    BY <1>4 DEF CommitProductsFails, clientVars, CallInv, ClientTypeOK
  <2>3. CatalogInv'
    BY <1>0, <1>4, CatalogKept DEF CommitProductsFails
  <2> QED BY <1>0, <1>4, <2>1, <2>2, <2>3
<1>5. CASE ShopFails /\ UNCHANGED clientVars
  <2>1. SeedInv'
    BY <1>5, EmptySeq DEF ShopFails, SeedInv, SeedTypeOK
  <2>2. CallInv'
    BY <1>5 DEF ShopFails, clientVars, CallInv, ClientTypeOK
  <2>3. CatalogInv'
    BY <1>0, <1>5, CatalogKept DEF ShopFails
  <2> QED BY <1>0, <1>5, <2>1, <2>2, <2>3
<1>6. CASE sync_rates /\ UNCHANGED clientVars
  <2>1. SeedInv'
    BY <1>6 DEF sync_rates, SeedInv, SeedTypeOK
  <2>2. CallInv'
    BY <1>6 DEF sync_rates, clientVars, CallInv, ClientTypeOK
  <2>3. CatalogInv'
    BY <1>0, <1>6, CatalogKept DEF sync_rates
  <2> QED BY <1>0, <1>6, <2>1, <2>2, <2>3
<1>7. CASE (SyncFails("nbu") \/ SyncFails("rates")) /\ UNCHANGED clientVars
  <2>1. SeedInv'
    BY <1>7 DEF SyncFails, SeedInv, SeedTypeOK
  <2>2. CallInv'
    BY <1>7 DEF SyncFails, clientVars, CallInv, ClientTypeOK
  <2>3. CatalogInv'
    BY <1>0, <1>7, CatalogKept DEF SyncFails
  <2> QED BY <1>0, <1>7, <2>1, <2>2, <2>3
<1>8. CASE StartupFails /\ UNCHANGED clientVars
  <2>1. SeedInv'
    BY <1>8 DEF StartupFails, SeedInv, SeedTypeOK
  <2>2. CallInv'
    BY <1>8 DEF StartupFails, clientVars, CallInv, ClientTypeOK
  <2>3. CatalogInv'
    BY <1>0, <1>8, CatalogKept DEF StartupFails
  <2> QED BY <1>0, <1>8, <2>1, <2>2, <2>3
<1>9. CASE CountProducts
  <2>1. SeedInv'
    BY <1>9 DEF CountProducts, SeedInv, SeedTypeOK
  <2>2. CASE products = <<>>
    <3>1. CallInv'
      BY <1>9, <2>2, NewCall DEF CountProducts, CallInv
    <3>2. PagingInv'
      BY <1>9, <2>2, PagesAsked DEF CountProducts, CallInv
    <3>3. CatalogInv'
      BY <1>9, <2>2, CatalogWhileEmpty DEF CountProducts
    <3> QED BY <2>1, <3>1, <3>2, <3>3
  <2>3. CASE products # <<>>
    <3>1. CallInv'
      BY <1>9, <2>3 DEF CountProducts, clientVars, CallInv, ClientTypeOK
    <3>2. PagingInv' /\ CatalogInv'
      BY <1>0, <1>9, <2>3, CatalogKept DEF CountProducts
    <3> QED BY <2>1, <3>1, <3>2
  <2> QED BY <2>2, <2>3
<1>10. CASE DummyAnswered
  <2>1. /\ call.shop = "dummyjson" /\ call.state = "answered" /\ products = <<>>
        /\ dummy' = call.products /\ fetch_products("fakestore")
    BY <1>10 DEF DummyAnswered, CallInv
  <2>2. dummy' \in Seq(DummyIds) /\ (~ moved => IsOnce(dummy'))
    BY <2>1 DEF PagingInv
  <2>3. dummy' # <<>>
    BY <1>10, <2>1 DEF DummyAnswered, CallInv, FirstOrMore
  <2>4. SeedInv'
    BY <1>10, <2>2 DEF DummyAnswered, SeedInv, SeedTypeOK
  <2>5. CallInv'
    BY <1>10, <2>1, <2>3, NewCall DEF DummyAnswered, CallInv
  <2>6. PagingInv'
    BY <2>1, PagesAsked DEF CallInv
  <2>7. CatalogInv'
    <3>1. products' = <<>> /\ first' = first /\ moved' = moved
      BY <1>10, <2>1 DEF DummyAnswered, fetch_products, CallInv, ClientTypeOK
    <3> QED BY <2>2, <3>1 DEF CatalogInv, IsOnce
  <2> QED BY <2>4, <2>5, <2>6, <2>7
<1>11. CASE pc \in {"dummyjson", "fakestore"} /\ ClientStep /\ UNCHANGED seedVars
  <2>1. SeedInv'
    BY <1>11 DEF seedVars, SeedInv, SeedTypeOK
  <2>2. CallInv'
    BY <1>11, ClientSteps DEF seedVars, CallInv
  <2>3. PagingInv'
    BY <1>11, PageAdded, PageFailed DEF ClientStep, CallInv
  <2>4. first' = first /\ moved' = moved
    BY <1>11 DEF ClientStep, GetPage, TransientError, BadAnswer
  <2>5. CatalogInv'
    BY <1>11, <2>4, CatalogKept DEF seedVars
  <2> QED BY <2>1, <2>2, <2>3, <2>5
<1> QED BY <1>1, <1>2, <1>3, <1>4, <1>5, <1>6, <1>7, <1>8, <1>9, <1>10, <1>11 DEF StartupStep

LEMMA StartKeeps ==
  ASSUME ServiceInv, Start, UNCHANGED clientVars
  PROVE  StartupInv'
<1> USE DEF ServiceInv
<1>1. SeedInv'
  BY DEF Start, SeedInv, SeedTypeOK
<1>2. CallInv'
  BY DEF Start, clientVars, CallInv, ClientTypeOK
<1>3. PagingInv' /\ first' = first /\ moved' = moved
  BY PagesKept DEF clientVars
<1>4. CatalogInv'
  BY <1>3, CatalogKept DEF Start
<1> QED BY <1>1, <1>2, <1>3, <1>4 DEF StartupInv

LEMMA StopKeeps ==
  ASSUME ServiceInv, StopApi
  PROVE  StartupInv'
<1> USE DEF ServiceInv
<1>1. SeedInv'
  BY EmptySeq DEF StopApi, SeedInv, SeedTypeOK
<1>2. /\ call' = NoCall /\ NoCall \in Calls
      /\ NoCall.state = "none" /\ NoCall.shop = "none"
  BY EmptySeq DEF StopApi, NoCall, Calls
<1>3. ClientTypeOK'
  BY <1>2 DEF StopApi, CallInv, ClientTypeOK, Calls
<1>4. CallInv'
  BY <1>2, <1>3 DEF StopApi, CallInv
<1>5. PagingInv'
  BY <1>2 DEF PagingInv
<1>6. CatalogInv'
  BY CatalogKept DEF StopApi
<1> QED BY <1>1, <1>4, <1>5, <1>6 DEF StartupInv

LEMMA ListKeeps ==
  ASSUME ServiceInv, ListChanges, UNCHANGED seedVars
  PROVE  StartupInv'
<1> USE DEF ServiceInv
<1>1. SeedInv'
  BY DEF seedVars, SeedInv, SeedTypeOK
<1>2. changes' \in 0 .. MaxChanges /\ moved' \in BOOLEAN /\ list' \in Lists
  BY DEF ListChanges, CallInv, ClientTypeOK
<1>3. ClientTypeOK'
  BY <1>2 DEF ListChanges, CallInv, ClientTypeOK
<1>4. CallInv'
  BY <1>3 DEF ListChanges, seedVars, CallInv
<1>5. PagingInv'
  BY PagesWhileListChanges DEF CallInv
<1>6. CatalogInv'
  BY CatalogKept DEF ListChanges, seedVars
<1> QED BY <1>1, <1>4, <1>5, <1>6 DEF StartupInv

LEMMA OtherwiseKept ==
  ASSUME ServiceInv, UNCHANGED <<clientVars, seedVars>>
  PROVE  StartupInv'
<1> USE DEF ServiceInv
<1>1. SeedInv' /\ CallInv'
  BY DEF clientVars, seedVars, SeedInv, SeedTypeOK, CallInv, ClientTypeOK, FirstOrMore
<1>2. PagingInv'
  BY PagesKept
<1>3. CatalogInv'
  BY CatalogKept DEF clientVars, seedVars
<1> QED BY <1>1, <1>2, <1>3 DEF StartupInv

-----------------------------------------------------------------------------
\* Outside the requests, the catalogue is only added to while nothing is served.
LEMMA StartupStepsElsewhere ==
  ASSUME StartupStep \/ Start
  PROVE  pc # "serving"
BY DEF StartupStep, Start, seed_demo_user, seed_shops, seed_products, CommitProductsFails,
       ShopFails, sync_rates, SyncFails, StartupFails, CountProducts, DummyAnswered

LEMMA RequestKeeps ==
  ASSUME ServiceInv, NEW q \in Requests, RequestStep(q)
  PROVE  ServiceInv'
<1> USE DEF ServiceInv, RequestInv
<1>1. pc = "serving" /\ UNCHANGED <<clientVars, seedVars>>
  BY DEF RequestStep, Serving
<1>2. StartupInv'
  BY <1>1, OtherwiseKept
<1>3. pc' = "serving" /\ products' = products
  BY <1>1 DEF seedVars
<1>4. ASSUME NEW i \in Items, add(q, i, Exists(i))
      PROVE  RequestInv'
  BY <1>3, <1>4 DEF add, Open, WatchTypeOK, Busy, Exists
<1>5. ASSUME NEW i \in Items, remove(q, i)
      PROVE  RequestInv'
  BY <1>3, <1>5 DEF remove, Open, WatchTypeOK, Busy, Exists
<1>6. CASE FlushAdd(q, user /\ Exists(req[q].item))
  BY <1>2, <1>3, <1>6 DEF StartupInv, FlushAdd, Open, End, WatchTypeOK, Busy, Exists
<1>7. CASE Commit(q)
  BY <1>2, <1>3, <1>7 DEF StartupInv, Commit, End, WatchTypeOK, Exists
<1>8. CASE LoseRequest(q)
  BY <1>2, <1>3, <1>8 DEF StartupInv, LoseRequest, End, WatchTypeOK, Exists
<1> QED BY <1>1, <1>2, <1>4, <1>5, <1>6, <1>7, <1>8 DEF RequestStep, StartupInv

LEMMA NextInv == ServiceInv /\ [Next]_vars => ServiceInv'
<1> SUFFICES ASSUME ServiceInv, [Next]_vars PROVE ServiceInv'
  OBVIOUS
<1>1. CASE Startup
  <2>1. StartupInv'
    BY <1>1, SeedKeeps, StartKeeps DEF Startup
  <2>2. RequestInv'
    BY <1>1, StartupStepsElsewhere DEF Startup, ServiceInv, RequestInv, WatchTypeOK, watchVars
  <2> QED BY <2>1, <2>2 DEF ServiceInv, StartupInv
<1>2. CASE StopApi /\ LoseAll
  <2>1. StartupInv'
    BY <1>2, StopKeeps
  <2>2. RequestInv'
    BY <1>2 DEF LoseAll, ServiceInv, RequestInv, WatchTypeOK, Busy
  <2> QED BY <2>1, <2>2 DEF ServiceInv, StartupInv
<1>3. CASE ListChanges /\ UNCHANGED <<seedVars, watchVars>>
  <2>1. StartupInv'
    BY <1>3, ListKeeps
  <2>2. RequestInv'
    BY <1>3 DEF ServiceInv, RequestInv, WatchTypeOK, seedVars, watchVars, Exists
  <2> QED BY <2>1, <2>2 DEF ServiceInv, StartupInv
<1>4. ASSUME NEW q \in Requests, RequestStep(q)
      PROVE  ServiceInv'
  BY <1>4, RequestKeeps
<1>5. CASE UNCHANGED vars
  <2>1. StartupInv'
    BY <1>5, OtherwiseKept DEF vars
  <2>2. RequestInv'
    BY <1>5 DEF vars, seedVars, watchVars, ServiceInv, RequestInv, WatchTypeOK, Exists
  <2> QED BY <2>1, <2>2 DEF ServiceInv, StartupInv
<1> QED BY <1>1, <1>2, <1>3, <1>4, <1>5 DEF Next

LEMMA Invariance == Spec => []ServiceInv
BY InitInv, NextInv, PTL DEF Spec

-----------------------------------------------------------------------------
\* The types of the seed, of the calls to the shops and of the requests: the call
\* counter passes no limit, and what is kept of an answer is a list of the shop's ids.
THEOREM TypeCorrect == Spec => []TypeOK
<1>1. ServiceInv => TypeOK
  BY DEF ServiceInv, SeedInv, CallInv, RequestInv, TypeOK
<1> QED BY <1>1, Invariance, PTL

\* fetch_products of DummyJSON and seed_products: whatever page size, failed pages,
\* commits and restarts, the catalogue has each entry of the shop's list once, if
\* entries were at most appended while it was paged.
THEOREM ProductsAreOnce == Spec => []EveryProductOnce
<1>1. ServiceInv => EveryProductOnce
  BY DEF ServiceInv, CatalogInv, IsOnce, EveryProductOnce
<1> QED BY <1>1, Invariance, PTL

LEMMA PairedProducts ==
  ASSUME CatalogInv
  PROVE  PairsAreNearest
<1>1. CASE products = <<>>
  <2>1. DOMAIN products = {}
    <3>1. <<>> \in Seq(Listings) /\ Len(<<>>) = 0
      BY EmptySeq
    <3>2. DOMAIN <<>> = 1 .. 0
      BY <3>1, LenProperties
    <3> QED BY <1>1, <3>2
  <2> QED BY <1>1, <2>1 DEF PairsAreNearest
<1>2. CASE products # <<>>
  <2> DEFINE d == IdsOf(products)
             m == map_by_nearest_price(d, FakeList)
             paired == {i \in DOMAIN products : products[i].fakestore # None}
             chosen == {products[i].fakestore : i \in paired}
  <2>1. d \in Seq(DummyIds) /\ products = NewProducts(d, FakeList)
    BY <1>2 DEF CatalogInv, IdsOf
  <2>2. Len(d) \in Nat /\ DOMAIN d = 1 .. Len(d) /\ DOMAIN d = DOMAIN products
    BY <2>1, LenProperties DEF IdsOf
  <2>3. m = map_by_nearest_price(d, FakeList)
    OBVIOUS
  <2>4. d # <<>>
    <3>1. products = [i \in DOMAIN products |-> products[i]]
      BY <2>1, <2>2 DEF NewProducts
    <3> DEFINE e == <<>>
    <3>2. DOMAIN e = {} /\ e = [i \in {} |-> e[i]]
      <4>1. e \in Seq(Listings) /\ Len(e) = 0
        BY EmptySeq
      <4>2. e \in [1 .. 0 -> Listings]
        BY <4>1, LenProperties
      <4> QED BY <4>2
    <3> HIDE DEF e
    <3>3. DOMAIN products = {} => products = [i \in {} |-> products[i]]
      BY <3>1
    <3>4. DOMAIN products = {} => products = e
      BY <3>2, <3>3
    <3> QED BY <1>2, <2>2, <3>2, <3>4 DEF e
  <2> HIDE DEF d, m
  <2>5. /\ Len(products) = Len(d)
        /\ \A i \in DOMAIN d : /\ products[i].dummyjson = d[i]
                               /\ products[i].fakestore = IF i \in DOMAIN m THEN m[i] ELSE None
    BY <2>1, <2>3, <2>4, NewProductsAre
  <2>6. Paired(d, m, Len(FakeList))
    BY <2>1, <2>3, MapIsPaired
  <2>7. DOMAIN m \subseteq DOMAIN d /\ \A i \in DOMAIN m : m[i] \in ToSet(FakeList) /\ m[i] # None
    BY <2>6, MappingsAre DEF Paired, Ids
  <2>8. paired = DOMAIN m /\ \A i \in paired : products[i].fakestore = m[i]
    BY <2>2, <2>5, <2>7
  <2> HIDE DEF paired
  <2>9. \A i, j \in paired : products[i].fakestore = products[j].fakestore => i = j
    BY <2>6, <2>8 DEF Paired
  <2>10. Cardinality(chosen) = Cardinality(paired)
    <3> DEFINE b == [i \in paired |-> products[i].fakestore]
    <3>1. /\ b \in [paired -> chosen]
          /\ \A i \in paired : b[i] = products[i].fakestore
          /\ \A x \in chosen : \E i \in paired : b[i] = x
      OBVIOUS
    <3> HIDE DEF b, chosen
    <3>2. \A i, j \in paired : b[i] = b[j] => i = j
      BY <2>9, <3>1
    <3>3. b \in Injection(paired, chosen) /\ b \in Surjection(paired, chosen)
      BY <3>1, <3>2 DEF Injection, IsInjective, Surjection
    <3>4. IsFiniteSet(paired)
      <4>1. IsFiniteSet(1 .. Len(d))
        BY <2>2, FS_Interval
      <4> QED BY <2>2, <2>7, <2>8, <4>1, FS_Subset
    <3> QED BY <3>3, <3>4, FS_Bijection DEF ExistsBijection, Bijection
  <2>11. Cardinality(chosen) = Smaller(Len(products), Len(FakeList))
    BY <2>5, <2>6, <2>8, <2>10 DEF Paired
  <2>12. \A i \in paired, j \in DOMAIN products \ paired :
           Gap(DummyPrice[products[i].dummyjson], FakePrice[products[i].fakestore])
             <= Gap(DummyPrice[products[j].dummyjson], FakePrice[products[i].fakestore])
    BY <2>2, <2>5, <2>6, <2>7, <2>8 DEF Paired, GapTo
  <2> QED BY <2>9, <2>11, <2>12 DEF PairsAreNearest, paired
<1> QED BY <1>1, <1>2

\* map_by_nearest_price: a loop over FakeStore's products that takes the nearest
\* free product of DummyJSON pairs as many as possible, and leaves none alone that
\* is closer in price than the one that was taken, whatever the two shops sell.
THEOREM PairsAreClosest == Spec => []PairsAreNearest
<1>1. ServiceInv => PairsAreNearest
  BY PairedProducts DEF ServiceInv
<1> QED BY <1>1, Invariance, PTL

\* Whenever the server comes up, run_seed_if_needed has left everything in place
\* that no failure of this start explains, wherever earlier starts were interrupted.
THEOREM StartsComplete == Spec => []StepsComplete
<1>1. ServiceInv => StepsComplete
  BY DEF ServiceInv, SeedInv, StepsComplete
<1> QED BY <1>1, Invariance, PTL

LEMMA CatalogueKept ==
  ASSUME ServiceInv, [Next]_vars, products # <<>>
  PROVE  products' = products
<1>1. pc \notin {"dummyjson", "fakestore"}
  BY DEF ServiceInv, CallInv
<1>2. CASE StartupStep
  BY <1>1, <1>2 DEF StartupStep, seed_demo_user, seed_shops, seed_products, CommitProductsFails,
       ShopFails, sync_rates, SyncFails, StartupFails, CountProducts, DummyAnswered
<1>3. CASE Start \/ StopApi
  BY <1>3 DEF Start, StopApi
<1>4. CASE UNCHANGED seedVars
  BY <1>4 DEF seedVars
<1>5. ASSUME NEW q \in Requests, RequestStep(q)
      PROVE  UNCHANGED seedVars
  BY <1>5 DEF RequestStep
<1> QED BY <1>2, <1>3, <1>4, <1>5 DEF Next, Startup, vars

\* seed_products runs on an empty catalogue only: no number of restarts adds to
\* the products, or takes one away.
THEOREM SeededOnce == Spec => AddedOnce
<1>1. ServiceInv /\ [Next]_vars => [products # <<>> => products' = products]_products
  BY CatalogueKept
<1> QED BY <1>1, Invariance, PTL DEF Spec, AddedOnce

LEMMA EndsAsAnswered ==
  ASSUME ServiceInv, [Next]_vars, NEW q \in Requests, req[q].state \in Busy, req'[q].state = "done"
  PROVE  req[q].item \in watched' <=> req[q].state # "removing"
<1>1. WatchTypeOK /\ pc = "serving" /\ user
  BY DEF ServiceInv, SeedInv, RequestInv
<1>2. "done" \notin Busy /\ "done" # "lost"
  BY DEF Busy
<1>3. ~ UNCHANGED req
  BY <1>2
<1>4. ~ (StopApi /\ LoseAll)
  BY <1>2 DEF LoseAll
<1>5. PICK o \in Requests : RequestStep(o)
  BY <1>3, <1>4 DEF Next, Startup, vars, watchVars
<1>6. CASE \E i \in Items : add(o, i, Exists(i)) \/ remove(o, i)
  BY <1>1, <1>2, <1>6 DEF add, remove, Open, WatchTypeOK
<1>7. CASE FlushAdd(o, user /\ Exists(req[o].item))
  <2>1. req[o].state = "adding" /\ Exists(req[o].item)
    BY <1>7 DEF FlushAdd, ServiceInv, RequestInv
  <2>2. CASE req[o].item \in watched
    BY <1>1, <1>2, <1>7, <2>1, <2>2 DEF FlushAdd, End, WatchTypeOK
  <2>3. CASE req[o].item \notin watched
    BY <1>1, <1>2, <1>7, <2>1, <2>3 DEF FlushAdd, Open, WatchTypeOK
  <2> QED BY <2>2, <2>3
<1>8. CASE Commit(o)
  BY <1>1, <1>2, <1>8 DEF Commit, End
<1>9. CASE LoseRequest(o)
  BY <1>1, <1>2, <1>9 DEF LoseRequest, End
<1> QED BY <1>5, <1>6, <1>7, <1>8, <1>9 DEF RequestStep

\* An answered watchlist request whose transaction was not lost comes true, for any
\* number of requests: the INSERT after the response meets neither a missing user
\* nor a missing product, and a key that is taken says that the row is there.
THEOREM AnswersAreTrue == Spec => AnswersComeTrue
<1>1. ServiceInv /\ [Next]_vars =>
        [\A q \in Requests :
           req[q].state \in Busy /\ req'[q].state = "done" =>
             (req[q].item \in watched' <=> req[q].state # "removing")]_vars
  BY EndsAsAnswered
<1> QED BY <1>1, Invariance, PTL DEF Spec, AnswersComeTrue
=============================================================================
