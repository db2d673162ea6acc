---------------------------- MODULE ProductProofs ----------------------------
(* Theorems of modules ProductList and ProductPage, for any finite number of  *)
(* products and listings, any prices, page size, length of a day and times.   *)
EXTENDS ProductPage, FoldLemmas, SequenceTheorems

USE ListAssumption

\* -------------------------------------------------------------------------
\* Sums of prices.

PriceFold(g, S) ==
  g = [s \in SUBSET S |-> IF s = {} THEN 0
                          ELSE LET x == CHOOSE x \in s : TRUE IN x.price + g[s \ {x}]]

LEMMA SumOfPrices ==
  ASSUME NEW S, IsFiniteSet(S), NEW lo \in Nat, NEW hi \in Nat,
         \A r \in S : r.price \in Nat /\ lo <= r.price /\ r.price <= hi
  PROVE  /\ SumOf(S) \in Nat
         /\ lo * Cardinality(S) <= SumOf(S) /\ SumOf(S) <= hi * Cardinality(S)
<1> HIDE ListAssumption
<1> DEFINE w == [r \in S |-> r.price]
           Chosen(s) == CHOOSE x \in s : TRUE
           c == [s \in SUBSET S |-> Chosen(s)]
<1>1. Chooses(c, S)
  BY DEF Chooses
<1>2. \A x \in S : w[x] = x.price
  OBVIOUS
<1>3. \A s \in SUBSET S : c[s] = Chosen(s)
  OBVIOUS
<1> HIDE DEF w, c, Chosen
<1>4. ASSUME NEW g
      PROVE  PriceFold(g, S) <=> IsSum(g, S, w, c)
  <2> DEFINE G(s) == IF s = {} THEN 0
                     ELSE Chosen(s).price + g[s \ {Chosen(s)}]
             H(s) == IF s = {} THEN 0 ELSE w[c[s]] + g[s \ {c[s]}]
  <2>1. \A s \in SUBSET S : s # {} => c[s] \in S
    BY <1>1 DEF Chooses
  <2>2. \A s \in SUBSET S : G(s) = H(s)
    BY <1>2, <1>3, <2>1
  <2>3. PriceFold(g, S) <=> g = [s \in SUBSET S |-> G(s)]
    BY DEF PriceFold, Chosen
  <2>4. IsSum(g, S, w, c) <=> g = [s \in SUBSET S |-> H(s)]
    BY DEF IsSum
  <2> HIDE DEF G, H
  <2>5. [s \in SUBSET S |-> G(s)] = [s \in SUBSET S |-> H(s)]
    BY <2>2
  <2> QED BY <2>3, <2>4, <2>5
<1>5. \E g : PriceFold(g, S)
  BY <1>1, <1>2, <1>4, SumExists
<1> DEFINE g == CHOOSE h : PriceFold(h, S)
<1>6. SumOf(S) = g[S]
  BY DEF SumOf, FoldSet, MapThenFoldSet, PriceFold
<1>7. PriceFold(g, S)
  BY <1>5
<1> HIDE DEF g
<1>8. IsSum(g, S, w, c)
  BY <1>4, <1>7
<1>9. \A x \in S : w[x] \in Nat /\ lo <= w[x] /\ w[x] <= hi
  BY <1>2
<1> QED BY <1>1, <1>6, <1>8, <1>9, SumBounds

\* -------------------------------------------------------------------------
\* Days.

LEMMA DayBounds ==
  ASSUME NEW t \in Nat
  PROVE  /\ t \div DayLength \in Nat
         /\ DayLength * (t \div DayLength) <= t
         /\ t < DayLength * (t \div DayLength) + DayLength
BY SMT

LEMMA SinceDay ==
  ASSUME NEW t \in Nat, NEW d \in Int
  PROVE  DayLength * d <= t <=> d <= t \div DayLength
BY SMT

LEMMA DayOf ==
  ASSUME NEW t \in Nat, NEW u \in Nat, t <= u
  PROVE  /\ DayLength * (u \div DayLength) <= t <=> t \div DayLength = u \div DayLength
         /\ t \div DayLength <= u \div DayLength
<1>1. t \div DayLength \in Nat /\ u \div DayLength \in Nat
  BY DayBounds
<1>2. DayLength * (t \div DayLength) <= u
  BY <1>1, DayBounds
<1>3. t \div DayLength <= u \div DayLength
  BY <1>1, <1>2, SinceDay
<1> QED BY <1>1, <1>3, SinceDay

\* -------------------------------------------------------------------------
\* The snapshots, and what the queries make of them.

Snapshot == [listing : Listings, at : 0 .. MaxTime, price : Prices]

\* What is true of the committed snapshots: finitely many, none from the future,
\* and at most one of a listing in a tick.
HistoryOK ==
  /\ now \in 0 .. MaxTime
  /\ history \subseteq Snapshot
  /\ IsFiniteSet(history) /\ Cardinality(history) <= MaxRows
  /\ \A r \in history : r.at <= now
  /\ \A r, s \in history : r.listing = s.listing /\ r.at = s.at => r = s

LEMMA HistoryFacts ==
  ASSUME HistoryOK
  PROVE  /\ now \in Nat
         /\ \A r \in history : /\ r.listing \in Listings /\ ProductOf[r.listing] \in Products
                               /\ r.at \in Nat /\ r.at <= now /\ r.at < MaxTime + 1
                               /\ r.price \in Prices /\ r.price \in Nat
<1>1. ASSUME NEW r \in history
      PROVE  /\ r.listing \in Listings /\ ProductOf[r.listing] \in Products
             /\ r.at \in 0 .. MaxTime /\ r.at <= now /\ r.price \in Prices
  BY DEF HistoryOK, Snapshot
<1>2. MaxTime \in Nat /\ Prices \subseteq Nat /\ now \in Nat
  BY DEF HistoryOK
<1>3. \A r \in history : r.at \in Nat /\ r.at < MaxTime + 1
  BY <1>1, <1>2
<1> QED BY <1>1, <1>2, <1>3

LEMMA PricesAreFinite ==
  /\ IsFiniteSet(Prices) /\ Prices \subseteq Nat /\ Prices \subseteq Int
  /\ \E hi \in Prices : \A x \in Prices : x <= hi
<1>1. IsFiniteSet(Prices) /\ Prices \subseteq Nat /\ Prices \subseteq Int /\ Prices # {}
  OBVIOUS
<1> HIDE ListAssumption
<1> QED BY <1>1, HasGreatest

\* The last snapshot of a listing.
IsLast(r) == r \in history /\ \A s \in history : s.listing = r.listing => s.at <= r.at

LEMMA LastExists ==
  ASSUME HistoryOK, NEW r \in history
  PROVE  \E s \in history : IsLast(s) /\ s.listing = r.listing /\ r.at <= s.at
<1> DEFINE Same == {s \in history : s.listing = r.listing}
           w == [s \in Same |-> s.at]
<1>1. IsFiniteSet(Same) /\ Same # {}
  BY FS_Subset DEF HistoryOK
<1>2. \A s \in Same : w[s] = s.at /\ w[s] \in Int
  BY HistoryFacts
<1> HIDE DEF w
<1>3. PICK s \in Same : \A t \in Same : w[t] <= w[s]
  <2> HIDE DEF Same
  <2> QED BY <1>1, <1>2, GreatestMember
<1> QED BY <1>2, <1>3 DEF IsLast

LEMMA LastIsUnique ==
  ASSUME HistoryOK, NEW r, NEW s, IsLast(r), IsLast(s), r.listing = s.listing
  PROVE  r = s
<1>1. r.at <= s.at /\ s.at <= r.at /\ r.at \in Nat /\ s.at \in Nat
  BY HistoryFacts DEF IsLast
<1>2. r.at = s.at
  BY <1>1
<1> QED BY <1>2 DEF IsLast, HistoryOK

\* The last snapshots that are of today.
LEMMA LatestToday ==
  ASSUME HistoryOK
  PROVE  \A r : r \in latest_price(utc_today_start) <=> IsLast(r) /\ Day(r) = Today
<1>1. \A r \in history : r.at >= utc_today_start <=> Day(r) = Today
  BY HistoryFacts, DayOf DEF utc_today_start, Day, Today
<1> QED BY <1>1 DEF latest_price, IsLast

LEMMA LatestEver ==
  ASSUME HistoryOK
  PROVE  \A r : r \in latest_price(0) <=> IsLast(r)
BY HistoryFacts DEF latest_price, IsLast

Quoting(p) == {r \in latest_price(utc_today_start) : ProductOf[r.listing] = p}
Quotes(p) == {r.price : r \in Quoting(p)}

LEMMA QuotesOfToday ==
  ASSUME HistoryOK, NEW p
  PROVE  Quotes(p) = {r.price : r \in {r \in history : IsLast(r) /\ Day(r) = Today /\ ProductOf[r.listing] = p}}
<1>1. Quoting(p) = {r \in history : IsLast(r) /\ Day(r) = Today /\ ProductOf[r.listing] = p}
  BY LatestToday DEF IsLast, Quoting
<1> QED BY <1>1 DEF Quotes

RowType == [id : Products, price_min : Bounds, price_max : Bounds]

LEMMA RowIsRange ==
  ASSUME HistoryOK, NEW p \in Products
  PROVE  /\ Row(p) \in RowType /\ Row(p).id = p
         /\ Quotes(p) = {} => Row(p).price_min = NoPrice /\ Row(p).price_max = NoPrice
         /\ Quotes(p) # {} => /\ Row(p).price_min \in Quotes(p) /\ Row(p).price_max \in Quotes(p)
                              /\ \A x \in Quotes(p) : Row(p).price_min <= x /\ x <= Row(p).price_max
<1> DEFINE Q == Quotes(p)
<1>1. Q \subseteq Prices
  BY HistoryFacts, QuotesOfToday
<1>2. IsFiniteSet(Q) /\ Q \subseteq Int
  <2> HIDE ListAssumption
  <2> HIDE DEF Q
  <2> QED BY <1>1, PricesAreFinite, FS_Subset
<1>3. Row(p) = [id |-> p,
                price_min |-> IF Q = {} THEN NoPrice ELSE Min(Q),
                price_max |-> IF Q = {} THEN NoPrice ELSE Max(Q)]
  BY DEF Row, Quotes, Quoting
<1> HIDE DEF Q
<1>4. ASSUME Q # {}
      PROVE  /\ Min(Q) \in Q /\ \A x \in Q : Min(Q) <= x
             /\ Max(Q) \in Q /\ \A x \in Q : x <= Max(Q)
  <2>1. \E m \in Q : \A x \in Q : m <= x
    BY <1>2, <1>4, HasLeast
  <2>2. \E m \in Q : \A x \in Q : m >= x
    BY <1>2, <1>4, HasGreatest
  <2> QED BY <2>1, <2>2 DEF Min, Max
<1> QED BY <1>1, <1>3, <1>4 DEF RowType, Bounds, Q

\* -------------------------------------------------------------------------
\* Averages.

Averaged(p, from, before) == {r \in history : ProductOf[r.listing] = p /\ from <= r.at /\ r.at < before}

LEMMA AverageOf ==
  ASSUME HistoryOK, NEW p, NEW from, NEW before
  PROVE  /\ Average(p, from, before) = [sum |-> SumOf(Averaged(p, from, before)),
                                        n |-> Cardinality(Averaged(p, from, before))]
         /\ IsFiniteSet(Averaged(p, from, before))
         /\ Average(p, from, before) \in [sum : Nat, n : 0 .. MaxRows]
<1> DEFINE S == Averaged(p, from, before)
<1>1. Average(p, from, before) = [sum |-> SumOf(S), n |-> Cardinality(S)]
  BY DEF Average, Averaged
<1>2. S \subseteq history
  BY DEF Averaged
<1> HIDE DEF S
<1>3. IsFiniteSet(history) /\ Cardinality(history) <= MaxRows /\ Cardinality(history) \in Nat
  BY FS_CardinalityType DEF HistoryOK
<1>4. IsFiniteSet(S) /\ Cardinality(S) \in Nat /\ Cardinality(S) <= MaxRows
  BY <1>2, <1>3, FS_Subset, FS_CardinalityType
<1>5. PICK hi \in Prices : \A x \in Prices : x <= hi
  BY PricesAreFinite
<1>6. \A r \in S : r.price \in Nat /\ 0 <= r.price /\ r.price <= hi
  BY <1>2, <1>5, HistoryFacts
<1>7. SumOf(S) \in Nat
  BY <1>4, <1>5, <1>6, SumOfPrices, PricesAreFinite
<1>8. Average(p, from, before) \in [sum : Nat, n : 0 .. MaxRows]
  BY <1>1, <1>4, <1>7
<1> QED BY <1>1, <1>4, <1>8 DEF S

\* -------------------------------------------------------------------------
\* Sorting.

ItemType == [id : Products, price_min : Bounds, price_max : Bounds, trend : Trends]

LEMMA KeyIsOrder ==
  ASSUME sort \in Sorts, NEW x \in ItemType
  PROVE  /\ Key(x) \in Int
         /\ \A y \in ItemType : MayPrecede(x, y) <=> Key(x) <= Key(y)
<1>1. ASSUME NEW a \in Bounds
      PROVE  /\ PriceKey(a) \in Nat
             /\ \A b \in Bounds : PriceKey(a) <= PriceKey(b) <=>
                                    b = NoPrice \/ (a # NoPrice /\ a <= b)
  <2>1. /\ Max(Prices) \in Prices /\ \A b \in Prices : b <= Max(Prices)
        /\ Prices \subseteq Nat /\ NoPrice \notin Prices
    <3>1. \E hi \in Prices : \A b \in Prices : hi >= b
      BY PricesAreFinite
    <3> QED BY <3>1 DEF Max
  <2> DEFINE top == Max(Prices)
  <2>2. top \in Nat /\ \A b \in Prices : b \in Nat /\ b <= top /\ b # NoPrice
    BY <2>1
  <2>3. \A b \in Bounds : b = NoPrice \/ b \in Prices
    BY DEF Bounds
  <2>4. \A b : PriceKey(b) = IF b = NoPrice THEN top + 1 ELSE b
    BY DEF PriceKey
  <2> HIDE ListAssumption
  <2> HIDE DEF top
  <2>5. \A b \in Bounds : PriceKey(b) \in Nat
    BY <2>2, <2>3, <2>4
  <2>6. ASSUME NEW b \in Bounds
        PROVE  PriceKey(a) <= PriceKey(b) <=> b = NoPrice \/ (a # NoPrice /\ a <= b)
    <3>1. CASE a = NoPrice /\ b = NoPrice
      BY <2>2, <2>4, <3>1
    <3>2. CASE a = NoPrice /\ b \in Prices
      BY <2>2, <2>4, <3>2
    <3>3. CASE a \in Prices /\ b = NoPrice
      BY <2>2, <2>4, <3>3
    <3>4. CASE a \in Prices /\ b \in Prices
      BY <2>2, <2>4, <3>4
    <3> QED BY <2>3, <3>1, <3>2, <3>3, <3>4
  <2> QED BY <2>5, <2>6
<1>2. /\ x.id \in Products /\ x.price_min \in Bounds /\ x.price_max \in Bounds /\ x.trend \in Trends
      /\ \A y \in ItemType : /\ y.id \in Products /\ y.price_min \in Bounds
                             /\ y.price_max \in Bounds /\ y.trend \in Trends
  BY DEF ItemType
<1>3. /\ TrendKey["down"] = 0 /\ TrendKey["same"] = 1 /\ TrendKey["up"] = 2
      /\ TrendKey.down = 0 /\ TrendKey.same = 1 /\ TrendKey.up = 2
  BY DEF TrendKey
<1>4. CASE sort = "price_asc"
  BY <1>1, <1>2, <1>4 DEF Key, MayPrecede
<1>5. CASE sort = "price_desc"
  <2>1. \A y \in ItemType : PriceKey(y.price_max) \in Nat
    BY <1>1, <1>2
  <2>2. Key(x) = - PriceKey(x.price_max) /\ \A y : Key(y) = - PriceKey(y.price_max)
    BY <1>5 DEF Key
  <2>3. \A y \in ItemType : Key(x) <= Key(y) <=> PriceKey(y.price_max) <= PriceKey(x.price_max)
    BY <2>1, <2>2
  <2>4. \A y \in ItemType : PriceKey(y.price_max) <= PriceKey(x.price_max) <=>
          x.price_max = NoPrice \/ (y.price_max # NoPrice /\ y.price_max <= x.price_max)
    BY <1>1, <1>2
  <2>5. \A y \in ItemType : x.price_max # NoPrice /\ y.price_max # NoPrice =>
          (y.price_max <= x.price_max <=> x.price_max >= y.price_max)
    BY <1>2 DEF Bounds
  <2>6. \A y : MayPrecede(x, y) <=> x.price_max = NoPrice \/ (y.price_max # NoPrice /\ x.price_max >= y.price_max)
    BY <1>5 DEF MayPrecede
  <2> QED BY <2>1, <2>2, <2>3, <2>4, <2>5, <2>6
<1>6. CASE sort = "trend_asc"
  BY <1>2, <1>3, <1>6 DEF Key, MayPrecede, Trends
<1>7. CASE sort = "trend_desc"
  BY <1>2, <1>3, <1>7 DEF Key, MayPrecede, Trends
<1>8. CASE sort = "title"
  BY <1>2, <1>8 DEF Key, MayPrecede
<1> QED BY <1>4, <1>5, <1>6, <1>7, <1>8

\* The place of an item: how many go before it, the earlier ones of equal key too.
Precedes(items, j, i) ==
  Key(items[j]) < Key(items[i]) \/ (Key(items[j]) = Key(items[i]) /\ j < i)
Ahead(items, i) == {j \in DOMAIN items : Precedes(items, j, i)}
RankIn(items, i) == Cardinality(Ahead(items, i)) + 1

LEMMA RanksAreBijective ==
  ASSUME NEW n \in Nat, NEW items, DOMAIN items = 1 .. n, \A i \in 1 .. n : Key(items[i]) \in Int
  PROVE  /\ \A i \in 1 .. n : RankIn(items, i) \in 1 .. n
         /\ \A k \in 1 .. n : \E i \in 1 .. n : RankIn(items, i) = k
<1> HIDE ListAssumption
<1> DEFINE A(i) == Ahead(items, i)
           R == [i \in 1 .. n |-> RankIn(items, i)]
<1>1. IsFiniteSet(1 .. n) /\ Cardinality(1 .. n) = n
  BY FS_Interval
<1>2. ASSUME NEW i \in 1 .. n
      PROVE  /\ IsFiniteSet(A(i)) /\ Cardinality(A(i)) \in Nat
             /\ RankIn(items, i) = Cardinality(A(i)) + 1 /\ RankIn(items, i) \in 1 .. n
  <2>1. A(i) \subseteq (1 .. n) \ {i}
    BY DEF Ahead, Precedes
  <2>2. IsFiniteSet((1 .. n) \ {i}) /\ Cardinality((1 .. n) \ {i}) = n - 1
    BY <1>1, FS_RemoveElement
  <2>3. IsFiniteSet(A(i)) /\ Cardinality(A(i)) <= n - 1
    BY <2>1, <2>2, FS_Subset
  <2>4. Cardinality(A(i)) \in Nat
    BY <2>3, FS_CardinalityType
  <2> QED BY <2>3, <2>4 DEF RankIn
<1>3. ASSUME NEW i \in 1 .. n, NEW j \in 1 .. n, Precedes(items, i, j)
      PROVE  RankIn(items, i) < RankIn(items, j)
  <2>1. A(i) \cup {i} \subseteq A(j)
    BY <1>3 DEF Ahead, Precedes
  <2>2. i \notin A(i)
    BY DEF Ahead, Precedes
  <2>3. Cardinality(A(i) \cup {i}) = Cardinality(A(i)) + 1
    BY <1>2, <2>2, FS_AddElement
  <2>4. Cardinality(A(i) \cup {i}) <= Cardinality(A(j))
    BY <1>2, <2>1, FS_Subset
  <2> HIDE DEF A
  <2> QED BY <1>2, <2>3, <2>4
<1>4. \A i, j \in 1 .. n : i # j => Precedes(items, i, j) \/ Precedes(items, j, i)
  BY DEF Precedes
<1>5. R \in [1 .. n -> 1 .. n] /\ \A i \in 1 .. n : R[i] = RankIn(items, i)
  BY <1>2
<1> HIDE DEF R
<1>6. \A i, j \in 1 .. n : i # j => R[i] # R[j]
  <2>1. ASSUME NEW i \in 1 .. n, NEW j \in 1 .. n, i # j
        PROVE  R[i] # R[j]
    <3>1. R[i] < R[j] \/ R[j] < R[i]
      BY <1>3, <1>4, <1>5, <2>1
    <3> QED BY <1>5, <3>1
  <2> QED BY <2>1
<1>7. R \in Injection(1 .. n, 1 .. n)
  BY <1>5, <1>6 DEF Injection, IsInjective
<1>8. R \in Surjection(1 .. n, 1 .. n)
  BY <1>1, <1>7, FS_Injection
<1>9. \A k \in 1 .. n : \E i \in 1 .. n : R[i] = k
  BY <1>8 DEF Surjection
<1> QED BY <1>2, <1>5, <1>9

\* A sorted list has the k-th item in place k.
LEMMA SortedByRank ==
  ASSUME NEW n \in Nat, NEW items, DOMAIN items = 1 .. n, \A i \in 1 .. n : Key(items[i]) \in Int
  PROVE  /\ DOMAIN sort_items(items) = 1 .. n
         /\ \A k \in 1 .. n : \E i \in 1 .. n : RankIn(items, i) = k /\ sort_items(items)[k] = items[i]
<1> HIDE ListAssumption
<1>0. \A k \in 1 .. n : \E i \in 1 .. n : RankIn(items, i) = k
  BY RanksAreBijective
<1> DEFINE Place(k) == CHOOSE i \in DOMAIN items : RankIn(items, i) = k
<1>1. sort_items(items) = [k \in DOMAIN items |-> items[Place(k)]]
  BY DEF sort_items, RankIn, Ahead, Precedes
<1>2. \A k \in 1 .. n : Place(k) \in 1 .. n /\ RankIn(items, Place(k)) = k
  <2>1. ASSUME NEW k \in 1 .. n
        PROVE  Place(k) \in DOMAIN items /\ RankIn(items, Place(k)) = k
    <3>1. \E i \in DOMAIN items : RankIn(items, i) = k
      BY <1>0
    <3> QED BY <3>1
  <2> HIDE DEF Place
  <2> QED BY <2>1
<1> HIDE DEF Place
<1> QED BY <1>1, <1>2

\* -------------------------------------------------------------------------
\* The inductive invariant.

N == Cardinality(Products)

\* The item of a product as a page shows it: the catalogue has no trends.
Listed(p) == IF sort = "title" THEN ListItem(Row(p), "same") ELSE Item(p)

Reading == step \in {"today", "prev", "count"}

\* A request reads one row for each product; the pages so far make up the first
\* part of the list.
PagingInv ==
  /\ sort \in Sorts /\ quiet \in BOOLEAN
  /\ step \in {"idle", "today", "prev", "count", "done"}
  /\ today \in [Products -> [sum : Nat, n : 0 .. MaxRows]]
  /\ Reading => /\ rows \in [1 .. N -> RowType]
                /\ \A i, j \in 1 .. N : rows[i].id = rows[j].id => i = j
                /\ step = "count" <=> sort = "title"
  /\ ~ Reading => rows = <<>>
  /\ page \in Nat \ {0}
  /\ page = 1 \/ (page - 1) * page_size < N
  /\ shown \in Seq(ItemType)
  /\ Len(shown) = IF step = "done" THEN N ELSE (page - 1) * page_size

\* As long as nothing changes, what was read is what is.
FreshInv ==
  quiet =>
    /\ Reading => \A i \in 1 .. N, p \in Products : rows[i].id = p => rows[i] = Row(p)
    /\ step = "prev" => \A p \in Products : today[p] = avg_today(p)
    /\ \A i \in 1 .. Len(shown), p \in Products : shown[i].id = p => shown[i] = Listed(p)

\* The place of a product in the whole list.
Place(p) == Cardinality({q \in Products : Key(Listed(q)) < Key(Listed(p))}) + 1

\* Without ties the k-th item of the walk is the product whose place is k.
WalkInv ==
  quiet /\ NoTies => \A k \in 1 .. Len(shown), p \in Products : shown[k].id = p => Place(p) = k

ListInv == HistoryOK /\ PagingInv /\ FreshInv /\ WalkInv

LEMMA NIsNat == N \in Nat /\ IsFiniteSet(1 .. N) /\ Cardinality(1 .. N) = N
<1>1. IsFiniteSet(Products)
  OBVIOUS
<1> HIDE ListAssumption
<1>2. N \in Nat
  BY <1>1, FS_CardinalityType DEF N
<1> QED BY <1>2, FS_Interval

\* Rows that name N different products name them all.
LEMMA RowsCover ==
  ASSUME NEW f \in [1 .. N -> Products], \A i, j \in 1 .. N : f[i] = f[j] => i = j
  PROVE  \A p \in Products : \E i \in 1 .. N : f[i] = p
<1>1. IsFiniteSet(Products)
  OBVIOUS
<1> HIDE ListAssumption
<1>2. f \in Injection(1 .. N, Products)
  BY DEF Injection, IsInjective
<1>3. f \in Surjection(1 .. N, Products)
  BY <1>1, <1>2, NIsNat, FS_Injection DEF N
<1> QED BY <1>3 DEF Surjection

LEMMA InitListInv == Init => ListInv
<1> SUFFICES ASSUME Init PROVE ListInv
  OBVIOUS
<1>1. MaxTime \in Nat /\ MaxRows \in Nat /\ page_size \in Nat
  OBVIOUS
<1>2. IsFiniteSet({}) /\ Cardinality({}) = 0
  BY FS_EmptySet
<1>3. HistoryOK
  BY <1>1, <1>2 DEF Init, HistoryOK
<1>4. <<>> \in Seq(ItemType) /\ Len(<<>>) = 0
  BY EmptySeq
<1>5. today \in [Products -> [sum : Nat, n : 0 .. MaxRows]]
  BY <1>1 DEF Init, NoAverage
<1>6. (page - 1) * page_size = 0
  BY <1>1 DEF Init
<1>7. PagingInv
  BY <1>4, <1>5, <1>6 DEF Init, PagingInv, Reading
<1>8. FreshInv /\ WalkInv
  BY <1>4 DEF Init, FreshInv, WalkInv, Reading
<1> QED BY <1>3, <1>7, <1>8 DEF ListInv

\* What the answer to a page adds to what was shown.
LEMMA PageIsNext ==
  ASSUME PagingInv, step # "done", NEW sorted \in [1 .. N -> ItemType], Respond(sorted)
  PROVE  /\ shown' \in Seq(ItemType)
         /\ \A k \in 1 .. Len(shown) : k \in 1 .. Len(shown') /\ shown'[k] = shown[k]
         /\ \A k \in 1 .. Len(shown') : k \notin 1 .. Len(shown) => k \in 1 .. N /\ shown'[k] = sorted[k]
         /\ page' \in Nat \ {0}
         /\ step' \in {"idle", "done"}
         /\ page' = 1 \/ (page' - 1) * page_size < N
         /\ Len(shown') = IF step' = "done" THEN N ELSE (page' - 1) * page_size
<1> DEFINE w == page_size
           off == (page - 1) * w
           m == Min({off + w, Len(sorted)})
           P == SubSeq(sorted, off + 1, m)
<1>1. w \in Nat \ {0} /\ page \in Nat \ {0} /\ N \in Nat
  BY NIsNat DEF PagingInv
<1>2. off \in Nat /\ off <= N /\ Len(shown) = off /\ shown \in Seq(ItemType)
  <2>1. off \in Nat
    BY <1>1
  <2>2. page = 1 => off = 0
    BY <1>1
  <2> QED BY <1>1, <2>1, <2>2 DEF PagingInv
<1>3. page * w = off + w
  BY <1>1
<1>4. Len(sorted) = N
  <2>1. sorted = [i \in 1 .. N |-> sorted[i]] /\ \A i \in 1 .. N : sorted[i] \in ItemType
    OBVIOUS
  <2>2. sorted \in Seq(ItemType)
    BY <1>1, <2>1, SeqDef
  <2>3. DOMAIN sorted = 1 .. Len(sorted) /\ Len(sorted) \in Nat /\ DOMAIN sorted = 1 .. N
    BY <2>2, LenProperties
  <2> QED BY <1>1, <2>3
<1> HIDE DEF off, w
<1>5. m = IF off + w <= N THEN off + w ELSE N
  <2>1. off + w \in Nat
    BY <1>1, <1>2
  <2> QED BY <1>1, <1>4, <2>1 DEF Min
<1> HIDE DEF m
<1>6. m \in Nat /\ off <= m /\ m <= N
  BY <1>1, <1>2, <1>5
<1>7. \A i \in off + 1 .. m : i \in 1 .. N /\ sorted[i] \in ItemType
  BY <1>1, <1>2, <1>6
<1>8. /\ P \in Seq(ItemType) /\ Len(P) = m - off
      /\ \A i \in 1 .. m - off : P[i] = sorted[off + i]
  <2>1. /\ P \in Seq(ItemType) /\ Len(P) = IF off + 1 <= m THEN m - (off + 1) + 1 ELSE 0
        /\ \A i \in 1 .. m - (off + 1) + 1 : P[i] = sorted[off + 1 + i - 1]
    BY <1>2, <1>6, <1>7, SubSeqProperties
  <2>2. m - (off + 1) + 1 = m - off /\ \A i \in Int : off + 1 + i - 1 = off + i
    BY <1>2, <1>6
  <2> HIDE DEF P
  <2> QED BY <1>2, <1>6, <2>1, <2>2
<1>9. shown' = shown \o P
  BY DEF Respond, PageOf, P, m, off, w
<1> HIDE DEF P
<1>10. /\ shown' \in Seq(ItemType) /\ Len(shown') = m
       /\ \A i \in 1 .. m : shown'[i] = IF i <= off THEN shown[i] ELSE P[i - off]
  <2>1. /\ shown' \in Seq(ItemType) /\ Len(shown') = off + (m - off)
        /\ \A i \in 1 .. off + (m - off) : shown'[i] = IF i <= off THEN shown[i] ELSE P[i - off]
    BY <1>2, <1>8, <1>9, ConcatProperties
  <2>2. off + (m - off) = m
    BY <1>2, <1>6
  <2> QED BY <2>1, <2>2
<1>11. \A k \in 1 .. Len(shown') : k \notin 1 .. Len(shown) => k \in 1 .. N /\ shown'[k] = sorted[k]
  <2> SUFFICES ASSUME NEW k \in 1 .. m, k \notin 1 .. off
               PROVE  k \in 1 .. N /\ shown'[k] = sorted[k]
    BY <1>2, <1>10
  <2>1. k - off \in 1 .. m - off /\ ~ (k <= off) /\ off + (k - off) = k /\ k \in 1 .. N
    BY <1>1, <1>2, <1>6
  <2> QED BY <1>8, <1>10, <2>1
<1>12. \A k \in 1 .. Len(shown) : k \in 1 .. Len(shown') /\ shown'[k] = shown[k]
  <2> SUFFICES ASSUME NEW k \in 1 .. off
               PROVE  k \in 1 .. m /\ shown'[k] = shown[k]
    BY <1>2, <1>10
  <2>1. k \in 1 .. m /\ k <= off
    BY <1>2, <1>6
  <2> QED BY <1>10, <2>1
<1>13. CASE off + w < N
  <2>1. page' = page + 1 /\ step' = "idle"
    BY <1>3, <1>13 DEF Respond, N, w
  <2>2. (page' - 1) * page_size = off + w
    BY <1>1, <1>3, <2>1 DEF w
  <2>3. m = off + w
    BY <1>1, <1>2, <1>5, <1>13
  <2> QED BY <1>1, <1>10, <1>11, <1>12, <1>13, <2>1, <2>2, <2>3
<1>14. CASE ~ (off + w < N)
  <2>1. page' = page /\ step' = "done"
    BY <1>3, <1>14 DEF Respond, N, w
  <2>2. m = N
    BY <1>1, <1>2, <1>5, <1>14
  <2>3. page = 1 \/ (page - 1) * page_size < N
    BY DEF PagingInv
  <2> QED BY <1>1, <1>10, <1>11, <1>12, <2>1, <2>2, <2>3
<1> QED BY <1>13, <1>14

\* -------------------------------------------------------------------------
\* The items of a page.

LEMMA ListItemIs ==
  ASSUME NEW row \in RowType, NEW t \in Trends
  PROVE  /\ ListItem(row, t) \in ItemType
         /\ ListItem(row, t).id = row.id /\ ListItem(row, t).trend = t
         /\ ListItem(row, t).price_min = row.price_min /\ ListItem(row, t).price_max = row.price_max
BY DEF ListItem, RowType, ItemType

LEMMA ListedIs ==
  ASSUME HistoryOK, NEW p \in Products
  PROVE  /\ Listed(p) \in ItemType /\ Listed(p).id = p
         /\ Item(p) \in ItemType /\ Item(p).id = p
         /\ Listed(p).price_min = Row(p).price_min /\ Listed(p).price_max = Row(p).price_max
<1>1. Row(p) \in RowType /\ Row(p).id = p
  BY RowIsRange
<1>2. \A t, h : determine_trend(t, h) \in Trends
  BY DEF determine_trend, Trends
<1>3. "same" \in Trends
  BY DEF Trends
<1> QED BY <1>1, <1>2, <1>3, ListItemIs DEF Listed, Item

LEMMA TiesAreEqualKeys ==
  ASSUME HistoryOK, sort \in Sorts, NoTies
  PROVE  \A p, q \in Products : p # q => Key(Listed(p)) # Key(Listed(q))
<1> SUFFICES ASSUME NEW p \in Products, NEW q \in Products, p # q
             PROVE  Key(Listed(p)) # Key(Listed(q))
  OBVIOUS
<1>1. /\ Item(p) \in ItemType /\ Item(q) \in ItemType
      /\ Item(p).id = p /\ Item(q).id = q /\ Listed(p).id = p /\ Listed(q).id = q
  BY ListedIs
<1>2. ~ (MayPrecede(Item(p), Item(q)) /\ MayPrecede(Item(q), Item(p)))
  BY DEF NoTies
<1>3. ~ (Key(Item(p)) <= Key(Item(q)) /\ Key(Item(q)) <= Key(Item(p)))
      /\ Key(Item(p)) \in Int /\ Key(Item(q)) \in Int
  BY <1>1, <1>2, KeyIsOrder
<1>4. Key(Item(p)) # Key(Item(q))
  BY <1>3
<1>5. CASE sort = "title"
  BY <1>1, <1>4, <1>5 DEF Key
<1>6. CASE sort # "title"
  BY <1>4, <1>6 DEF Listed
<1> QED BY <1>5, <1>6

\* Without ties the rank of an item does not depend on the order of the rows.
LEMMA RankIsPlace ==
  ASSUME HistoryOK, sort \in Sorts, NoTies, NEW items \in [1 .. N -> ItemType],
         \A i, j \in 1 .. N : items[i].id = items[j].id => i = j,
         \A i \in 1 .. N : items[i] = Listed(items[i].id),
         NEW i \in 1 .. N
  PROVE  RankIn(items, i) = Place(items[i].id)
<1> DEFINE A == Ahead(items, i)
           B == {q \in Products : Key(Listed(q)) < Key(Listed(items[i].id))}
           f == [j \in A |-> items[j].id]
<1>1. DOMAIN items = 1 .. N /\ \A j \in 1 .. N : items[j] \in ItemType /\ items[j].id \in Products
  BY DEF ItemType
<1>2. \A j \in 1 .. N : Key(items[j]) = Key(items[i]) => j = i
  BY <1>1, TiesAreEqualKeys
<1>3. A = {j \in 1 .. N : Key(items[j]) < Key(items[i])}
  <2>1. ASSUME NEW j \in 1 .. N
        PROVE  Precedes(items, j, i) <=> Key(items[j]) < Key(items[i])
    BY <1>2, NIsNat DEF Precedes
  <2> QED BY <1>1, <2>1 DEF Ahead
<1>4. \A q \in Products : \E j \in 1 .. N : items[j].id = q
  <2> DEFINE ids == [j \in 1 .. N |-> items[j].id]
  <2>1. ids \in [1 .. N -> Products] /\ \A j \in 1 .. N : ids[j] = items[j].id
    BY <1>1
  <2> HIDE DEF ids
  <2>3. \A j, k \in 1 .. N : ids[j] = ids[k] => j = k
    BY <2>1
  <2> HIDE ListAssumption
  <2>2. \A q \in Products : \E j \in 1 .. N : ids[j] = q
    BY <2>1, <2>3, RowsCover
  <2> QED BY <2>1, <2>2
<1>5. \A j \in A : j \in 1 .. N /\ items[j].id \in B
  BY <1>1, <1>3
<1>6. f \in Surjection(A, B)
  <2>1. \A q \in B : \E j \in A : items[j].id = q
    BY <1>1, <1>3, <1>4
  <2> HIDE DEF A, B
  <2>2. f \in [A -> B] /\ \A j \in A : f[j] = items[j].id
    BY <1>5
  <2> HIDE DEF f
  <2>3. \A q \in B : \E j \in A : f[j] = q
    BY <2>1, <2>2
  <2> HIDE ListAssumption
  <2> QED BY <2>2, <2>3 DEF Surjection
<1>7. f \in Injection(A, B)
  <2> HIDE DEF A, B
  <2>2. f \in [A -> B] /\ \A j \in A : f[j] = items[j].id
    BY <1>5
  <2> HIDE DEF f
  <2>3. \A j, k \in A : f[j] = f[k] => j = k
    BY <1>5, <2>2
  <2> QED BY <2>2, <2>3 DEF Injection, IsInjective
<1>8. IsFiniteSet(A)
  <2>1. A \subseteq 1 .. N
    BY <1>5
  <2> QED BY <2>1, NIsNat, FS_Subset
<1>9. Cardinality(B) = Cardinality(A)
  <2> HIDE DEF A, B, f
  <2> QED BY <1>6, <1>7, <1>8, FS_Bijection DEF ExistsBijection, Bijection
<1> QED BY <1>9 DEF RankIn, Place

LEMMA SortedItems ==
  ASSUME HistoryOK, sort \in Sorts, NEW items \in [1 .. N -> ItemType],
         \A i, j \in 1 .. N : items[i].id = items[j].id => i = j
  PROVE  /\ sort_items(items) \in [1 .. N -> ItemType]
         /\ \A k \in 1 .. N : \E i \in 1 .. N : sort_items(items)[k] = items[i]
         /\ NoTies /\ (\A i \in 1 .. N : items[i] = Listed(items[i].id)) =>
              \A k \in 1 .. N : Place(sort_items(items)[k].id) = k
<1> DEFINE sorted == sort_items(items)
<1>1. \A i \in 1 .. N : items[i] \in ItemType /\ Key(items[i]) \in Int
  BY KeyIsOrder
<1>2. /\ DOMAIN sorted = 1 .. N
      /\ \A k \in 1 .. N : \E i \in 1 .. N : RankIn(items, i) = k /\ sorted[k] = items[i]
  <2>1. DOMAIN items = 1 .. N /\ N \in Nat
    BY NIsNat
  <2> HIDE ListAssumption
  <2> QED BY <1>1, <2>1, SortedByRank
<1>3. sorted = [k \in 1 .. N |-> sorted[k]]
  BY <1>2 DEF sort_items
<1> HIDE DEF sorted
<1>4. sorted \in [1 .. N -> ItemType]
  BY <1>1, <1>2, <1>3
<1>5. ASSUME NoTies, \A i \in 1 .. N : items[i] = Listed(items[i].id), NEW k \in 1 .. N
      PROVE  Place(sorted[k].id) = k
  <2>1. PICK i \in 1 .. N : RankIn(items, i) = k /\ sorted[k] = items[i]
    BY <1>2
  <2>2. RankIn(items, i) = Place(items[i].id)
    BY <1>5, RankIsPlace
  <2> QED BY <2>1, <2>2
<1> QED BY <1>2, <1>4, <1>5 DEF sorted

\* While neither the snapshots nor the day change, the queries answer the same.
LEMMA SameAnswers ==
  ASSUME history' = history, utc_today_start' = utc_today_start, sort' = sort
  PROVE  /\ \A p : Row(p)' = Row(p) /\ avg_today(p)' = avg_today(p) /\ Listed(p)' = Listed(p)
         /\ NoTies' <=> NoTies
         /\ \A p : Place(p)' = Place(p)
<1>1. \A from : latest_price(from)' = latest_price(from)
  BY DEF latest_price
<1>2. latest_price(utc_today_start)' = latest_price(utc_today_start)
  BY DEF latest_price
<1>3. \A p : Row(p)' = Row(p)
  BY <1>2 DEF Row
<1>4. \A p : avg_today(p)' = avg_today(p) /\ avg_prev_30d(p)' = avg_prev_30d(p)
  BY DEF avg_today, avg_prev_30d, Average
<1>5. \A p : Item(p)' = Item(p) /\ Listed(p)' = Listed(p)
  BY <1>3, <1>4 DEF Item, Listed
<1>6. \A x : Key(x)' = Key(x)
  BY DEF Key
<1>7. \A x, y : MayPrecede(x, y)' <=> MayPrecede(x, y)
  BY DEF MayPrecede
<1>8. NoTies' <=> NoTies
  BY <1>5, <1>7 DEF NoTies
<1>9. \A p : Place(p)' = Place(p)
  BY <1>5, <1>6 DEF Place
<1> QED BY <1>3, <1>4, <1>5, <1>8, <1>9

\* -------------------------------------------------------------------------
\* The steps.

\* The first statement of a request.
LEMMA RowsRead ==
  ASSUME ListInv, step = "idle", NEW o \in Orders,
         rows' = [i \in DOMAIN o |-> Row(o[i])],
         step' = IF sort = "title" THEN "count" ELSE "today",
         UNCHANGED <<history, now, sort, page, today, shown, quiet>>
  PROVE  ListInv'
<1>1. /\ HistoryOK /\ PagingInv /\ FreshInv /\ WalkInv
      /\ utc_today_start' = utc_today_start
  BY DEF ListInv, utc_today_start
<1>2. HistoryOK'
  BY <1>1 DEF HistoryOK
<1>3. /\ o \in [1 .. N -> Products]
      /\ \A i, j \in 1 .. N : o[i] = o[j] => i = j
  BY DEF Orders, N, IsInjective
<1>4. /\ rows' \in [1 .. N -> RowType]
      /\ \A i \in 1 .. N : rows'[i] = Row(o[i]) /\ rows'[i].id = o[i]
  BY <1>1, <1>3, RowIsRange
<1>5. PagingInv'
  <2>1. Reading' /\ step' \in {"idle", "today", "prev", "count", "done"} /\ step' # "done"
    BY DEF Reading
  <2>2. step' = "count" <=> sort' = "title"
    OBVIOUS
  <2>3. \A i, j \in 1 .. N : rows'[i].id = rows'[j].id => i = j
    BY <1>3, <1>4
  <2> QED BY <1>1, <1>4, <2>1, <2>2, <2>3 DEF PagingInv, N
<1>6. FreshInv'
  <2>1. step' # "prev" /\ N' = N
    BY DEF N
  <2>2. \A i \in 1 .. N, p \in Products : rows'[i].id = p => rows'[i] = Row(p)'
    BY <1>1, <1>4, SameAnswers
  <2>3. quiet' => \A i \in 1 .. Len(shown'), p \in Products : shown'[i].id = p => shown'[i] = Listed(p)'
    BY <1>1, SameAnswers DEF FreshInv
  <2> QED BY <2>1, <2>2, <2>3 DEF FreshInv
<1>7. WalkInv'
  BY <1>1, SameAnswers DEF WalkInv
<1> QED BY <1>2, <1>5, <1>6, <1>7 DEF ListInv

LEMMA TodayRead ==
  ASSUME ListInv, ReadToday
  PROVE  ListInv'
<1>1. /\ HistoryOK /\ PagingInv /\ FreshInv /\ WalkInv
      /\ utc_today_start' = utc_today_start
      /\ step = "today" /\ step' = "prev" /\ today' = [p \in Products |-> avg_today(p)]
      /\ UNCHANGED <<history, now, sort, page, rows, shown, quiet>>
  BY DEF ListInv, ReadToday, utc_today_start
<1>2. HistoryOK'
  BY <1>1 DEF HistoryOK
<1>3. today' \in [Products -> [sum : Nat, n : 0 .. MaxRows]]
  BY <1>1, AverageOf DEF avg_today
<1>4. PagingInv'
  BY <1>1, <1>3 DEF PagingInv, Reading, N
<1>5. FreshInv'
  <2>1. \A p \in Products : today'[p] = avg_today(p)'
    BY <1>1, SameAnswers
  <2>2. quiet' => \A i \in 1 .. N, p \in Products : rows'[i].id = p => rows'[i] = Row(p)'
    BY <1>1, SameAnswers DEF FreshInv, Reading
  <2>3. quiet' => \A i \in 1 .. Len(shown'), p \in Products : shown'[i].id = p => shown'[i] = Listed(p)'
    BY <1>1, SameAnswers DEF FreshInv
  <2> QED BY <2>1, <2>2, <2>3 DEF FreshInv, N
<1>6. WalkInv'
  BY <1>1, SameAnswers DEF WalkInv
<1> QED BY <1>2, <1>4, <1>5, <1>6 DEF ListInv

\* The answer to a page, from the items made of the rows.
LEMMA PageAnswered ==
  ASSUME ListInv, step \in {"prev", "count"},
         NEW items \in [1 .. N -> ItemType],
         \A i \in 1 .. N : items[i].id = rows[i].id,
         quiet => \A i \in 1 .. N : items[i] = Listed(items[i].id),
         Respond(sort_items(items)), rows' = <<>>,
         today' \in [Products -> [sum : Nat, n : 0 .. MaxRows]],
         UNCHANGED <<history, now, sort, quiet>>
  PROVE  ListInv'
<1> DEFINE sorted == sort_items(items)
<1>1. /\ HistoryOK /\ PagingInv /\ FreshInv /\ WalkInv
      /\ utc_today_start' = utc_today_start /\ sort \in Sorts /\ Reading
  BY DEF ListInv, utc_today_start, PagingInv, Reading
<1>2. HistoryOK'
  BY <1>1 DEF HistoryOK
<1>3. \A i, j \in 1 .. N : items[i].id = items[j].id => i = j
  BY <1>1 DEF PagingInv
<1>4. /\ sorted \in [1 .. N -> ItemType]
      /\ \A k \in 1 .. N : \E i \in 1 .. N : sorted[k] = items[i]
      /\ NoTies /\ (\A i \in 1 .. N : items[i] = Listed(items[i].id)) =>
           \A k \in 1 .. N : Place(sorted[k].id) = k
  BY <1>1, <1>3, SortedItems
<1>5. Respond(sorted)
  OBVIOUS
<1> HIDE DEF sorted
<1>6. /\ shown' \in Seq(ItemType)
      /\ \A k \in 1 .. Len(shown) : k \in 1 .. Len(shown') /\ shown'[k] = shown[k]
      /\ \A k \in 1 .. Len(shown') : k \notin 1 .. Len(shown) => k \in 1 .. N /\ shown'[k] = sorted[k]
      /\ page' \in Nat \ {0}
      /\ step' \in {"idle", "done"}
      /\ page' = 1 \/ (page' - 1) * page_size < N
      /\ Len(shown') = IF step' = "done" THEN N ELSE (page' - 1) * page_size
  BY <1>1, <1>4, <1>5, PageIsNext
<1>7. PagingInv'
  BY <1>1, <1>6 DEF PagingInv, Reading, N
<1>8. FreshInv'
  <2>1. ASSUME quiet, NEW k \in 1 .. Len(shown'),
               NEW p \in Products, shown'[k].id = p
        PROVE  shown'[k] = Listed(p)
    <3>1. CASE k \in 1 .. Len(shown)
      BY <1>1, <1>6, <2>1, <3>1 DEF FreshInv
    <3>2. CASE k \notin 1 .. Len(shown)
      <4>1. PICK i \in 1 .. N : shown'[k] = items[i]
        BY <1>4, <1>6, <3>2
      <4>2. items[i] = Listed(items[i].id) /\ items[i].id = p
        BY <2>1, <4>1
      <4> QED BY <4>1, <4>2
    <3> QED BY <3>1, <3>2
  <2>2. quiet' => \A k \in 1 .. Len(shown'), p \in Products : shown'[k].id = p => shown'[k] = Listed(p)'
    BY <1>1, <2>1, SameAnswers
  <2>3. ~ Reading' /\ step' # "prev"
    BY <1>6 DEF Reading
  <2> QED BY <2>2, <2>3 DEF FreshInv
<1>9. WalkInv'
  <2>1. ASSUME quiet, NoTies, NEW k \in 1 .. Len(shown'),
               NEW p \in Products, shown'[k].id = p
        PROVE  Place(p) = k
    <3>1. CASE k \in 1 .. Len(shown)
      BY <1>1, <1>6, <2>1, <3>1 DEF WalkInv
    <3>2. CASE k \notin 1 .. Len(shown)
      <4>1. k \in 1 .. N /\ shown'[k] = sorted[k]
        BY <1>6, <3>2
      <4>2. Place(sorted[k].id) = k
        BY <1>4, <2>1, <4>1
      <4> QED BY <2>1, <4>1, <4>2
    <3> QED BY <3>1, <3>2
  <2> QED BY <1>1, <2>1, SameAnswers DEF WalkInv
<1> QED BY <1>2, <1>7, <1>8, <1>9 DEF ListInv

LEMMA PrevRead ==
  ASSUME ListInv, ReadPrev
  PROVE  ListInv'
<1> DEFINE Trend(i) == determine_trend(today[rows[i].id], avg_prev_30d(rows[i].id))
           items == [i \in DOMAIN rows |-> ListItem(rows[i], Trend(i))]
<1>1. /\ PagingInv /\ FreshInv /\ HistoryOK
      /\ step = "prev" /\ Reading /\ sort # "title"
      /\ rows \in [1 .. N -> RowType]
  BY DEF ListInv, ReadPrev, PagingInv, Reading
<1>2. /\ Respond(sort_items(items)) /\ rows' = <<>>
      /\ UNCHANGED <<history, now, sort, quiet>>
  BY DEF ReadPrev
<1>3. today' \in [Products -> [sum : Nat, n : 0 .. MaxRows]]
  <2>1. NoAverage \in [sum : Nat, n : 0 .. MaxRows]
    BY DEF NoAverage
  <2> QED BY <2>1 DEF ReadPrev
<1>4. \A i \in 1 .. N : Trend(i) \in Trends
  BY DEF determine_trend, Trends
<1>5. ASSUME NEW i \in 1 .. N
      PROVE  /\ items[i] = ListItem(rows[i], Trend(i)) /\ items[i] \in ItemType
             /\ items[i].id = rows[i].id
  <2> HIDE DEF Trend
  <2> QED BY <1>1, <1>4, ListItemIs
<1>6. items \in [1 .. N -> ItemType]
  BY <1>1, <1>5
<1>7. ASSUME quiet, NEW i \in 1 .. N
      PROVE  items[i] = Listed(items[i].id)
  <2> DEFINE p == rows[i].id
  <2>1. p \in Products
    BY <1>1 DEF RowType
  <2>2. rows[i] = Row(p) /\ today[p] = avg_today(p)
    BY <1>1, <1>7, <2>1 DEF FreshInv
  <2>3. items[i] = ListItem(Row(p), determine_trend(avg_today(p), avg_prev_30d(p))) /\ items[i].id = p
    BY <1>5, <2>2
  <2> QED BY <1>1, <2>3 DEF Listed, Item
<1> HIDE DEF items
<1> QED BY <1>1, <1>2, <1>3, <1>5, <1>6, <1>7, PageAnswered

LEMMA CatalogCounted ==
  ASSUME ListInv, CountAll
  PROVE  ListInv'
<1> DEFINE items == [i \in DOMAIN rows |-> ListItem(rows[i], "same")]
<1>1. /\ PagingInv /\ FreshInv /\ HistoryOK
      /\ step = "count" /\ Reading /\ sort = "title"
      /\ rows \in [1 .. N -> RowType]
  BY DEF ListInv, CountAll, PagingInv, Reading
<1>2. /\ Respond(sort_items(items)) /\ rows' = <<>>
      /\ UNCHANGED <<history, now, sort, quiet, today>>
  BY DEF CountAll
<1>3. today' \in [Products -> [sum : Nat, n : 0 .. MaxRows]]
  BY <1>1, <1>2 DEF PagingInv
<1>4. ASSUME NEW i \in 1 .. N
      PROVE  /\ items[i] = ListItem(rows[i], "same") /\ items[i] \in ItemType
             /\ items[i].id = rows[i].id
  BY <1>1, ListItemIs DEF Trends
<1>5. items \in [1 .. N -> ItemType]
  BY <1>1, <1>4
<1>6. ASSUME quiet, NEW i \in 1 .. N
      PROVE  items[i] = Listed(items[i].id)
  <2>0. rows[i].id \in Products
    BY <1>1 DEF RowType
  <2>1. rows[i] = Row(rows[i].id)
    BY <1>1, <1>6, <2>0 DEF FreshInv
  <2> QED BY <1>1, <1>4, <2>1 DEF Listed
<1> HIDE DEF items
<1> QED BY <1>1, <1>2, <1>3, <1>4, <1>5, <1>6, PageAnswered

LEMMA SnapshotCommitted ==
  ASSUME ListInv, NEW l \in Listings, NEW x \in Prices, CommitSnapshot(l, x)
  PROVE  ListInv'
<1> DEFINE new == [listing |-> l, at |-> now, price |-> x]
<1>1. /\ HistoryOK /\ PagingInv
      /\ Cardinality(history) < MaxRows /\ MaxRows \in Nat
      /\ \A r \in history : r.listing # l \/ r.at < now
      /\ history' = history \cup {new} /\ quiet' = (quiet /\ NotBegun)
      /\ UNCHANGED <<now, sort, page, step, rows, today, shown>>
  BY DEF ListInv, CommitSnapshot
<1>2. HistoryOK'
  <2>1. new \in Snapshot /\ now \in Nat
    BY <1>1 DEF Snapshot, HistoryOK
  <2>2. IsFiniteSet(history') /\ Cardinality(history') <= MaxRows
    <3>1. IsFiniteSet(history) /\ Cardinality(history) \in Nat
      BY <1>1, FS_CardinalityType DEF HistoryOK
    <3>2. /\ IsFiniteSet(history \cup {new})
          /\ Cardinality(history \cup {new}) = IF new \in history THEN Cardinality(history)
                                                                  ELSE Cardinality(history) + 1
      <4> HIDE ListAssumption
      <4> HIDE DEF new
      <4> QED BY <3>1, FS_AddElement
    <3> HIDE DEF new
    <3> QED BY <1>1, <3>1, <3>2
  <2>3. \A r \in history' : r.at <= now
    BY <1>1, <2>1 DEF HistoryOK
  <2>4. \A r \in history : r.listing = l => r.at # now
    BY <1>1, HistoryFacts
  <2>5. \A r, s \in history' : r.listing = s.listing /\ r.at = s.at => r = s
    BY <1>1, <2>4 DEF HistoryOK
  <2> QED BY <1>1, <2>1, <2>2, <2>3, <2>5 DEF HistoryOK
<1>3. PagingInv'
  BY <1>1 DEF PagingInv, Reading, N
<1>4. quiet' => shown' = <<>> /\ ~ Reading' /\ step' # "prev"
  <2>1. NotBegun => Len(shown) = 0 /\ shown \in Seq(ItemType) /\ ~ Reading
    <3>1. (1 - 1) * page_size = 0
      OBVIOUS
    <3> QED BY <1>1, <3>1 DEF PagingInv, NotBegun, Reading
  <2> QED BY <1>1, <2>1, EmptySeq DEF NotBegun, Reading
<1>5. Len(<<>>) = 0
  OBVIOUS
<1>6. FreshInv' /\ WalkInv'
  BY <1>4, <1>5 DEF FreshInv, WalkInv
<1> QED BY <1>2, <1>3, <1>6 DEF ListInv

LEMMA TimePasses ==
  ASSUME ListInv, Tick
  PROVE  ListInv'
<1>1. /\ HistoryOK /\ PagingInv /\ FreshInv /\ WalkInv
      /\ now < MaxTime /\ now' = now + 1
      /\ quiet' = (quiet /\ (NotBegun \/ now' \div DayLength = now \div DayLength))
      /\ UNCHANGED <<history, sort, page, step, rows, today, shown>>
  BY DEF ListInv, Tick
<1>2. now \in Nat /\ MaxTime \in Nat
  BY <1>1 DEF HistoryOK
<1>3. HistoryOK'
  <2>1. \A r \in history : r.at <= now + 1
    BY <1>1, <1>2, HistoryFacts
  <2> QED BY <1>1, <1>2, <2>1 DEF HistoryOK
<1>4. PagingInv'
  BY <1>1 DEF PagingInv, Reading, N
<1>5. CASE NotBegun
  <2>1. shown' = <<>> /\ ~ Reading' /\ step' # "prev"
    <3>1. Len(shown) = 0 /\ shown \in Seq(ItemType) /\ ~ Reading
      <4>1. (1 - 1) * page_size = 0
        OBVIOUS
      <4> QED BY <1>1, <1>5, <4>1 DEF PagingInv, NotBegun, Reading
    <3> QED BY <1>1, <1>5, <3>1, EmptySeq DEF NotBegun, Reading
  <2>2. Len(<<>>) = 0
    OBVIOUS
  <2>3. FreshInv' /\ WalkInv'
    BY <2>1, <2>2 DEF FreshInv, WalkInv
  <2> QED BY <1>3, <1>4, <2>3 DEF ListInv
<1>6. CASE now' \div DayLength = now \div DayLength
  <2>1. history' = history /\ utc_today_start' = utc_today_start /\ sort' = sort
    BY <1>1, <1>6 DEF utc_today_start
  <2>2. Reading' = Reading /\ N' = N
    BY <1>1 DEF Reading, N
  <2>3. FreshInv'
    BY <1>1, <2>1, <2>2, SameAnswers DEF FreshInv
  <2>4. WalkInv'
    BY <1>1, <2>1, SameAnswers DEF WalkInv
  <2> QED BY <1>3, <1>4, <2>3, <2>4 DEF ListInv
<1>7. CASE ~ NotBegun /\ now' \div DayLength # now \div DayLength
  BY <1>1, <1>3, <1>4, <1>7 DEF ListInv, FreshInv, WalkInv
<1> QED BY <1>5, <1>6, <1>7

LEMMA ListInvInductive == ListInv /\ [Next]_vars => ListInv'
<1> SUFFICES ASSUME ListInv, [Next]_vars PROVE ListInv'
  OBVIOUS
<1>1. ASSUME NEW o \in Orders, ReadRows(o)
      PROVE  ListInv'
  BY <1>1, RowsRead DEF ReadRows
<1>2. ASSUME NEW o \in Orders, ReadCatalog(o)
      PROVE  ListInv'
  BY <1>2, RowsRead DEF ReadCatalog
<1>3. CASE UNCHANGED vars
  <2>1. history' = history /\ utc_today_start' = utc_today_start /\ sort' = sort
    BY <1>3 DEF vars, utc_today_start
  <2>2. /\ HistoryOK' /\ PagingInv'
        /\ quiet' = quiet /\ rows' = rows /\ shown' = shown /\ today' = today /\ step' = step
    BY <1>3 DEF ListInv, HistoryOK, PagingInv, Reading, N, vars
  <2>3. Reading' = Reading /\ N' = N
    BY <2>2 DEF Reading, N
  <2>4. FreshInv' /\ WalkInv'
    BY <2>1, <2>2, <2>3, SameAnswers DEF ListInv, FreshInv, WalkInv
  <2> QED BY <2>2, <2>4 DEF ListInv
<1> QED BY <1>1, <1>2, <1>3, TodayRead, PrevRead, CatalogCounted, SnapshotCommitted, TimePasses DEF Next

\* ListInv holds in every state.
THEOREM ListIsInvariant == Spec => []ListInv
BY InitListInv, ListInvInductive, PTL DEF Spec

LEMMA PagesAreFew ==
  ASSUME PagingInv
  PROVE  page \in {1} \cup 1 .. N
<1>1. page_size \in Nat \ {0} /\ page \in Nat \ {0} /\ N \in Nat
  BY NIsNat DEF PagingInv
<1>2. page - 1 <= (page - 1) * page_size
  BY <1>1
<1>3. page = 1 \/ page <= N
  BY <1>1, <1>2 DEF PagingInv
<1> QED BY <1>1, <1>3

\* The client's walk and what it was shown keep their types, for any number of
\* products and listings.
THEOREM TypeCorrect == Spec => []TypeOK
<1>1. ListInv => TypeOK
  <2> SUFFICES ASSUME ListInv PROVE TypeOK
    OBVIOUS
  <2>1. HistoryOK /\ PagingInv
    BY DEF ListInv
  <2>2. (\A r \in history : r \in [listing : Listings, at : 0 .. MaxTime, price : Prices]) /\ now \in 0 .. MaxTime
    BY <2>1 DEF HistoryOK, Snapshot
  <2>3. page \in {1} \cup 1 .. Cardinality(Products)
    BY <2>1, PagesAreFew DEF N
  <2>4. \A i \in DOMAIN rows : rows[i] \in RowType
    <3>1. CASE Reading
      BY <2>1, <3>1 DEF PagingInv
    <3>2. CASE ~ Reading
      <4>1. rows = <<>> /\ <<>> \in Seq(RowType) /\ Len(<<>>) = 0
        BY <2>1, <3>2, EmptySeq DEF PagingInv
      <4>2. DOMAIN rows = 1 .. 0
        BY <4>1, LenProperties
      <4> QED BY <4>2
    <3> QED BY <3>1, <3>2
  <2>5. \A i \in DOMAIN shown : shown[i] \in ItemType
    <3>1. DOMAIN shown = 1 .. Len(shown) /\ shown \in Seq(ItemType)
      BY <2>1, LenProperties DEF PagingInv
    <3> QED BY <3>1, ElementOfSeq
  <2>6. /\ sort \in Sorts /\ quiet \in BOOLEAN
        /\ step \in {"idle", "today", "prev", "count", "done"}
        /\ today \in [Products -> [sum : Nat, n : 0 .. MaxRows]]
    BY <2>1 DEF PagingInv
  <2> QED BY <2>2, <2>3, <2>4, <2>5, <2>6 DEF TypeOK, RowType, ItemType
<1> QED BY <1>1, ListIsInvariant, PTL

\* -------------------------------------------------------------------------
\* The range.

LEMMA TodayHasLast ==
  ASSUME HistoryOK, NEW r \in history, Day(r) = Today
  PROVE  \E s \in history : IsLast(s) /\ s.listing = r.listing /\ Day(s) = Today
<1>1. PICK s \in history : IsLast(s) /\ s.listing = r.listing /\ r.at <= s.at
  BY LastExists
<1>2. /\ s.at \in Nat /\ r.at \in Nat /\ now \in Nat
      /\ r.at <= now /\ s.at <= now
  BY HistoryFacts
<1>3. Day(r) <= Day(s) /\ Day(s) <= Today /\ Day(s) \in Nat /\ Today \in Nat
  BY <1>1, <1>2, DayOf, DayBounds DEF Day, Today
<1>4. Day(s) = Today
  BY <1>3
<1> QED BY <1>1, <1>4

\* The last prices of today, taken from today's snapshots alone.
LEMMA QuotesAreLast ==
  ASSUME HistoryOK, NEW p \in Products
  PROVE  LET S == Snapshots(p, {Today})
             LastOf(l) == CHOOSE r \in S : r.listing = l /\ \A s \in S : s.listing = l => s.at <= r.at
             last == {LastOf(l).price : l \in {r.listing : r \in S}}
         IN  last = Quotes(p) /\ (S = {} <=> Quotes(p) = {})
<1> DEFINE S == Snapshots(p, {Today})
           IsLastOf(r, l) == r.listing = l /\ \A s \in S : s.listing = l => s.at <= r.at
           LastOf(l) == CHOOSE r \in S : IsLastOf(r, l)
           last == {LastOf(l).price : l \in {r.listing : r \in S}}
<1>1. \A r : r \in S <=> r \in history /\ ProductOf[r.listing] = p /\ Day(r) = Today
  BY DEF Snapshots
<1>2. Quotes(p) = {r.price : r \in {r \in history : IsLast(r) /\ Day(r) = Today /\ ProductOf[r.listing] = p}}
  BY QuotesOfToday
<1> HIDE DEF S
<1>3. ASSUME NEW l, NEW r \in S, r.listing = l
      PROVE  LastOf(l) \in S /\ IsLast(LastOf(l)) /\ LastOf(l).listing = l
  <2>1. PICK s \in history : IsLast(s) /\ s.listing = r.listing /\ Day(s) = Today
    BY <1>1, TodayHasLast
  <2>2. s \in S /\ IsLastOf(s, l)
    BY <1>1, <1>3, <2>1 DEF IsLast
  <2>3. LastOf(l) \in S /\ IsLastOf(LastOf(l), l)
    BY <2>2
  <2> DEFINE u == LastOf(l)
  <2> HIDE DEF u
  <2>4. u \in S /\ u.listing = l /\ s.at <= u.at
    BY <2>2, <2>3 DEF u
  <2>5. u \in history /\ u.at <= s.at /\ u.at \in Nat /\ s.at \in Nat
    BY <1>1, <1>3, <2>1, <2>4, HistoryFacts DEF IsLast
  <2>6. u = s
    BY <1>3, <2>1, <2>4, <2>5 DEF HistoryOK
  <2> QED BY <2>1, <2>4, <2>6 DEF u
<1> HIDE DEF LastOf
<1>4. last \subseteq Quotes(p)
  BY <1>1, <1>2, <1>3
<1>5. Quotes(p) \subseteq last
  <2> SUFFICES ASSUME NEW r \in history, IsLast(r), Day(r) = Today, ProductOf[r.listing] = p
               PROVE  r.price \in last
    BY <1>2
  <2>1. r \in S
    BY <1>1
  <2>2. LastOf(r.listing) = r
    BY <1>3, <2>1, LastIsUnique
  <2> QED BY <2>1, <2>2
<1>6. last = Quotes(p)
  BY <1>4, <1>5
<1>7. S = {} <=> Quotes(p) = {}
  <2>1. S = {} => last = {}
    OBVIOUS
  <2>2. ASSUME NEW r \in S PROVE LastOf(r.listing).price \in last
    OBVIOUS
  <2> HIDE DEF last
  <2> QED BY <1>6, <2>1, <2>2
<1> QED BY <1>6, <1>7 DEF LastOf, S

LEMMA ShownIsListed ==
  ASSUME ListInv, quiet, NEW i \in DOMAIN shown
  PROVE  shown[i].id \in Products /\ shown[i] = Listed(shown[i].id)
<1>1. i \in 1 .. Len(shown) /\ shown \in Seq(ItemType)
  BY LenProperties DEF ListInv, PagingInv
<1>2. shown[i].id \in Products
  <2>1. shown[i] \in ItemType
    BY <1>1, ElementOfSeq
  <2> QED BY <2>1 DEF ItemType
<1> QED BY <1>1, <1>2 DEF ListInv, FreshInv

\* As long as nothing changes during the walk, a product is shown with the range of
\* its shops' last prices of the day, and without one exactly if no shop has a price
\* of today: Row with the row_number of latest_price.
THEOREM RangesAreOfToday == Spec => []RangeIsOfToday
<1>1. ListInv => RangeIsOfToday
  <2> SUFFICES ASSUME ListInv, quiet, NEW i \in DOMAIN shown
               PROVE  LET S == Snapshots(shown[i].id, {Today})
                          LastOf(l) == CHOOSE r \in S : r.listing = l /\ \A s \in S : s.listing = l => s.at <= r.at
                          last == {LastOf(l).price : l \in {r.listing : r \in S}}
                      IN /\ shown[i].price_min = NoPrice <=> S = {}
                         /\ S # {} => /\ {shown[i].price_min, shown[i].price_max} \subseteq last
                                      /\ last \subseteq shown[i].price_min .. shown[i].price_max
    BY DEF RangeIsOfToday
  <2> DEFINE p == shown[i].id
             S == Snapshots(p, {Today})
             LastOf(l) == CHOOSE r \in S : r.listing = l /\ \A s \in S : s.listing = l => s.at <= r.at
             last == {LastOf(l).price : l \in {r.listing : r \in S}}
  <2>1. HistoryOK /\ p \in Products /\ shown[i] = Listed(p)
    BY ShownIsListed DEF ListInv
  <2>2. last = Quotes(p) /\ (S = {} <=> Quotes(p) = {})
    BY <2>1, QuotesAreLast
  <2>3. shown[i].price_min = Row(p).price_min /\ shown[i].price_max = Row(p).price_max
    BY <2>1, ListedIs
  <2>4. Quotes(p) \subseteq Nat /\ NoPrice \notin Quotes(p)
    BY <2>1, HistoryFacts, QuotesOfToday
  <2> HIDE DEF S, last
  <2>5. shown[i].price_min = NoPrice <=> S = {}
    BY <2>1, <2>2, <2>3, <2>4, RowIsRange
  <2>6. ASSUME S # {}
        PROVE  /\ {shown[i].price_min, shown[i].price_max} \subseteq last
               /\ last \subseteq shown[i].price_min .. shown[i].price_max
    BY <2>1, <2>2, <2>3, <2>4, <2>6, RowIsRange
  <2> QED BY <2>5, <2>6 DEF S, last
<1> QED BY <1>1, ListIsInvariant, PTL

\* -------------------------------------------------------------------------
\* The walk.

\* When a client has walked through all pages, nothing changed meanwhile and no two
\* products tie, it has seen every product once, in the order it asked for, though
\* each page was read in an order of its own: sort_items and the slice of Respond.
THEOREM WalksAreComplete == Spec => []WalkIsComplete
<1>1. ListInv => WalkIsComplete
  <2> SUFFICES ASSUME ListInv, step = "done", quiet, NoTies
               PROVE  /\ {shown[i].id : i \in DOMAIN shown} = Products
                      /\ \A i, j \in DOMAIN shown : i < j =>
                           shown[i].id # shown[j].id /\ MayPrecede(shown[i], shown[j])
    BY DEF WalkIsComplete
  <2> DEFINE f == [k \in 1 .. N |-> shown[k].id]
  <2>1. /\ HistoryOK /\ sort \in Sorts
        /\ shown \in Seq(ItemType) /\ Len(shown) = N /\ DOMAIN shown = 1 .. N /\ N \in Nat
    <3>1. shown \in Seq(ItemType) /\ Len(shown) = N
      BY DEF ListInv, PagingInv
    <3> QED BY <3>1, LenProperties DEF ListInv, PagingInv
  <2>2. \A k \in 1 .. N : /\ shown[k].id \in Products
                          /\ shown[k] = Listed(shown[k].id) /\ shown[k] \in ItemType
    BY <2>1, ShownIsListed, ElementOfSeq
  <2>3. \A k \in 1 .. N : Place(shown[k].id) = k
    BY <2>1, <2>2 DEF ListInv, WalkInv
  <2>4. f \in [1 .. N -> Products] /\ \A k \in 1 .. N : f[k] = shown[k].id
    BY <2>2
  <2> HIDE DEF f
  <2>5. \A i, j \in 1 .. N : f[i] = f[j] => i = j
    BY <2>3, <2>4
  <2>6. \A p \in Products : \E k \in 1 .. N : shown[k].id = p
    <3> HIDE ListAssumption
    <3>1. \A p \in Products : \E k \in 1 .. N : f[k] = p
      BY <2>4, <2>5, RowsCover
    <3> QED BY <2>4, <3>1
  <2>7. ASSUME NEW i \in 1 .. N, NEW j \in 1 .. N, i < j
        PROVE  Key(shown[i]) <= Key(shown[j])
    <3> DEFINE Below(k) == {q \in Products : Key(Listed(q)) < Key(Listed(shown[k].id))}
    <3>1. \A k \in 1 .. N : Key(shown[k]) \in Int
      BY <2>1, <2>2, KeyIsOrder
    <3>2. \A q \in Products : Key(Listed(q)) \in Int
      BY <2>1, ListedIs, KeyIsOrder
    <3>3. CASE Key(shown[j]) < Key(shown[i])
      <4>1. Below(j) \subseteq Below(i)
        BY <2>2, <3>1, <3>2, <3>3
      <4>2. IsFiniteSet(Products)
        OBVIOUS
      <4>3. IsFiniteSet(Below(i)) /\ IsFiniteSet(Below(j))
        BY <4>2, FS_Subset
      <4>4. Cardinality(Below(i)) + 1 = i /\ Cardinality(Below(j)) + 1 = j
        BY <2>3 DEF Place
      <4> HIDE DEF Below
      <4>5. Cardinality(Below(j)) <= Cardinality(Below(i))
        BY <4>1, <4>3, FS_Subset
      <4>6. Cardinality(Below(j)) \in Nat /\ Cardinality(Below(i)) \in Nat
        BY <4>3, FS_CardinalityType
      <4> QED BY <2>7, <4>4, <4>5, <4>6
    <3> QED BY <3>1, <3>3
  <2>8. ASSUME NEW i \in 1 .. N, NEW j \in 1 .. N, i < j
        PROVE  shown[i].id # shown[j].id /\ MayPrecede(shown[i], shown[j])
    BY <2>1, <2>2, <2>4, <2>5, <2>7, <2>8, KeyIsOrder
  <2>9. {shown[i].id : i \in 1 .. N} = Products
    BY <2>2, <2>6
  <2> QED BY <2>1, <2>8, <2>9
<1> QED BY <1>1, ListIsInvariant, PTL
\* -------------------------------------------------------------------------
\* The trend.

LEMMA LessOrEqualTimes ==
  ASSUME NEW a \in Nat, NEW b \in Nat, NEW c \in Nat, a <= b
  PROVE  a * c <= b * c /\ c * a <= c * b
BY SMT

LEMMA LessTimes ==
  ASSUME NEW a \in Nat, NEW b \in Nat, NEW c \in Nat \ {0}, a < b
  PROVE  a * c < b * c
BY SMT

\* Sums of n and m numbers, compared as averages: s / n with u / m, where the
\* numbers of the first are at least x and those of the second at most y, or the
\* other way round.
LEMMA AveragesCompare ==
  ASSUME NEW n \in Nat \ {0}, NEW m \in Nat \ {0}, NEW s \in Nat, NEW u \in Nat,
         NEW x \in Nat, NEW y \in Nat, NEW A \in Nat, NEW B \in Nat
  PROVE  /\ x * n <= s /\ u <= y * m /\ B * y < A * x => (B * u) * n < (A * s) * m
         /\ s <= x * n /\ y * m <= u /\ A * x <= B * y => (A * s) * m <= (B * u) * n
<1> HIDE ListAssumption
<1> DEFINE xn == x * n
           ym == y * m
           nm == n * m
           Ax == A * x
           By == B * y
<1>1. xn \in Nat /\ ym \in Nat /\ nm \in Nat \ {0} /\ Ax \in Nat /\ By \in Nat
  <2>1. nm # 0
    BY SMT
  <2> QED BY <2>1
<1>2. (A * xn) * m = Ax * nm /\ (B * ym) * n = By * nm
  BY SMT
<1>3. /\ A * s \in Nat /\ B * u \in Nat /\ A * xn \in Nat /\ B * ym \in Nat
      /\ (A * s) * m \in Nat /\ (B * u) * n \in Nat
      /\ (A * xn) * m \in Nat /\ (B * ym) * n \in Nat
  <2> HIDE DEF xn, ym
  <2> QED BY <1>1
<1>4. ASSUME xn <= s, u <= ym, By < Ax
      PROVE  (B * u) * n < (A * s) * m
  <2> HIDE DEF xn, ym, nm, Ax, By
  <2>1. B * u <= B * ym /\ A * xn <= A * s
    BY <1>1, <1>4, LessOrEqualTimes
  <2>2. (B * u) * n <= (B * ym) * n /\ (A * xn) * m <= (A * s) * m
    BY <1>3, <2>1, LessOrEqualTimes
  <2>3. By * nm < Ax * nm
    BY <1>1, <1>4, LessTimes
  <2> QED BY <1>2, <1>3, <2>2, <2>3
<1>5. ASSUME s <= xn, ym <= u, Ax <= By
      PROVE  (A * s) * m <= (B * u) * n
  <2> HIDE DEF xn, ym, nm, Ax, By
  <2>1. A * s <= A * xn /\ B * ym <= B * u
    BY <1>1, <1>5, LessOrEqualTimes
  <2>2. (A * s) * m <= (A * xn) * m /\ (B * ym) * n <= (B * u) * n
    BY <1>3, <2>1, LessOrEqualTimes
  <2>3. Ax * nm <= By * nm
    BY <1>1, <1>5, LessOrEqualTimes
  <2> QED BY <1>2, <1>3, <2>2, <2>3
<1> QED BY <1>4, <1>5

\* The two averages of a trend are over the snapshots of today and of the days before.
LEMMA AveragesOfDays ==
  ASSUME HistoryOK, NEW p \in Products
  PROVE  /\ Averaged(p, utc_today_start, MaxTime + 1) = Snapshots(p, {Today})
         /\ Averaged(p, utc_today_start - TrendDays * DayLength, utc_today_start) = Snapshots(p, Before)
<1> DEFINE cutoff == utc_today_start - TrendDays * DayLength
<1>1. Today \in Nat /\ Today - TrendDays \in Int /\ utc_today_start = DayLength * Today
  BY HistoryFacts, DayBounds DEF Today, utc_today_start
<1>2. cutoff = DayLength * (Today - TrendDays)
  BY <1>1
<1> HIDE DEF cutoff
<1>3. ASSUME NEW r \in history
      PROVE  /\ utc_today_start <= r.at /\ r.at < MaxTime + 1 <=> Day(r) = Today
             /\ cutoff <= r.at /\ r.at < utc_today_start <=> Day(r) \in Before
  <2>1. /\ r.at \in Nat /\ r.at <= now /\ r.at < MaxTime + 1 /\ now \in Nat
        /\ Day(r) \in Nat /\ Day(r) = r.at \div DayLength
    BY HistoryFacts, DayBounds DEF Day
  <2>2. utc_today_start <= r.at <=> Day(r) = Today
    BY <2>1, DayOf DEF Day, Today, utc_today_start
  <2>3. utc_today_start <= r.at <=> Today <= Day(r)
    BY <1>1, <2>1, SinceDay
  <2>4. cutoff <= r.at <=> Today - TrendDays <= Day(r)
    BY <1>1, <1>2, <2>1, SinceDay
  <2>5. utc_today_start \in Nat
    BY <1>1
  <2>6. r.at < utc_today_start <=> Day(r) <= Today - 1
    BY <1>1, <2>1, <2>3, <2>5
  <2> QED BY <1>1, <2>1, <2>2, <2>4, <2>6 DEF Before
<1> QED BY <1>3 DEF Averaged, Snapshots, cutoff

LEMMA SumOfNone == SumOf({}) = 0
<1>1. IsFiniteSet({}) /\ Cardinality({}) = 0
  BY FS_EmptySet
<1> HIDE ListAssumption
<1>2. SumOf({}) \in Nat /\ 0 * Cardinality({}) <= SumOf({}) /\ SumOf({}) <= 0 * Cardinality({})
  BY <1>1, SumOfPrices
<1> QED BY <1>1, <1>2

LEMMA SumOfSome ==
  ASSUME HistoryOK, NEW S, S \subseteq history, S # {}
  PROVE  /\ IsFiniteSet(S) /\ Cardinality(S) \in Nat \ {0} /\ SumOf(S) \in Nat
         /\ \E a, b \in S : /\ \A r \in S : a.price <= r.price /\ r.price <= b.price
                           /\ a.price * Cardinality(S) <= SumOf(S)
                           /\ SumOf(S) <= b.price * Cardinality(S)
<1> DEFINE w == [r \in S |-> r.price]
<1>1. \A r \in S : r.price \in Nat /\ w[r] = r.price /\ w[r] \in Int
  BY HistoryFacts
<1>2. IsFiniteSet(S)
  BY FS_Subset DEF HistoryOK
<1>3. Cardinality(S) \in Nat \ {0}
  <2> HIDE ListAssumption
  <2> QED BY <1>2, FS_CardinalityType, FS_EmptySet
<1> HIDE DEF w
<1> HIDE ListAssumption
<1>4. PICK a \in S : \A r \in S : w[a] <= w[r]
  BY <1>1, <1>2, LeastMember
<1>5. PICK b \in S : \A r \in S : w[r] <= w[b]
  BY <1>1, <1>2, GreatestMember
<1>6. \A r \in S : r.price \in Nat /\ a.price <= r.price /\ r.price <= b.price
  BY <1>1, <1>4, <1>5
<1>7. /\ SumOf(S) \in Nat
      /\ a.price * Cardinality(S) <= SumOf(S) /\ SumOf(S) <= b.price * Cardinality(S)
  BY <1>1, <1>2, <1>6, SumOfPrices
<1> QED BY <1>2, <1>3, <1>6, <1>7

\* What a trend says of the prices of today and of the days before.
Fits(trend, T, H) ==
  /\ /\ T # {} /\ H # {}
     /\ \A t \in T, h \in H : h.price > 0 /\ 100 * t.price > 101 * h.price
     => trend = "up"
  /\ /\ T # {} /\ H # {}
     /\ \A t \in T, h \in H : t.price > 0 /\ 100 * t.price < 99 * h.price
     => trend = "down"
  /\ trend = "up" => \E t \in T, h \in H : t.price > h.price
  /\ trend = "down" => \E t \in T, h \in H : t.price < h.price

LEMMA TrendOfPrices ==
  ASSUME HistoryOK, NEW p \in Products
  PROVE  Fits(determine_trend(avg_today(p), avg_prev_30d(p)),
              Snapshots(p, {Today}), Snapshots(p, Before))
<1> SUFFICES ASSUME NEW T, T = Snapshots(p, {Today}), NEW H, H = Snapshots(p, Before),
                    NEW trend, trend = determine_trend(avg_today(p), avg_prev_30d(p))
             PROVE  Fits(trend, T, H)
  OBVIOUS
<1> DEFINE ts == SumOf(T)
           tn == Cardinality(T)
           hs == SumOf(H)
           hn == Cardinality(H)
<1>1. T \subseteq history /\ H \subseteq history
  BY DEF Snapshots
<1>2. /\ avg_today(p).sum = ts /\ avg_today(p).n = tn
      /\ avg_prev_30d(p).sum = hs /\ avg_prev_30d(p).n = hn
  <2>1. /\ avg_today(p) = [sum |-> SumOf(T), n |-> Cardinality(T)]
        /\ avg_prev_30d(p) = [sum |-> SumOf(H), n |-> Cardinality(H)]
    <3>1. /\ Average(p, utc_today_start, MaxTime + 1) = [sum |-> SumOf(T), n |-> Cardinality(T)]
          /\ Average(p, utc_today_start - TrendDays * DayLength, utc_today_start)
               = [sum |-> SumOf(H), n |-> Cardinality(H)]
      <4> DEFINE from == utc_today_start
                 cutoff == from - TrendDays * DayLength
                 upto == MaxTime + 1
      <4>1. T = Averaged(p, from, upto) /\ H = Averaged(p, cutoff, from)
        BY AveragesOfDays
      <4> HIDE DEF from, cutoff, upto
      <4>2. /\ Average(p, from, upto) = [sum |-> SumOf(T), n |-> Cardinality(T)]
            /\ Average(p, cutoff, from) = [sum |-> SumOf(H), n |-> Cardinality(H)]
        <5> HIDE ListAssumption
        <5> QED BY <4>1, AverageOf
      <4> QED BY <4>2 DEF from, cutoff, upto
    <3> QED BY <3>1 DEF avg_today, avg_prev_30d
  <2> QED BY <2>1
<1>3. trend = CASE ts # 0 /\ hs # 0 /\ (100 * ts) * hn > (101 * hs) * tn -> "up"
                [] ts # 0 /\ hs # 0 /\ (100 * ts) * hn < (99 * hs) * tn -> "down"
                [] OTHER -> "same"
  BY <1>2 DEF determine_trend
<1> HIDE DEF ts, tn, hs, hn
<1>4. CASE T = {} \/ H = {}
  <2>1. ts = 0 \/ hs = 0
    BY <1>4, SumOfNone DEF ts, hs
  <2> QED BY <1>3, <1>4, <2>1 DEF Fits
<1>5. CASE T # {} /\ H # {}
  <2>1. /\ tn \in Nat \ {0} /\ ts \in Nat
        /\ \E a, b \in T : /\ \A r \in T : a.price <= r.price /\ r.price <= b.price
                          /\ a.price * tn <= ts /\ ts <= b.price * tn
    BY <1>1, <1>5, SumOfSome DEF ts, tn
  <2>2. /\ hn \in Nat \ {0} /\ hs \in Nat
        /\ \E a, b \in H : /\ \A r \in H : a.price <= r.price /\ r.price <= b.price
                          /\ a.price * hn <= hs /\ hs <= b.price * hn
    BY <1>1, <1>5, SumOfSome DEF hs, hn
  <2>3. PICK t0 \in T, t1 \in T : t0.price * tn <= ts /\ ts <= t1.price * tn
    BY <2>1
  <2>4. PICK h0 \in H, h1 \in H : h0.price * hn <= hs /\ hs <= h1.price * hn
    BY <2>2
  <2>5. t0.price \in Nat /\ t1.price \in Nat /\ h0.price \in Nat /\ h1.price \in Nat
    BY <1>1, HistoryFacts
  <2> DEFINE X == (100 * ts) * hn
             U == (101 * hs) * tn
             D == (99 * hs) * tn
  <2>6. X \in Nat /\ U \in Nat /\ D \in Nat /\ D <= U
    <3>1. 100 * ts \in Nat /\ 101 * hs \in Nat /\ 99 * hs \in Nat /\ 99 * hs <= 101 * hs
      BY <2>1, <2>2
    <3> HIDE ListAssumption
    <3> QED BY <2>1, <2>2, <3>1, LessOrEqualTimes
  <2>7. /\ 101 * h1.price < 100 * t0.price => U < X
        /\ 100 * t1.price <= 101 * h0.price => X <= U
        /\ 100 * t1.price < 99 * h0.price => X < D
        /\ 99 * h1.price <= 100 * t0.price => D <= X
    <3> HIDE ListAssumption
    <3> QED BY <2>1, <2>2, <2>3, <2>4, <2>5, AveragesCompare
  <2> HIDE DEF X, U, D
  <2>8. /\ t0.price > 0 => ts # 0
        /\ h0.price > 0 => hs # 0
    BY <2>1, <2>2, <2>3, <2>4, <2>5
  <2>9. trend = CASE ts # 0 /\ hs # 0 /\ X > U -> "up"
                  [] ts # 0 /\ hs # 0 /\ X < D -> "down"
                  [] OTHER -> "same"
    BY <1>3 DEF X, U, D
  <2>10. ASSUME \A t \in T, h \in H : h.price > 0 /\ 100 * t.price > 101 * h.price
         PROVE  trend = "up"
    <3>1. h0.price > 0 /\ 100 * t0.price > 101 * h0.price /\ 100 * t0.price > 101 * h1.price
      BY <2>10
    <3>2. t0.price > 0 /\ 101 * h1.price < 100 * t0.price
      BY <2>5, <3>1
    <3> QED BY <2>6, <2>7, <2>8, <2>9, <3>1, <3>2
  <2>11. ASSUME \A t \in T, h \in H : t.price > 0 /\ 100 * t.price < 99 * h.price
         PROVE  trend = "down"
    <3>1. t0.price > 0 /\ 100 * t0.price < 99 * h0.price /\ 100 * t1.price < 99 * h0.price
      BY <2>11
    <3>2. h0.price > 0
      BY <2>5, <3>1
    <3> QED BY <2>6, <2>7, <2>8, <2>9, <3>1, <3>2
  <2>12. ASSUME trend = "up"
         PROVE  \E t \in T, h \in H : t.price > h.price
    <3>1. X > U
      BY <2>9, <2>12
    <3>2. ~ (100 * t1.price <= 101 * h0.price)
      BY <2>6, <2>7, <3>1
    <3>3. t1.price > h0.price
      BY <2>5, <3>2
    <3> QED BY <3>3
  <2>13. ASSUME trend = "down"
         PROVE  \E t \in T, h \in H : t.price < h.price
    <3>1. X < D
      BY <2>9, <2>13
    <3>2. ~ (99 * h1.price <= 100 * t0.price)
      BY <2>6, <2>7, <3>1
    <3>3. t0.price < h1.price
      BY <2>5, <3>2
    <3> QED BY <3>3
  <2> QED BY <2>10, <2>11, <2>12, <2>13 DEF Fits
<1> QED BY <1>4, <1>5

\* As long as nothing changes during the walk, a trend is up if all of today's
\* prices of a product are over a hundredth above all those of the days before, and
\* only if some is above some; likewise down: the averages of today and of the
\* period before it, and determine_trend.
THEOREM TrendsAreJust == Spec => []TrendIsJust
<1>1. ListInv => TrendIsJust
  <2> SUFFICES ASSUME ListInv, quiet, sort # "title" PROVE TrendIsJust
    BY DEF TrendIsJust
  <2>1. HistoryOK
    BY DEF ListInv
  <2>2. ASSUME NEW i \in DOMAIN shown, NEW p, p = shown[i].id
        PROVE  Fits(shown[i].trend, Snapshots(p, {Today}), Snapshots(p, Before))
    <3>1. p \in Products /\ shown[i] = Item(p)
      BY <2>2, ShownIsListed DEF Listed
    <3>2. Row(p) \in RowType /\ determine_trend(avg_today(p), avg_prev_30d(p)) \in Trends
      BY <2>1, <3>1, RowIsRange DEF determine_trend, Trends
    <3>3. shown[i].trend = determine_trend(avg_today(p), avg_prev_30d(p))
      BY <3>1, <3>2, ListItemIs DEF Item
    <3> QED BY <2>1, <3>1, <3>3, TrendOfPrices
  <2>3. \A i \in DOMAIN shown :
          Fits(shown[i].trend, Snapshots(shown[i].id, {Today}), Snapshots(shown[i].id, Before))
    BY <2>2
  <2> QED BY <2>3 DEF TrendIsJust, Fits
<1> QED BY <1>1, ListIsInvariant, PTL

\* -------------------------------------------------------------------------
\* The page of one product.

\* The snapshots of a range of days, by their times and by their days.
LEMMA FoundByDay ==
  ASSUME HistoryOK, NEW p, NEW d1 \in Int, NEW d2 \in Int
  PROVE  {r \in history : /\ ProductOf[r.listing] = p
                          /\ d1 * DayLength <= r.at /\ r.at <= d2 * DayLength + DayLength - 1}
           = Snapshots(p, d1 .. d2)
<1>1. ASSUME NEW r \in history
      PROVE  d1 * DayLength <= r.at /\ r.at <= d2 * DayLength + DayLength - 1 <=> Day(r) \in d1 .. d2
  <2>1. r.at \in Nat /\ Day(r) \in Nat /\ Day(r) = r.at \div DayLength
    BY HistoryFacts, DayBounds DEF Day
  <2>2. d2 + 1 \in Int /\ DayLength * (d2 + 1) = d2 * DayLength + DayLength /\ d1 * DayLength = DayLength * d1
        /\ DayLength * (d2 + 1) \in Int /\ DayLength * d1 \in Int
    OBVIOUS
  <2>3. /\ DayLength * d1 <= r.at <=> d1 <= Day(r)
        /\ DayLength * (d2 + 1) <= r.at <=> d2 + 1 <= Day(r)
    BY <2>1, <2>2, SinceDay
  <2>4. r.at <= d2 * DayLength + DayLength - 1 <=> ~ (DayLength * (d2 + 1) <= r.at)
    <3> DEFINE e == DayLength * (d2 + 1)
    <3>1. e \in Int /\ d2 * DayLength + DayLength = e
      BY <2>2
    <3> HIDE DEF e
    <3>2. r.at <= e - 1 <=> ~ (e <= r.at)
      BY <2>1, <3>1
    <3> QED BY <3>1, <3>2 DEF e
  <2> QED BY <2>1, <2>2, <2>3, <2>4
<1> QED BY <1>1 DEF Snapshots

\* One point of the history: a shop, a day, and what was found of them.
GroupOf(found, r) ==
  {s \in found : s.listing = r.listing /\ s.at \div DayLength = r.at \div DayLength}
PointOf(found, r) ==
  [shop |-> r.listing, date |-> Day(r), sum |-> SumOf(GroupOf(found, r)), n |-> Cardinality(GroupOf(found, r))]
PointsOf(found) == {PointOf(found, r) : r \in found}

LEMMA HistoryIs ==
  ASSUME HistoryOK, NEW p, NEW d1 \in Int, NEW d2 \in Int
  PROVE  get_history(p, d1 * DayLength, d2 * DayLength + DayLength - 1) = PointsOf(Snapshots(p, d1 .. d2))
<1> DEFINE from == d1 * DayLength
           upto == d2 * DayLength + DayLength - 1
           found == Snapshots(p, d1 .. d2)
<1>1. {r \in history : ProductOf[r.listing] = p /\ from <= r.at /\ r.at <= upto} = found
  BY FoundByDay
<1> HIDE DEF from, upto, found
<1>2. get_history(p, from, upto) = PointsOf(found)
  BY <1>1 DEF get_history, PointsOf, PointOf, GroupOf, Day
<1> QED BY <1>2 DEF from, upto, found

\* What PagesAgree says of one product and its card.
AgreesOn(p, card) ==
  LET prices == get_current_prices(p)
      Shown(x) == card.price_min # NoPrice /\ card.price_min <= x
  IN /\ {r.listing : r \in prices} = {q.shop : q \in get_price_history(p, Today, Today).series}
     /\ card.price_min = NoPrice <=> prices = {}
     /\ \A r \in prices : r.price \in card.price_min .. card.price_max
     /\ \A x \in Prices : Shown(x) => list_triggered(p, x)
     /\ Cardinality(prices) = card.shops_count =>
          \A x \in Prices : list_triggered(p, x) => Shown(x)

LEMMA PagesOfHistory ==
  ASSUME HistoryOK, NEW p \in Products, NEW card, card = get_detail(p)
  PROVE  card.id = p /\ AgreesOn(p, card)
<1> DEFINE prices == get_current_prices(p)
           shops == {l \in Listings : ProductOf[l] = p}
           Shown(x) == card.price_min # NoPrice /\ card.price_min <= x
           found == Snapshots(p, {Today})
<1>1. /\ card.id = p /\ card.price_min = Row(p).price_min /\ card.price_max = Row(p).price_max
      /\ card.shops_count = Cardinality(shops)
  BY DEF get_detail
<1>2. prices = Quoting(p) /\ Quotes(p) = {r.price : r \in prices}
  BY DEF get_current_prices, Quoting, Quotes
<1>3. \A r : r \in prices <=> r \in history /\ IsLast(r) /\ Day(r) = Today /\ ProductOf[r.listing] = p
  BY <1>2, LatestToday DEF Quoting, IsLast
<1>4. \A r : r \in found <=> r \in history /\ ProductOf[r.listing] = p /\ Day(r) = Today
  BY DEF Snapshots
<1>5. \A r \in prices : r.price \in Nat /\ r.price \in Quotes(p)
  BY <1>2, <1>3, HistoryFacts
<1>6. Quotes(p) \subseteq Nat /\ NoPrice \notin Nat /\ (Quotes(p) = {} <=> prices = {})
  BY <1>2, <1>5
<1>7. \A x : list_triggered(p, x) <=> \E r : IsLast(r) /\ ProductOf[r.listing] = p /\ r.price <= x
  BY LatestEver DEF list_triggered
<1> HIDE DEF prices, found, shops
<1>8. {r.listing : r \in prices} = {q.shop : q \in get_price_history(p, Today, Today).series}
  <2>1. get_price_history(p, Today, Today).series
          = get_history(p, Today * DayLength, Today * DayLength + DayLength - 1)
    BY DEF get_price_history
  <2> DEFINE T == Today
             series == get_price_history(p, T, T).series
             Point(r) == PointOf(found, r)
  <2>2. T \in Int
    BY HistoryFacts, DayBounds DEF Today
  <2> HIDE DEF T
  <2>3. found = Snapshots(p, T .. T)
    BY <2>2 DEF found, T
  <2>4. series = {Point(r) : r \in found}
    <3> HIDE ListAssumption
    <3> HIDE DEF series
    <3>1. get_history(p, T * DayLength, T * DayLength + DayLength - 1)
            = PointsOf(Snapshots(p, T .. T))
      BY <2>2, HistoryIs
    <3>2. series = get_history(p, T * DayLength, T * DayLength + DayLength - 1)
      BY <2>1 DEF series, T
    <3> QED BY <2>3, <3>1, <3>2 DEF PointsOf
  <2>5. \A r : Point(r).shop = r.listing
    BY DEF PointOf
  <2> HIDE DEF series, Point
  <2>7. {q.shop : q \in series} = {r.listing : r \in found}
    BY <2>4, <2>5
  <2>6. {r.listing : r \in prices} = {r.listing : r \in found}
    <3>1. ASSUME NEW r \in found
          PROVE  \E s \in prices : s.listing = r.listing
      BY <1>3, <1>4, TodayHasLast
    <3>2. prices \subseteq found
      BY <1>3, <1>4
    <3> QED BY <3>1, <3>2
  <2> QED BY <2>6, <2>7 DEF series, T
<1>9. card.price_min = NoPrice <=> prices = {}
  BY <1>1, <1>6, RowIsRange
<1>10. \A r \in prices : r.price \in card.price_min .. card.price_max
  BY <1>1, <1>5, <1>6, RowIsRange
<1>11. ASSUME NEW x \in Prices, Shown(x)
       PROVE  list_triggered(p, x)
  <2>1. card.price_min \in Quotes(p)
    BY <1>1, <1>11, RowIsRange
  <2>2. PICK r \in prices : r.price = card.price_min
    BY <1>2, <2>1
  <2> QED BY <1>3, <1>7, <1>11, <2>2
<1>12. ASSUME Cardinality(prices) = card.shops_count, NEW x \in Prices, list_triggered(p, x)
       PROVE  Shown(x)
  <2>1. PICK r : IsLast(r) /\ ProductOf[r.listing] = p /\ r.price <= x
    BY <1>7, <1>12
  <2> DEFINE f == [s \in prices |-> s.listing]
  <2>2. f \in [prices -> shops] /\ \A s \in prices : f[s] = s.listing
    BY <1>3, HistoryFacts DEF shops
  <2>3. \A s, u \in prices : f[s] = f[u] => s = u
    BY <1>3, <2>2, LastIsUnique
  <2>4. IsFiniteSet(shops) /\ IsFiniteSet(prices)
    <3>1. IsFiniteSet(Listings) /\ shops \subseteq Listings
      BY DEF shops
    <3>2. IsFiniteSet(history) /\ prices \subseteq history
      BY <1>3 DEF HistoryOK
    <3> HIDE ListAssumption
    <3> QED BY <3>1, <3>2, FS_Subset
  <2> HIDE DEF f
  <2>5. f \in Surjection(prices, shops)
    <3> HIDE ListAssumption
    <3>1. f \in Injection(prices, shops)
      BY <2>2, <2>3 DEF Injection, IsInjective
    <3>2. Cardinality(prices) = Cardinality(shops)
      BY <1>1, <1>12
    <3> QED BY <2>4, <3>1, <3>2, FS_Injection
  <2>6. r.listing \in shops
    BY <2>1, HistoryFacts DEF IsLast, shops
  <2>7. PICK s \in prices : s.listing = r.listing
    BY <2>2, <2>5, <2>6 DEF Surjection
  <2>8. r \in prices
    BY <1>3, <2>1, <2>7, LastIsUnique
  <2>9. /\ Row(p).price_min \in Quotes(p) /\ Row(p).price_min <= r.price
        /\ r.price \in Nat /\ x \in Nat
    BY <1>5, <2>8, RowIsRange
  <2> QED BY <1>1, <1>6, <2>1, <2>9
<1> QED BY <1>1, <1>8, <1>9, <1>10, <1>11, <1>12 DEF prices, AgreesOn

\* A product's card, its shops' prices of today, its history of today and its alerts
\* agree: get_detail, get_current_prices, get_price_history and list_triggered.
THEOREM PagesAgreed == Spec => []PagesAgree
<1>1. ListInv => PagesAgree
  <2> SUFFICES ASSUME ListInv PROVE PagesAgree
    OBVIOUS
  <2>1. \A p \in Products : get_detail(p).id = p /\ AgreesOn(p, get_detail(p))
    BY PagesOfHistory DEF ListInv
  <2>2. \A card \in list_watchlist_details : AgreesOn(card.id, card)
    BY <2>1 DEF list_watchlist_details
  <2> QED BY <2>2 DEF PagesAgree, AgreesOn
<1> QED BY <1>1, ListIsInvariant, PTL

\* -------------------------------------------------------------------------
\* The average of a day.

ProductFold(g, S) ==
  g = [s \in SUBSET S |-> IF s = {} THEN 1
                          ELSE LET x == CHOOSE x \in s : TRUE IN x.n * g[s \ {x}]]

WeightFold(g, S, common) ==
  g = [s \in SUBSET S |-> IF s = {} THEN 0
                          ELSE LET x == CHOOSE x \in s : TRUE
                               IN  x.sum * (common \div x.n) + g[s \ {x}]]

\* The product of the counts is a common denominator.
LEMMA CommonDenominator ==
  ASSUME NEW S, IsFiniteSet(S), \A q \in S : q.n \in Nat \ {0},
         NEW g, g = CHOOSE h : ProductFold(h, S)
  PROVE  /\ g[S] \in Nat \ {0}
         /\ \A q \in S : IsMultiple(g[S], q.n)
<1> HIDE ListAssumption
<1> DEFINE w == [r \in S |-> r.n]
           Chosen(s) == CHOOSE x \in s : TRUE
           c == [s \in SUBSET S |-> Chosen(s)]
<1>1. Chooses(c, S)
  BY DEF Chooses
<1>2. \A x \in S : w[x] = x.n /\ w[x] \in Nat \ {0}
  OBVIOUS
<1>3. \A s \in SUBSET S : c[s] = Chosen(s)
  OBVIOUS
<1> HIDE DEF w, c, Chosen
<1>4. ASSUME NEW h
      PROVE  ProductFold(h, S) <=> IsProduct(h, S, w, c)
  <2> DEFINE G(s) == IF s = {} THEN 1
                     ELSE Chosen(s).n * h[s \ {Chosen(s)}]
             H(s) == IF s = {} THEN 1 ELSE w[c[s]] * h[s \ {c[s]}]
  <2>1. \A s \in SUBSET S : s # {} => c[s] \in S
    BY <1>1 DEF Chooses
  <2>2. \A s \in SUBSET S : G(s) = H(s)
    BY <1>2, <1>3, <2>1
  <2>3. ProductFold(h, S) <=> h = [s \in SUBSET S |-> G(s)]
    BY DEF ProductFold, Chosen
  <2>4. IsProduct(h, S, w, c) <=> h = [s \in SUBSET S |-> H(s)]
    BY DEF IsProduct
  <2> HIDE DEF G, H
  <2>5. [s \in SUBSET S |-> G(s)] = [s \in SUBSET S |-> H(s)]
    BY <2>2
  <2> QED BY <2>3, <2>4, <2>5
<1>5. \E h : ProductFold(h, S)
  BY <1>1, <1>2, <1>4, ProductExists
<1>6. IsProduct(g, S, w, c)
  BY <1>4, <1>5
<1>7. /\ g[S] \in Nat \ {0}
      /\ \A q \in S : IsMultiple(g[S], w[q])
  <2>1. \A x \in S : w[x] \in Nat \ {0}
    BY <1>2
  <2> QED BY <1>1, <1>6, <2>1, ProductIsMultiple
<1> QED BY <1>2, <1>7

\* The weighted sum lies between the least and the greatest weight, times their count.
LEMMA WeightedSum ==
  ASSUME NEW S, IsFiniteSet(S), S # {}, NEW common,
         NEW w, \A q \in S : w[q] = q.sum * (common \div q.n) /\ w[q] \in Nat,
         NEW g, g = CHOOSE h : WeightFold(h, S, common)
  PROVE  /\ g[S] \in Nat
         /\ \E q \in S : w[q] * Cardinality(S) <= g[S]
         /\ \E q \in S : g[S] <= w[q] * Cardinality(S)
<1> HIDE ListAssumption
<1> DEFINE Chosen(s) == CHOOSE x \in s : TRUE
           c == [s \in SUBSET S |-> Chosen(s)]
           W(q) == q.sum * (common \div q.n)
<1>1. Chooses(c, S)
  BY DEF Chooses
<1>2. \A s \in SUBSET S : c[s] = Chosen(s)
  OBVIOUS
<1>3. \A q \in S : w[q] = W(q)
  OBVIOUS
<1> HIDE DEF c, Chosen
<1>4. ASSUME NEW h
      PROVE  WeightFold(h, S, common) <=> IsSum(h, S, w, c)
  <2> DEFINE G(s) == IF s = {} THEN 0
                     ELSE W(Chosen(s)) + h[s \ {Chosen(s)}]
             H(s) == IF s = {} THEN 0 ELSE w[c[s]] + h[s \ {c[s]}]
  <2>1. \A s \in SUBSET S : s # {} => c[s] \in S
    BY <1>1 DEF Chooses
  <2>2. WeightFold(h, S, common) <=> h = [s \in SUBSET S |-> G(s)]
    BY DEF WeightFold, Chosen
  <2>3. IsSum(h, S, w, c) <=> h = [s \in SUBSET S |-> H(s)]
    BY DEF IsSum
  <2> HIDE DEF W
  <2>4. \A s \in SUBSET S : G(s) = H(s)
    BY <1>2, <1>3, <2>1
  <2> HIDE DEF G, H
  <2>5. [s \in SUBSET S |-> G(s)] = [s \in SUBSET S |-> H(s)]
    BY <2>4
  <2> QED BY <2>2, <2>3, <2>5
<1>5. \E h : WeightFold(h, S, common)
  BY <1>1, <1>4, SumExists
<1>6. IsSum(g, S, w, c)
  BY <1>4, <1>5
<1>7. \A q \in S : w[q] \in Nat /\ w[q] \in Int
  OBVIOUS
<1>8. PICK a \in S : \A q \in S : w[a] <= w[q]
  BY <1>7, LeastMember
<1>9. PICK b \in S : \A q \in S : w[q] <= w[b]
  BY <1>7, GreatestMember
<1>10. g[S] \in Nat /\ w[a] * Cardinality(S) <= g[S] /\ g[S] <= w[b] * Cardinality(S)
  <2> DEFINE lo == w[a]
             hi == w[b]
  <2>1. lo \in Nat /\ hi \in Nat /\ \A q \in S : w[q] \in Nat /\ lo <= w[q] /\ w[q] <= hi
    BY <1>7, <1>8, <1>9
  <2> HIDE DEF lo, hi
  <2>2. g[S] \in Nat /\ lo * Cardinality(S) <= g[S] /\ g[S] <= hi * Cardinality(S)
    BY <1>1, <1>6, <2>1, SumBounds
  <2> QED BY <2>2 DEF lo, hi
<1> QED BY <1>10

LEMMA QuotientOfMultiple ==
  ASSUME NEW n \in Nat \ {0}, NEW k \in Nat
  PROVE  (n * k) \div n = k
BY SMT

\* A mean lies between the least and the greatest of the averages it is taken of.
LEMMA MeanIsBetween ==
  ASSUME NEW S, IsFiniteSet(S), S # {}, \A q \in S : q.sum \in Nat /\ q.n \in Nat \ {0}
  PROVE  /\ \E q \in S : q.sum * MeanOf(S).n <= MeanOf(S).sum * q.n
         /\ \E q \in S : q.sum * MeanOf(S).n >= MeanOf(S).sum * q.n
<1> HIDE ListAssumption
<1> DEFINE f == CHOOSE h : ProductFold(h, S)
           common == f[S]
           g == CHOOSE h : WeightFold(h, S, common)
           total == g[S]
           count == Cardinality(S)
           w == [q \in S |-> q.sum * (common \div q.n)]
<1>1. MeanOf(S).sum = total /\ MeanOf(S).n = common * count
  BY DEF MeanOf, FoldSet, MapThenFoldSet, ProductFold, WeightFold
<1>2. count \in Nat
  BY FS_CardinalityType
<1>3. /\ common \in Nat \ {0}
      /\ \A q \in S : IsMultiple(common, q.n)
  <2> HIDE DEF f
  <2> QED BY CommonDenominator DEF f
<1> HIDE DEF common
<1>4. \A q \in S : w[q] = q.sum * (common \div q.n)
  OBVIOUS
<1> HIDE DEF w, count
<1>5. ASSUME NEW q \in S
      PROVE  w[q] \in Nat /\ q.sum * common = w[q] * q.n
  <2>1. PICK k \in Nat : common = q.n * k
    BY <1>3 DEF IsMultiple
  <2>2. common \div q.n = k
    BY <2>1, QuotientOfMultiple
  <2>3. w[q] = q.sum * k
    BY <1>4, <2>2
  <2> DEFINE a == q.sum
             b == q.n
  <2>4. a \in Nat /\ b \in Nat
    OBVIOUS
  <2> HIDE DEF a, b
  <2>5. a * (b * k) = (a * k) * b /\ a * k \in Nat
    BY <2>4
  <2> QED BY <2>1, <2>3, <2>5 DEF a, b
<1>6. /\ total \in Nat
      /\ \E q \in S : w[q] * count <= total
      /\ \E q \in S : total <= w[q] * count
  <2> HIDE DEF g
  <2> QED BY <1>4, <1>5, WeightedSum DEF g, count
<1> HIDE DEF total
<1>7. ASSUME NEW q \in S
      PROVE  q.sum * (common * count) = (w[q] * count) * q.n
  <2> DEFINE a == q.sum
             b == q.n
             x == w[q]
  <2>1. a \in Nat /\ b \in Nat /\ x \in Nat /\ common \in Nat /\ a * common = x * b
    BY <1>3, <1>5
  <2> HIDE DEF a, b, x
  <2>2. a * (common * count) = (a * common) * count /\ (x * b) * count = (x * count) * b
    BY <1>2, <2>1
  <2> QED BY <2>1, <2>2 DEF a, b, x
<1>8. PICK q \in S : w[q] * count <= total
  BY <1>6
<1>9. PICK r \in S : total <= w[r] * count
  BY <1>6
<1>10. /\ (w[q] * count) * q.n <= total * q.n
       /\ total * r.n <= (w[r] * count) * r.n
  <2>1. /\ w[q] * count \in Nat /\ w[r] * count \in Nat /\ total \in Nat
        /\ q.n \in Nat /\ r.n \in Nat
    BY <1>2, <1>5, <1>6
  <2> QED BY <1>8, <1>9, <2>1, LessOrEqualTimes
<1>11. q.sum * MeanOf(S).n <= MeanOf(S).sum * q.n
  BY <1>1, <1>7, <1>10
<1>12. r.sum * MeanOf(S).n >= MeanOf(S).sum * r.n
  <2>1. /\ r.sum * MeanOf(S).n = (w[r] * count) * r.n
        /\ MeanOf(S).sum * r.n = total * r.n
    BY <1>1, <1>7
  <2>2. (w[r] * count) * r.n \in Nat /\ total * r.n \in Nat
    BY <1>2, <1>5, <1>6
  <2> QED BY <1>10, <2>1, <2>2
<1> QED BY <1>11, <1>12

\* -------------------------------------------------------------------------
\* The history.

\* What HistoryIsComplete says of one product and one range of days.
CompleteFor(p, d1, d2) ==
  LET answer == get_price_history(p, d1, d2)
      Of(l, d) == {r \in Snapshots(p, (d1 .. d2) \cap {d}) : r.listing = l}
      Points(d) == {q \in answer.series : q.date = d}
  IN /\ \A l \in Listings, d \in Dates :
          {q \in Points(d) : q.shop = l} =
            IF Of(l, d) = {} THEN {}
            ELSE {[shop |-> l, date |-> d, sum |-> SumOf(Of(l, d)), n |-> Cardinality(Of(l, d))]}
     /\ DOMAIN answer.average = {d \in d1 .. d2 : Snapshots(p, {d}) # {}}
     /\ \A d \in DOMAIN answer.average :
          LET a == answer.average[d]
          IN /\ \E q \in Points(d) : q.sum * a.n <= a.sum * q.n
             /\ \E q \in Points(d) : q.sum * a.n >= a.sum * q.n

LEMMA HistoryOfRange ==
  ASSUME HistoryOK, NEW p \in Products, NEW d1 \in Int, NEW d2 \in Int
  PROVE  CompleteFor(p, d1, d2)
<1> DEFINE answer == get_price_history(p, d1, d2)
           found == Snapshots(p, d1 .. d2)
           series == PointsOf(found)
           G(r) == GroupOf(found, r)
           Pt(r) == PointOf(found, r)
           Of(l, d) == {r \in Snapshots(p, (d1 .. d2) \cap {d}) : r.listing = l}
           Points(d) == {q \in series : q.date = d}
<1>1. /\ answer.series = series
      /\ answer.average = [d \in {q.date : q \in series} |-> MeanOf(Points(d))]
  <2>1. get_history(p, d1 * DayLength, d2 * DayLength + DayLength - 1) = series
    BY HistoryIs
  <2> HIDE DEF series
  <2> QED BY <2>1 DEF get_price_history
<1>2. /\ found \subseteq history /\ IsFiniteSet(found)
      /\ \A r \in found : Day(r) \in d1 .. d2 /\ ProductOf[r.listing] = p
      /\ \A r \in history : ProductOf[r.listing] = p /\ Day(r) \in d1 .. d2 => r \in found
  <2>1. found \subseteq history /\ IsFiniteSet(history)
    BY DEF Snapshots, HistoryOK
  <2>2. IsFiniteSet(found)
    BY <2>1, FS_Subset
  <2> QED BY <2>1, <2>2 DEF Snapshots
<1>3. /\ series = {Pt(r) : r \in found}
      /\ \A r : /\ Pt(r).shop = r.listing /\ Pt(r).date = Day(r)
                /\ Pt(r) = [shop |-> r.listing, date |-> Day(r), sum |-> SumOf(G(r)), n |-> Cardinality(G(r))]
  BY DEF PointsOf, PointOf
<1>4. \A r \in found : Pt(r).sum \in Nat /\ Pt(r).n \in Nat \ {0}
  <2> SUFFICES ASSUME NEW r \in found
               PROVE  Pt(r).sum \in Nat /\ Pt(r).n \in Nat \ {0}
    OBVIOUS
  <2>1. G(r) \subseteq history /\ G(r) # {}
    BY <1>2 DEF GroupOf
  <2>2. Cardinality(G(r)) \in Nat \ {0} /\ SumOf(G(r)) \in Nat
    <3> HIDE ListAssumption
    <3> HIDE DEF G
    <3> QED BY <2>1, SumOfSome
  <2>3. Pt(r).sum = SumOf(G(r)) /\ Pt(r).n = Cardinality(G(r))
    BY DEF PointOf
  <2> QED BY <2>2, <2>3
<1>5. \A l, d, r : r \in Of(l, d) <=> r \in found /\ Day(r) = d /\ r.listing = l
  BY DEF Snapshots
<1>6. \A l, d : \A r \in Of(l, d) : G(r) = Of(l, d)
  <2> SUFFICES ASSUME NEW l, NEW d, NEW r \in Of(l, d)
               PROVE  G(r) = Of(l, d)
    OBVIOUS
  <2>1. r \in found /\ Day(r) = d /\ r.listing = l
    BY <1>5
  <2>2. \A s : s \in G(r) <=> s \in found /\ s.listing = l /\ Day(s) = d
    BY <2>1 DEF GroupOf, Day
  <2> HIDE DEF G, Of
  <2>3. \A s : s \in G(r) <=> s \in Of(l, d)
    BY <1>5, <2>2
  <2>4. G(r) = {s \in found : s \in Of(l, d)} /\ Of(l, d) = {s \in found : s \in Of(l, d)}
    <3>1. G(r) = {s \in found : s.listing = r.listing /\ s.at \div DayLength = r.at \div DayLength}
      BY DEF G, GroupOf
    <3>2. Of(l, d) = {s \in Snapshots(p, (d1 .. d2) \cap {d}) : s.listing = l}
      BY DEF Of
    <3>3. G(r) \subseteq found /\ Of(l, d) \subseteq found
      BY <1>5, <2>2
    <3> QED BY <2>3, <3>1, <3>2, <3>3
  <2> QED BY <2>4
<1> HIDE DEF answer, found, series, G, Pt, Of
<1>7. ASSUME NEW l \in Listings, NEW d \in Dates
      PROVE  {q \in Points(d) : q.shop = l} =
               IF Of(l, d) = {} THEN {}
               ELSE {[shop |-> l, date |-> d, sum |-> SumOf(Of(l, d)), n |-> Cardinality(Of(l, d))]}
  <2> DEFINE point == [shop |-> l, date |-> d, sum |-> SumOf(Of(l, d)), n |-> Cardinality(Of(l, d))]
  <2>1. \A r \in Of(l, d) : Pt(r) = point
    BY <1>3, <1>5, <1>6
  <2> HIDE DEF point
  <2>2. {q \in Points(d) : q.shop = l} = {Pt(r) : r \in Of(l, d)}
    BY <1>3, <1>5
  <2>3. {Pt(r) : r \in Of(l, d)} = IF Of(l, d) = {} THEN {} ELSE {point}
    BY <2>1
  <2> QED BY <2>2, <2>3 DEF point
<1>8. {q.date : q \in series} = {d \in d1 .. d2 : Snapshots(p, {d}) # {}}
  <2>1. {q.date : q \in series} = {Day(r) : r \in found}
    BY <1>3
  <2>2. ASSUME NEW d \in d1 .. d2
        PROVE  Snapshots(p, {d}) # {} <=> d \in {Day(r) : r \in found}
    <3>1. \A r : r \in Snapshots(p, {d}) <=> r \in history /\ ProductOf[r.listing] = p /\ Day(r) = d
      BY DEF Snapshots
    <3>2. \A r : r \in Snapshots(p, {d}) <=> r \in found /\ Day(r) = d
      BY <1>2, <3>1
    <3> QED BY <3>2
  <2>3. {Day(r) : r \in found} \subseteq d1 .. d2
    BY <1>2
  <2> QED BY <2>1, <2>2, <2>3
<1>9. ASSUME NEW d \in {q.date : q \in series}
      PROVE  LET a == MeanOf(Points(d))
             IN /\ \E q \in Points(d) : q.sum * a.n <= a.sum * q.n
                /\ \E q \in Points(d) : q.sum * a.n >= a.sum * q.n
  <2>1. Points(d) # {} /\ Points(d) \subseteq series
    BY <1>9
  <2>2. IsFiniteSet(series)
    <3> DEFINE f == [r \in found |-> Pt(r)]
    <3>1. f \in Surjection(found, series)
      BY <1>3 DEF Surjection
    <3> HIDE ListAssumption
    <3> HIDE DEF f
    <3> QED BY <1>2, <3>1, FS_Surjection
  <2>3. \A q \in Points(d) : q.sum \in Nat /\ q.n \in Nat \ {0}
    BY <1>3, <1>4
  <2> HIDE ListAssumption
  <2> HIDE DEF Points
  <2>4. IsFiniteSet(Points(d))
    BY <2>1, <2>2, FS_Subset
  <2> QED BY <2>1, <2>3, <2>4, MeanIsBetween
<1>10. CompleteFor(p, d1, d2)
  <2>1. DOMAIN answer.average = {d \in d1 .. d2 : Snapshots(p, {d}) # {}}
    BY <1>1, <1>8
  <2>2. \A d \in DOMAIN answer.average :
          LET a == answer.average[d]
          IN /\ \E q \in Points(d) : q.sum * a.n <= a.sum * q.n
             /\ \E q \in Points(d) : q.sum * a.n >= a.sum * q.n
    <3> SUFFICES ASSUME NEW d \in DOMAIN answer.average,
                        NEW a, a = answer.average[d]
                 PROVE  /\ \E q \in Points(d) : q.sum * a.n <= a.sum * q.n
                        /\ \E q \in Points(d) : q.sum * a.n >= a.sum * q.n
      OBVIOUS
    <3>1. d \in {q.date : q \in series} /\ a = MeanOf(Points(d))
      BY <1>1
    <3> HIDE DEF Points
    <3> QED BY <1>9, <3>1
  <2> QED BY <1>1, <1>7, <2>1, <2>2 DEF CompleteFor, answer, Of
<1> QED BY <1>10

\* The history of any range of days has a point for each shop and day with a
\* snapshot, made of all of them, and no other; and a day's average lies between its
\* cheapest and its dearest shop: get_price_history, for any snapshots.
THEOREM HistoriesAreComplete == Spec => []HistoryIsComplete
<1>1. ListInv => HistoryIsComplete
  <2> SUFFICES ASSUME ListInv PROVE HistoryIsComplete
    OBVIOUS
  <2>1. Dates \subseteq Int
    BY DEF Dates
  <2>2. \A p \in Products, d1, d2 \in Dates : CompleteFor(p, d1, d2)
    BY <2>1, HistoryOfRange DEF ListInv
  <2> QED BY <2>2 DEF HistoryIsComplete, CompleteFor
<1> QED BY <1>1, ListIsInvariant, PTL
=============================================================================
