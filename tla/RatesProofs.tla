---------------------------- MODULE RatesProofs ----------------------------
(* Theorems of module ExchangeRates, for any number of currencies, days,     *)
(* points, requests, syncs and backfills.                                    *)
EXTENDS ExchangeRates, Integers, TLAPS

USE RatesAssumption

LEMMA KeySets ==
  /\ Days \subseteq Rates /\ 0 \in Rates /\ 0 \notin Days /\ NoKey \notin Keys
  /\ \A d \in Days : 1..d \subseteq Days
  /\ \A k \in Keys : DayOf(k) \in Days
  /\ \A k \in Keys : \A e \in 1..DayOf(k) : <<k[1], e>> \in Keys /\ DayOf(<<k[1], e>>) = e
BY DEF Days, Rates, Keys, Currencies, NoKey, DayOf

\* -------------------------------------------------------------------------
\* The keys of a transaction.

LEMMA DivMod ==
  ASSUME NEW n \in Nat, NEW m \in Nat \ {0}, NEW x \in Nat, x < n * m
  PROVE  x % m \in 0..(m - 1) /\ x \div m \in 0..(n - 1)
<1> DEFINE q == x \div m
<1>1. q \in Int /\ x % m \in 0..(m - 1) /\ x = m * q + (x % m)
  OBVIOUS
<1> HIDE DEF q
<1>2. q >= 0
  <2>1. SUFFICES ASSUME q <= 0 - 1 PROVE FALSE
    BY <1>1
  <2>2. m * q <= m * (0 - 1)
    BY <1>1, <2>1
  <2> QED BY <1>1, <2>1, <2>2
<1>3. q < n
  <2>1. SUFFICES ASSUME n <= q PROVE FALSE
    BY <1>1
  <2>2. n * m <= m * q
    BY <1>1, <2>1
  <2> QED BY <1>1, <2>1, <2>2
<1> QED BY <1>1, <1>2, <1>3 DEF q

LEMMA LookupsAre ==
  ASSUME NEW currencies \in Seq(Currencies), currencies # <<>>, NEW days \in Seq(Days)
  PROVE  /\ Lookups(currencies, days) \in Seq(Keys)
         /\ \A i \in DOMAIN Lookups(currencies, days) :
              \E j \in 1..Len(days) : DayOf(Lookups(currencies, days)[i]) = days[j]
<1> DEFINE n == Len(days)
           m == Len(currencies)
           At(i) == ((i - 1) % m) + 1
           Of(i) == ((i - 1) \div m) + 1
<1>1. n \in Nat /\ m \in Nat \ {0} /\ n * m \in Nat
  OBVIOUS
<1>2. ASSUME NEW i \in 1..(n * m) PROVE At(i) \in 1..m /\ Of(i) \in 1..n
  <2>1. i - 1 \in Nat /\ i - 1 < n * m
    BY <1>1
  <2> HIDE DEF n, m
  <2>2. (i - 1) % m \in 0..(m - 1) /\ (i - 1) \div m \in 0..(n - 1)
    BY <1>1, <2>1, DivMod
  <2> QED BY <1>1, <2>1, <2>2
<1>3. Lookups(currencies, days) = [i \in 1..(n * m) |-> <<currencies[At(i)], days[Of(i)]>>]
  BY DEF Lookups
<1> HIDE DEF At, Of
<1>4. \A i \in 1..(n * m) : <<currencies[At(i)], days[Of(i)]>> \in Keys
  BY <1>2 DEF Keys
<1> HIDE DEF n, m
<1>5. Lookups(currencies, days) \in Seq(Keys)
  BY <1>1, <1>3, <1>4
<1>6. \A i \in 1..(n * m) : DayOf(Lookups(currencies, days)[i]) = days[Of(i)]
  BY <1>3 DEF DayOf
<1> QED BY <1>2, <1>3, <1>5, <1>6 DEF n

LEMMA TailAndHead ==
  ASSUME NEW s \in Seq(Keys), s # <<>>
  PROVE  /\ Head(s) \in Keys /\ Tail(s) \in Seq(Keys)
         /\ \E j \in DOMAIN s : Head(s) = s[j]
         /\ \A i \in DOMAIN Tail(s) : \E j \in DOMAIN s : Tail(s)[i] = s[j]
<1>1. Head(s) \in Keys /\ Tail(s) \in Seq(Keys)
  OBVIOUS
<1>2. 1 \in DOMAIN s /\ Head(s) = s[1]
  OBVIOUS
<1>3. ASSUME NEW i \in DOMAIN Tail(s) PROVE i + 1 \in DOMAIN s /\ Tail(s)[i] = s[i + 1]
  BY <1>3
<1> QED BY <1>1, <1>2, <1>3

\* -------------------------------------------------------------------------
\* The rows are those of their own date.

LEMMA InitInv == Init => RatesInv
<1> SUFFICES ASSUME Init PROVE RatesInv
  OBVIOUS
<1>1. NoWrites \in [Keys -> Rates] /\ \A k \in Keys : NoWrites[k] = 0
  BY DEF NoWrites, Rates
<1>2. <<>> \in Seq(Keys) /\ DOMAIN <<>> = {}
  OBVIOUS
<1>3. TypeOK
  BY <1>1, <1>2 DEF Init, TypeOK, Days, Places, Rates
<1>4. DbIsExact
  BY <1>1 DEF Init, DbIsExact
<1>5. \A p \in Procs : WritesAreExact(p) /\ HasKey(p) /\ SyncStoresOneDay(p)
  BY <1>1, <1>2 DEF Init, WritesAreExact, HasKey, SyncStoresOneDay
<1> QED BY <1>3, <1>4, <1>5 DEF RatesInv

\* What holds of a transaction holds after a step of another.
LEMMA Others ==
  ASSUME RatesInv, NEW q \in Procs, UNCHANGED today,
         UNCHANGED <<pc[q], todo[q], key[q], val[q], writes[q]>>
  PROVE  WritesAreExact(q)' /\ HasKey(q)' /\ SyncStoresOneDay(q)'
BY DEF RatesInv, WritesAreExact, HasKey, SyncStoresOneDay

LEMMA Keeps_Begin ==
  ASSUME RatesInv, NEW p \in Procs, Begin(p)
  PROVE  RatesInv'
<1> USE DEF RatesInv, Begin, Goto
<1>1. SYNC_CURRENCIES \in Seq(Currencies) /\ SYNC_CURRENCIES # <<>>
  <2>1. SYNC_CURRENCIES \in Seq(Currencies) /\ Len(SYNC_CURRENCIES) = MaxCurrency
    BY DEF SYNC_CURRENCIES, Currencies
  <2> QED BY <2>1
<1>2. PICK s \in Seq(Keys) :
        /\ todo' = [todo EXCEPT ![p] = s]
        /\ \/ p \notin Syncs /\ pc' = [pc EXCEPT ![p] = "next"]
           \/ /\ p \in Syncs /\ pc' = [pc EXCEPT ![p] = "nbu"]
              /\ \A i \in DOMAIN s : DayOf(s[i]) = today
  <2>1. CASE BeginRequest(p)
    <3>1. PICK n \in 1..MaxPoints : \E points \in [1..n -> 1..today] :
            \/ todo' = [todo EXCEPT ![p] = Lookups(<<1>>, points)]
            \/ \E c \in Currencies \ {1} : todo' = [todo EXCEPT ![p] = Lookups(<<1, c>>, points)]
      BY <2>1 DEF BeginRequest
    <3>2. PICK points \in [1..n -> 1..today] :
            \/ todo' = [todo EXCEPT ![p] = Lookups(<<1>>, points)]
            \/ \E c \in Currencies \ {1} : todo' = [todo EXCEPT ![p] = Lookups(<<1, c>>, points)]
      BY <3>1
    <3>3. n \in Nat /\ \A i \in 1..n : points[i] \in Days
      BY <3>2, KeySets DEF TypeOK
    <3>4. points \in Seq(Days)
      BY <3>3
    <3>5. Lookups(<<1>>, points) \in Seq(Keys)
      <4>1. <<1>> \in Seq(Currencies) /\ <<1>> # <<>>
        BY DEF Currencies
      <4> QED BY <3>4, <4>1, LookupsAre
    <3>6. ASSUME NEW c \in Currencies PROVE Lookups(<<1, c>>, points) \in Seq(Keys)
      <4>1. <<1, c>> \in Seq(Currencies) /\ <<1, c>> # <<>>
        BY DEF Currencies
      <4> QED BY <3>4, <4>1, LookupsAre
    <3>7. p \notin Syncs /\ pc' = [pc EXCEPT ![p] = "next"]
      BY <2>1 DEF BeginRequest
    <3> QED BY <3>2, <3>5, <3>6, <3>7
  <2>2. CASE BeginSync(p)
    <3>1. <<today>> \in Seq(Days) /\ Len(<<today>>) = 1 /\ <<today>>[1] = today
      BY DEF TypeOK
    <3>2. /\ Lookups(SYNC_CURRENCIES, <<today>>) \in Seq(Keys)
          /\ \A i \in DOMAIN Lookups(SYNC_CURRENCIES, <<today>>) :
               \E j \in 1..Len(<<today>>) : DayOf(Lookups(SYNC_CURRENCIES, <<today>>)[i]) = <<today>>[j]
      BY <1>1, <3>1, LookupsAre
    <3>3. \A i \in DOMAIN Lookups(SYNC_CURRENCIES, <<today>>) :
            DayOf(Lookups(SYNC_CURRENCIES, <<today>>)[i]) = today
      BY <3>1, <3>2
    <3> QED BY <2>2, <3>2, <3>3 DEF BeginSync
  <2>3. CASE BeginBackfill(p)
    <3>1. PICK from \in 1..today, to \in 1..today :
            /\ from <= to
            /\ todo' = [todo EXCEPT ![p] =
                 Lookups(SYNC_CURRENCIES, [i \in 1..(to - from + 1) |-> from + i - 1])]
      BY <2>3 DEF BeginBackfill
    <3> DEFINE range == [i \in 1..(to - from + 1) |-> from + i - 1]
    <3>2. to - from + 1 \in Nat /\ \A i \in 1..(to - from + 1) : from + i - 1 \in Days
      BY <3>1 DEF TypeOK, Days
    <3>3. range \in Seq(Days)
      BY <3>2
    <3> HIDE DEF range
    <3>4. Lookups(SYNC_CURRENCIES, range) \in Seq(Keys)
      BY <1>1, <3>3, LookupsAre
    <3>5. todo' = [todo EXCEPT ![p] = Lookups(SYNC_CURRENCIES, range)]
      BY <3>1 DEF range
    <3>6. p \notin Syncs /\ pc' = [pc EXCEPT ![p] = "next"]
      BY <2>3 DEF BeginBackfill
    <3> QED BY <3>4, <3>5, <3>6
  <2> QED BY <2>1, <2>2, <2>3
<1>3. TypeOK'
  BY <1>2 DEF TypeOK, Places
<1>4. ASSUME NEW q \in Procs \ {p} PROVE WritesAreExact(q)' /\ HasKey(q)' /\ SyncStoresOneDay(q)'
  <2>1. UNCHANGED <<today, pc[q], todo[q], key[q], val[q], writes[q]>>
    BY <1>2 DEF TypeOK
  <2> QED BY <2>1, Others
<1>5. pc'[p] \in {"next", "nbu"} /\ todo'[p] = s
  BY <1>2 DEF TypeOK
<1>6. WritesAreExact(p)'
  BY <1>5 DEF WritesAreExact
<1>7. HasKey(p)'
  BY <1>2, <1>5 DEF HasKey, TypeOK
<1>8. SyncStoresOneDay(p)'
  BY <1>2, <1>5 DEF SyncStoresOneDay, TypeOK
<1>9. DbIsExact'
  BY DEF DbIsExact
<1> QED BY <1>3, <1>4, <1>6, <1>7, <1>8, <1>9

LEMMA Keeps_ReadRedis ==
  ASSUME RatesInv, NEW p \in Procs, ReadRedis(p)
  PROVE  RatesInv'
<1> USE DEF RatesInv, ReadRedis, TakeKey, Goto
<1>0. /\ Head(todo[p]) \in Keys /\ Tail(todo[p]) \in Seq(Keys)
      /\ \E j \in DOMAIN todo[p] : Head(todo[p]) = todo[p][j]
      /\ \A i \in DOMAIN Tail(todo[p]) : \E j \in DOMAIN todo[p] : Tail(todo[p])[i] = todo[p][j]
  BY TailAndHead DEF TypeOK
<1>1. TypeOK'
  BY <1>0 DEF TypeOK, Places
<1>2. DbIsExact'
  BY DEF DbIsExact
<1>3. ASSUME NEW q \in Procs \ {p} PROVE WritesAreExact(q)' /\ HasKey(q)' /\ SyncStoresOneDay(q)'
  <2>1. UNCHANGED <<today, pc[q], todo[q], key[q], val[q], writes[q]>>
    BY DEF TypeOK
  <2> QED BY <2>1, Others
<1>4. WritesAreExact(p)'
  BY DEF WritesAreExact, TypeOK
<1>5. HasKey(p)'
  BY <1>0 DEF HasKey, TypeOK
<1>6. SyncStoresOneDay(p)'
  BY DEF SyncStoresOneDay
<1> QED BY <1>1, <1>2, <1>3, <1>4, <1>5, <1>6

LEMMA Keeps_NextBackfillKey ==
  ASSUME RatesInv, NEW p \in Procs, NextBackfillKey(p)
  PROVE  RatesInv'
<1> USE DEF RatesInv, NextBackfillKey, TakeKey, Goto
<1>0. /\ Head(todo[p]) \in Keys /\ Tail(todo[p]) \in Seq(Keys)
      /\ \E j \in DOMAIN todo[p] : Head(todo[p]) = todo[p][j]
      /\ \A i \in DOMAIN Tail(todo[p]) : \E j \in DOMAIN todo[p] : Tail(todo[p])[i] = todo[p][j]
  BY TailAndHead DEF TypeOK
<1>1. TypeOK'
  BY <1>0 DEF TypeOK, Places
<1>2. DbIsExact'
  BY DEF DbIsExact
<1>3. ASSUME NEW q \in Procs \ {p} PROVE WritesAreExact(q)' /\ HasKey(q)' /\ SyncStoresOneDay(q)'
  <2>1. UNCHANGED <<today, pc[q], todo[q], key[q], val[q], writes[q]>>
    BY DEF TypeOK
  <2> QED BY <2>1, Others
<1>4. WritesAreExact(p)'
  BY DEF WritesAreExact, TypeOK
<1>5. HasKey(p)'
  BY <1>0 DEF HasKey, TypeOK
<1>6. SyncStoresOneDay(p)'
  BY DEF SyncStoresOneDay
<1> QED BY <1>1, <1>2, <1>3, <1>4, <1>5, <1>6

LEMMA Keeps_NextSyncKey ==
  ASSUME RatesInv, NEW p \in Procs, NextSyncKey(p)
  PROVE  RatesInv'
<1> USE DEF RatesInv, NextSyncKey, TakeKey, Goto
<1>0. /\ Head(todo[p]) \in Keys /\ Tail(todo[p]) \in Seq(Keys)
      /\ \E j \in DOMAIN todo[p] : Head(todo[p]) = todo[p][j]
      /\ \A i \in DOMAIN Tail(todo[p]) : \E j \in DOMAIN todo[p] : Tail(todo[p])[i] = todo[p][j]
  BY TailAndHead DEF TypeOK
<1>1. TypeOK'
  <2>1. pc' \in [Procs -> Places]
    BY DEF TypeOK, Places
  <2>2. key' \in [Procs -> Keys \cup {NoKey}]
    BY <1>0 DEF TypeOK
  <2>3. todo' \in [Procs -> Seq(Keys)]
    BY <1>0 DEF TypeOK
  <2> QED BY <2>1, <2>2, <2>3 DEF TypeOK
<1>2. DbIsExact'
  BY DEF DbIsExact
<1>3. ASSUME NEW q \in Procs \ {p} PROVE WritesAreExact(q)' /\ HasKey(q)' /\ SyncStoresOneDay(q)'
  <2>1. UNCHANGED <<today, pc[q], todo[q], key[q], val[q], writes[q]>>
    BY DEF TypeOK
  <2> QED BY <2>1, Others
<1>4. WritesAreExact(p)'
  BY <1>0 DEF WritesAreExact, SyncStoresOneDay, TypeOK
<1>5. HasKey(p)'
  BY <1>0 DEF HasKey, TypeOK
<1>6. SyncStoresOneDay(p)'
  <2>1. todo'[p] = Tail(todo[p]) /\ val'[p] = val[p] /\ pc'[p] \in {"next", "upsert"}
    BY DEF TypeOK
  <2>2. \A j \in DOMAIN todo[p] : DayOf(todo[p][j]) = val[p]
    BY DEF SyncStoresOneDay
  <2>3. \A i \in DOMAIN Tail(todo[p]) : DayOf(Tail(todo[p])[i]) = val[p]
    BY <1>0, <2>2
  <2> QED BY <2>1, <2>3 DEF SyncStoresOneDay
<1> QED BY <1>1, <1>2, <1>3, <1>4, <1>5, <1>6

LEMMA Keeps_ReadDb ==
  ASSUME RatesInv, NEW p \in Procs, ReadDb(p)
  PROVE  RatesInv'
<1> USE DEF RatesInv, ReadDb, Settle, Goto
<1>1. TypeOK'
  <2>1. Visible(p, key[p]) \in Rates
    BY DEF TypeOK, Visible, HasKey
  <2> QED BY <2>1 DEF TypeOK, Places
<1>2. DbIsExact'
  BY DEF DbIsExact
<1>3. ASSUME NEW q \in Procs \ {p} PROVE WritesAreExact(q)' /\ HasKey(q)' /\ SyncStoresOneDay(q)'
  <2>1. UNCHANGED <<today, pc[q], todo[q], key[q], val[q], writes[q]>>
    BY DEF TypeOK
  <2> QED BY <2>1, Others
<1>4. WritesAreExact(p)'
  BY DEF WritesAreExact, TypeOK
<1>5. HasKey(p)'
  BY DEF HasKey, TypeOK
<1>6. SyncStoresOneDay(p)'
  BY DEF SyncStoresOneDay
<1> QED BY <1>1, <1>2, <1>3, <1>4, <1>5, <1>6

LEMMA Keeps_NbuAnswers ==
  ASSUME RatesInv, NEW p \in Procs, NbuAnswers(p)
  PROVE  RatesInv'
<1> USE DEF RatesInv, NbuAnswers, Goto
<1>1. TypeOK'
  <2>1. (IF p \in Syncs THEN today ELSE DayOf(key[p])) \in Rates
    BY KeySets DEF TypeOK, HasKey
  <2> QED BY <2>1 DEF TypeOK, Places
<1>2. DbIsExact'
  BY DEF DbIsExact
<1>3. ASSUME NEW q \in Procs \ {p} PROVE WritesAreExact(q)' /\ HasKey(q)' /\ SyncStoresOneDay(q)'
  <2>1. UNCHANGED <<today, pc[q], todo[q], key[q], val[q], writes[q]>>
    BY DEF TypeOK
  <2> QED BY <2>1, Others
<1>4. WritesAreExact(p)'
  BY DEF WritesAreExact, TypeOK
<1>5. HasKey(p)'
  BY DEF HasKey, TypeOK
<1>6. SyncStoresOneDay(p)'
  BY DEF SyncStoresOneDay, TypeOK
<1> QED BY <1>1, <1>2, <1>3, <1>4, <1>5, <1>6

LEMMA Keeps_NbuFails ==
  ASSUME RatesInv, NEW p \in Procs, NbuFails(p)
  PROVE  RatesInv'
<1> USE DEF RatesInv, NbuFails, Settle, Goto
<1>1. TypeOK'
  <2>1. todo' \in [Procs -> Seq(Keys)]
    BY DEF TypeOK
  <2>2. pc' \in [Procs -> Places] /\ key' \in [Procs -> Keys \cup {NoKey}]
    BY DEF TypeOK, Places
  <2> QED BY <2>1, <2>2 DEF TypeOK
<1>2. DbIsExact'
  BY DEF DbIsExact
<1>3. ASSUME NEW q \in Procs \ {p} PROVE WritesAreExact(q)' /\ HasKey(q)' /\ SyncStoresOneDay(q)'
  <2>1. UNCHANGED <<today, pc[q], todo[q], key[q], val[q], writes[q]>>
    BY DEF TypeOK
  <2> QED BY <2>1, Others
<1>4. WritesAreExact(p)'
  BY DEF WritesAreExact, TypeOK
<1>5. HasKey(p)'
  BY DEF HasKey, TypeOK
<1>6. SyncStoresOneDay(p)'
  BY DEF SyncStoresOneDay, TypeOK
<1> QED BY <1>1, <1>2, <1>3, <1>4, <1>5, <1>6

LEMMA Keeps_Upsert ==
  ASSUME RatesInv, NEW p \in Procs, Upsert(p)
  PROVE  RatesInv'
<1> USE DEF RatesInv, Upsert, AfterUpsert, Settle, Goto
<1>1. TypeOK'
  <2>1. writes' \in [Procs -> [Keys -> Rates]]
    BY DEF TypeOK
  <2> QED BY <2>1 DEF TypeOK, Places
<1>2. DbIsExact'
  BY DEF DbIsExact
<1>3. ASSUME NEW q \in Procs \ {p} PROVE WritesAreExact(q)' /\ HasKey(q)' /\ SyncStoresOneDay(q)'
  <2>1. UNCHANGED <<today, pc[q], todo[q], key[q], val[q], writes[q]>>
    BY DEF TypeOK
  <2> QED BY <2>1, Others
<1>4. WritesAreExact(p)'
  BY DEF WritesAreExact, TypeOK
<1>5. HasKey(p)'
  BY DEF HasKey, TypeOK
<1>6. SyncStoresOneDay(p)'
  BY DEF SyncStoresOneDay, TypeOK
<1> QED BY <1>1, <1>2, <1>3, <1>4, <1>5, <1>6

LEMMA Keeps_Cache ==
  ASSUME RatesInv, NEW p \in Procs, Cache(p)
  PROVE  RatesInv'
<1> USE DEF RatesInv, Cache, Settle, Goto
<1>1. TypeOK'
  <2>1. redis' \in [Keys -> Rates] /\ expires' \subseteq Keys
    BY DEF TypeOK, HasKey
  <2> QED BY <2>1 DEF TypeOK, Places
<1>2. DbIsExact'
  BY DEF DbIsExact
<1>3. ASSUME NEW q \in Procs \ {p} PROVE WritesAreExact(q)' /\ HasKey(q)' /\ SyncStoresOneDay(q)'
  <2>1. UNCHANGED <<today, pc[q], todo[q], key[q], val[q], writes[q]>>
    BY DEF TypeOK
  <2> QED BY <2>1, Others
<1>4. WritesAreExact(p)'
  BY DEF WritesAreExact, TypeOK
<1>5. HasKey(p)'
  BY DEF HasKey, TypeOK
<1>6. SyncStoresOneDay(p)'
  BY DEF SyncStoresOneDay, TypeOK
<1> QED BY <1>1, <1>2, <1>3, <1>4, <1>5, <1>6

LEMMA Keeps_UseEarlierRate ==
  ASSUME RatesInv, NEW p \in Procs, pc[p] = "fallback", UseEarlierRate(p)
  PROVE  RatesInv'
<1> USE DEF RatesInv, UseEarlierRate, Goto
<1>1. TypeOK'
  <2>1. \A e \in 1..DayOf(key[p]) : Visible(p, <<key[p][1], e>>) \in Rates
    BY KeySets DEF TypeOK, HasKey, Visible
  <2>2. val' \in [Procs -> Rates]
    BY <2>1 DEF TypeOK, OnOrBefore
  <2> QED BY <2>2 DEF TypeOK, Places
<1>2. DbIsExact'
  BY DEF DbIsExact
<1>3. ASSUME NEW q \in Procs \ {p} PROVE WritesAreExact(q)' /\ HasKey(q)' /\ SyncStoresOneDay(q)'
  <2>1. UNCHANGED <<today, pc[q], todo[q], key[q], val[q], writes[q]>>
    BY DEF TypeOK
  <2> QED BY <2>1, Others
<1>4. WritesAreExact(p)'
  BY DEF WritesAreExact, TypeOK
<1>5. HasKey(p)'
  BY DEF HasKey, TypeOK
<1>6. SyncStoresOneDay(p)'
  BY DEF SyncStoresOneDay
<1> QED BY <1>1, <1>2, <1>3, <1>4, <1>5, <1>6

LEMMA Keeps_Rollback ==
  ASSUME RatesInv, NEW p \in Procs, Rollback(p)
  PROVE  RatesInv'
<1> USE DEF RatesInv, Rollback, EndTransaction, Settle, Goto
<1>1. TypeOK'
  BY KeySets DEF TypeOK, Places, NoWrites
<1>2. DbIsExact'
  BY DEF DbIsExact
<1>3. ASSUME NEW q \in Procs \ {p} PROVE WritesAreExact(q)' /\ HasKey(q)' /\ SyncStoresOneDay(q)'
  <2>1. UNCHANGED <<today, pc[q], todo[q], key[q], val[q], writes[q]>>
    BY DEF TypeOK
  <2> QED BY <2>1, Others
<1>4. WritesAreExact(p)'
  BY DEF WritesAreExact, TypeOK, NoWrites
<1>5. HasKey(p)'
  BY DEF HasKey, TypeOK
<1>6. SyncStoresOneDay(p)'
  BY DEF SyncStoresOneDay, TypeOK
<1> QED BY <1>1, <1>2, <1>3, <1>4, <1>5, <1>6

LEMMA Keeps_Commit ==
  ASSUME RatesInv, NEW p \in Procs, Commit(p)
  PROVE  RatesInv'
<1> USE DEF RatesInv, Commit, EndTransaction, Settle, Goto
<1>1. TypeOK'
  <2>1. db' \in [Keys -> Rates]
    BY DEF TypeOK, Visible
  <2> QED BY <2>1, KeySets DEF TypeOK, Places, NoWrites
<1>2. DbIsExact'
  BY DEF DbIsExact, Visible, WritesAreExact
<1>3. ASSUME NEW q \in Procs \ {p} PROVE WritesAreExact(q)' /\ HasKey(q)' /\ SyncStoresOneDay(q)'
  <2>1. UNCHANGED <<today, pc[q], todo[q], key[q], val[q], writes[q]>>
    BY DEF TypeOK
  <2> QED BY <2>1, Others
<1>4. WritesAreExact(p)'
  BY DEF WritesAreExact, TypeOK, NoWrites
<1>5. HasKey(p)'
  BY DEF HasKey, TypeOK
<1>6. SyncStoresOneDay(p)'
  BY DEF SyncStoresOneDay, TypeOK
<1> QED BY <1>1, <1>2, <1>3, <1>4, <1>5, <1>6

LEMMA Keeps_Expire ==
  ASSUME RatesInv, NEW k \in Keys, Expire(k)
  PROVE  RatesInv'
<1> USE DEF RatesInv, Expire
<1>1. TypeOK'
  BY KeySets DEF TypeOK
<1>2. DbIsExact'
  BY DEF DbIsExact
<1>3. ASSUME NEW q \in Procs PROVE WritesAreExact(q)' /\ HasKey(q)' /\ SyncStoresOneDay(q)'
  BY Others
<1> QED BY <1>1, <1>2, <1>3

LEMMA Keeps_NextDay ==
  ASSUME RatesInv, ~ MidnightSync, NextDay
  PROVE  RatesInv'
<1> USE DEF RatesInv, NextDay
<1>1. TypeOK'
  BY DEF TypeOK, Days
<1>2. DbIsExact'
  BY DEF DbIsExact
<1>3. ASSUME NEW q \in Procs PROVE WritesAreExact(q)' /\ HasKey(q)' /\ SyncStoresOneDay(q)'
  BY DEF WritesAreExact, HasKey, SyncStoresOneDay
<1> QED BY <1>1, <1>2, <1>3

LEMMA RatesInductive ==
  ASSUME ~ MidnightSync, RatesInv, [Next]_vars
  PROVE  RatesInv'
<1>1. ASSUME NEW p \in Procs, Step(p) PROVE RatesInv'
  BY <1>1, Keeps_ReadRedis, Keeps_NextBackfillKey, Keeps_NextSyncKey, Keeps_ReadDb,
     Keeps_NbuAnswers, Keeps_NbuFails, Keeps_Upsert, Keeps_Cache, Keeps_UseEarlierRate,
     Keeps_Rollback, Keeps_Commit DEF Step, Fallback, DeadlockVictim
<1>2. ASSUME NEW p \in Procs, Fail(p) PROVE RatesInv'
  BY <1>2, Keeps_Rollback DEF Fail
<1>3. CASE UNCHANGED vars
  BY <1>3 DEF vars, RatesInv, TypeOK, DbIsExact, WritesAreExact, HasKey, SyncStoresOneDay
<1> QED BY <1>1, <1>2, <1>3, Keeps_Begin, Keeps_Expire, Keeps_NextDay DEF Next

\* If midnight never passes while a sync waits for the NBU, every row of
\* exchange_rates holds its currency's rate of its own date: no fallback, no race of
\* requests, syncs and backfills and no rollback ever stores another one.
THEOREM TableIsExact == ASSUME ~ MidnightSync PROVE Spec => []DbIsExact
<1>1. RatesInv => DbIsExact
  BY DEF RatesInv
<1>2. RatesInv /\ [Next]_vars => RatesInv'
  BY RatesInductive
<1> QED BY <1>1, <1>2, InitInv, PTL DEF Spec

\* Types are kept: of the transactions, the rows they hold, and the cache.
THEOREM TypeCorrect == ASSUME ~ MidnightSync PROVE Spec => []TypeOK
<1>1. RatesInv => TypeOK
  BY DEF RatesInv
<1>2. RatesInv /\ [Next]_vars => RatesInv'
  BY RatesInductive
<1> QED BY <1>1, <1>2, InitInv, PTL DEF Spec

\* A step of q leaves the others where they are.
LEMMA OnlyItsOwn ==
  ASSUME RatesInv, NEW q \in Procs, Begin(q) \/ Step(q) \/ Fail(q), NEW o \in Procs, o # q
  PROVE  UNCHANGED <<pc[o], todo[o], key[o], val[o], writes[o]>>
BY DEF RatesInv, TypeOK, Goto, Settle, TakeKey, Begin, BeginRequest, BeginSync, BeginBackfill, Step,
   Fail, ReadRedis, NextBackfillKey, NextSyncKey, ReadDb, NbuAnswers, NbuFails, Upsert, AfterUpsert,
   Cache, Fallback, UseEarlierRate, DeadlockVictim, Rollback, Commit, EndTransaction

\* -------------------------------------------------------------------------
\* What is cached is stored.

\* A rate that is stored, about to be stored or lost stays so.
LEMMA BackedStays ==
  ASSUME RatesInv, [Next]_vars, NEW k \in Keys, Backed(k)
  PROVE  Backed(k)'
<1> USE DEF Backed
<1>1. ASSUME NEW p \in Procs, Upsert(p) PROVE Backed(k)'
  BY <1>1 DEF Upsert, RatesInv, TypeOK, WritesAreExact
<1>2. ASSUME NEW p \in Procs, Commit(p) PROVE Backed(k)'
  <2>1. db'[k] = Visible(p, k) /\ \A o \in Procs \ {p} : writes'[o] = writes[o]
    BY <1>2 DEF Commit, EndTransaction, RatesInv, TypeOK
  <2>2. writes[p][k] \in {0, DayOf(k)} /\ DayOf(k) # 0
    BY KeySets DEF RatesInv, WritesAreExact
  <2>3. lost' = lost
    BY <1>2 DEF Commit
  <2> QED BY <2>1, <2>2, <2>3 DEF Visible
<1>3. ASSUME NEW p \in Procs, Rollback(p) PROVE Backed(k)'
  BY <1>3, KeySets DEF Rollback, EndTransaction, RatesInv, TypeOK
<1>4. CASE UNCHANGED <<db, writes, lost>>
  BY <1>4
<1> QED
  BY <1>1, <1>2, <1>3, <1>4 DEF Next, vars, Begin, Step, Fail, Expire, NextDay, ReadRedis,
     NextBackfillKey, NextSyncKey, ReadDb, NbuAnswers, NbuFails, Cache, Fallback, UseEarlierRate, DeadlockVictim

LEMMA BackedInit == Init => BackedInv
<1> SUFFICES ASSUME Init PROVE BackedInv
  OBVIOUS
<1>1. CacheIsBacked
  BY KeySets DEF Init, CacheIsBacked, NoWrites
<1> QED BY <1>1 DEF Init, BackedInv

LEMMA BackedNext ==
  ASSUME RatesInv, BackedInv, [Next]_vars
  PROVE  BackedInv'
<1> USE DEF BackedInv
<1>1. \A k \in Keys : Backed(k) => Backed(k)'
  BY BackedStays
<1>2. ASSUME NEW k \in Keys, redis'[k] = DayOf(k) PROVE Backed(k)'
  <2>1. redis[k] = DayOf(k) \/ \E p \in Procs : pc[p] = "cache" /\ key[p] = k /\ val[p] = DayOf(k)
    <3>1. CASE \E p \in Procs : Cache(p)
      BY <1>2, <3>1 DEF Cache, RatesInv, TypeOK, HasKey
    <3>2. CASE \E e \in Keys : Expire(e)
      BY <1>2, <3>2, KeySets DEF Expire, RatesInv, TypeOK
    <3>3. CASE UNCHANGED redis
      BY <1>2, <3>3
    <3> QED
      BY <3>1, <3>2, <3>3
      DEF Next, vars, Begin, Step, Fail, NextDay, ReadRedis, NextBackfillKey, NextSyncKey, ReadDb,
          NbuAnswers, NbuFails, Upsert, Fallback, UseEarlierRate, DeadlockVictim, Rollback, Commit,
          EndTransaction
  <2> QED BY <1>1, <2>1 DEF CacheIsBacked
<1>3. ASSUME NEW p \in Procs, pc'[p] = "cache", val'[p] = DayOf(key'[p]) PROVE Backed(key[p])'
  <2>1. CASE UNCHANGED <<pc[p], key[p], val[p]>>
    <3>1. key[p] \in Keys /\ Backed(key[p])
      BY <1>3, <2>1 DEF RatesInv, HasKey
    <3> QED BY <1>1, <2>1, <3>1 DEF Backed
  <2>2. CASE ReadDb(p)
    <3>1. /\ key'[p] = key[p] /\ val'[p] = Visible(p, key[p]) /\ pc[p] = "db"
          /\ UNCHANGED <<db, writes, lost>>
      BY <1>3, <2>2 DEF ReadDb, Goto, RatesInv, TypeOK
    <3> QED BY <1>3, <3>1 DEF Backed, Visible
  <2>3. CASE Upsert(p)
    <3>1. key'[p] = key[p] /\ val'[p] = val[p] /\ key[p] \in Keys
      BY <1>3, <2>3 DEF Upsert, AfterUpsert, Goto, RatesInv, TypeOK, HasKey
    <3>2. writes'[p][key[p]] = val[p]
      BY <2>3, <3>1 DEF Upsert, RatesInv, TypeOK
    <3> QED BY <1>3, <3>1, <3>2 DEF Backed
  <2>4. CASE UseEarlierRate(p) /\ pc[p] = "fallback"
    <3>1. key[p] \in Keys /\ key'[p] = key[p] /\ UNCHANGED <<db, writes, lost>>
      BY <2>4 DEF UseEarlierRate, RatesInv, HasKey
    <3>2. PICK e \in OnOrBefore(p, key[p]) : val'[p] = Visible(p, <<key[p][1], e>>)
      BY <2>4 DEF UseEarlierRate, RatesInv, TypeOK
    <3> DEFINE k == <<key[p][1], e>>
    <3>3. k \in Keys /\ DayOf(k) = e /\ Visible(p, k) # 0
      BY <3>1, <3>2, KeySets DEF OnOrBefore
    <3>4. Visible(p, k) = e
      BY <3>3 DEF Visible, RatesInv, DbIsExact, WritesAreExact
    <3>5. e = DayOf(key[p])
      BY <1>3, <3>1, <3>2, <3>4
    <3>6. k = key[p]
      BY <3>1, <3>5 DEF Keys, DayOf
    <3> QED BY <3>1, <3>4, <3>5, <3>6 DEF Backed, Visible
  <2>5. ASSUME NEW q \in Procs, q # p, Begin(q) \/ Step(q) \/ Fail(q)
        PROVE  UNCHANGED <<pc[p], key[p], val[p]>>
    BY <2>5, OnlyItsOwn
  <2>6. CASE Begin(p) \/ Fail(p) \/ NbuAnswers(p) \/ NbuFails(p) \/ Cache(p) \/ Commit(p)
             \/ Rollback(p) \/ ReadRedis(p) \/ NextBackfillKey(p) \/ NextSyncKey(p)
    <3>1. pc'[p] # "cache" \/ UNCHANGED <<pc[p], key[p], val[p]>>
      BY <2>6
      DEF RatesInv, TypeOK, Goto, Begin, BeginRequest, BeginSync, BeginBackfill, Fail, ReadRedis,
          NextBackfillKey, NextSyncKey, NbuAnswers, NbuFails, Cache, Rollback, Commit, EndTransaction
    <3> QED BY <1>3, <2>1, <3>1
  <2> QED
    BY <2>1, <2>2, <2>3, <2>4, <2>5, <2>6
    DEF Next, vars, Step, Fallback, DeadlockVictim, Expire, NextDay
<1> QED BY <1>2, <1>3 DEF CacheIsBacked

\* If no sync spans midnight, whatever Redis holds of the NBU's is in the table, or
\* will be with an open transaction, or was rolled back.
THEOREM CacheFollowsTable == ASSUME ~ MidnightSync PROVE Spec => []CacheIsBacked
<1>1. RatesInv /\ [Next]_vars => RatesInv'
  BY RatesInductive
<1>2. RatesInv /\ BackedInv /\ [Next]_vars => BackedInv'
  BY BackedNext
<1>3. BackedInv => CacheIsBacked
  BY DEF BackedInv
<1> QED BY <1>1, <1>2, <1>3, InitInv, BackedInit, PTL DEF Spec

\* -------------------------------------------------------------------------
\* Requests do not deadlock among themselves.

LEMMA LocksInit == Init => LocksInv
<1> SUFFICES ASSUME Init PROVE LocksInv
  OBVIOUS
<1>1. CachesARate
  BY DEF Init, CachesARate
<1>2. WrittenIsCached
  BY DEF Init, WrittenIsCached, HasCached, NoWrites, Procs
<1>3. Acyclic
  BY DEF Init, Acyclic, WillWait, Asking, Procs
<1> QED BY <1>1, <1>2, <1>3 DEF LocksInv

\* A step of q makes no cycle if q is no request, or after it q waits for nobody, or
\* asks for no more than before.
LEMMA AcyclicStays ==
  ASSUME RatesInv, Acyclic, NEW q \in Procs,
         \A o \in Procs \ {q} : UNCHANGED <<pc[o], key[o], writes[o]>>,
         \/ q \notin Requests
         \/ \A o \in Requests : ~ WillWait(q, o)'
         \/ Asking(q)' => Asking(q) /\ UNCHANGED <<key[q], writes[q]>>
  PROVE  Acyclic'
<1> SUFFICES ASSUME NEW C \in SUBSET Requests, C # {}
             PROVE  \E p \in C : (\A o \in C : ~ WillWait(p, o)') \/ (\A o \in C : ~ WillWait(o, p)')
  BY DEF Acyclic, WillWait, Asking
<1>1. PICK p \in C : (\A o \in C : ~ WillWait(p, o)) \/ (\A o \in C : ~ WillWait(o, p))
  BY DEF Acyclic
<1>2. C \subseteq Procs
  BY DEF Procs
<1>3. CASE q \in C /\ ~ (Asking(q)' => Asking(q) /\ UNCHANGED <<key[q], writes[q]>>)
  BY <1>3
<1>4. CASE q \notin C \/ (Asking(q)' => Asking(q) /\ UNCHANGED <<key[q], writes[q]>>)
  <2>1. \A x \in C, y \in C : WillWait(x, y)' => WillWait(x, y)
    BY <1>2, <1>4 DEF WillWait, Asking
  <2> QED BY <1>1, <2>1
<1> QED BY <1>3, <1>4

LEMMA LocksStep ==
  ASSUME RatesInv, RatesInv', LocksInv, NEW q \in Procs, Begin(q) \/ Step(q) \/ Fail(q)
  PROVE  LocksInv'
<1> USE DEF LocksInv, Goto, Settle, TakeKey
<1>1. \A o \in Procs \ {q} : UNCHANGED <<pc[o], todo[o], key[o], val[o], writes[o]>>
  BY OnlyItsOwn
<1>2. CachesARate'
  <2>1. pc'[q] = "cache" => val'[q] # 0
    <3>1. CASE Upsert(q)
      BY <3>1, KeySets DEF Upsert, AfterUpsert, RatesInv, TypeOK, WritesAreExact, HasKey
    <3>2. CASE UseEarlierRate(q)
      <4>1. PICK e \in OnOrBefore(q, key[q]) : val'[q] = Visible(q, <<key[q][1], e>>)
        BY <3>2 DEF UseEarlierRate, RatesInv, TypeOK
      <4> QED BY <4>1 DEF OnOrBefore
    <3>3. CASE ReadDb(q)
      BY <3>3 DEF ReadDb, RatesInv, TypeOK
    <3>4. CASE ~ (Upsert(q) \/ UseEarlierRate(q) \/ ReadDb(q))
      <4>1. pc'[q] # "cache"
        BY <3>4 DEF RatesInv, TypeOK, Begin, BeginRequest, BeginSync, BeginBackfill, Step, Fail,
           ReadRedis, NextBackfillKey, NextSyncKey, NbuAnswers, NbuFails, Cache, Fallback,
           DeadlockVictim, Rollback, Commit, EndTransaction
      <4> QED BY <4>1
    <3> QED BY <3>1, <3>2, <3>3, <3>4
  <2> QED BY <1>1, <2>1 DEF CachesARate
<1>3. \A k \in Keys : redis[k] # 0 => redis'[k] # 0
  <2>1. CASE Cache(q)
    BY <2>1 DEF Cache, CachesARate, RatesInv, TypeOK
  <2>2. CASE ~ Cache(q)
    <3>1. UNCHANGED redis
      BY <2>2 DEF Begin, Step, Fail, ReadRedis, NextBackfillKey, NextSyncKey, ReadDb, NbuAnswers,
         NbuFails, Upsert, Fallback, UseEarlierRate, DeadlockVictim, Rollback, Commit, EndTransaction
    <3> QED BY <3>1
  <2> QED BY <2>1, <2>2
<1>4. WrittenIsCached'
  <2>1. ASSUME q \in Requests, NEW k \in Keys, HasCached(q, k)' PROVE redis'[k] # 0
    <3>1. CASE Upsert(q)
      <4>1. q \notin Backfills /\ pc'[q] = "cache" /\ key'[q] = key[q]
        BY <2>1, <3>1 DEF Upsert, AfterUpsert, RatesInv, TypeOK
      <4>2. k # key[q] /\ writes'[q][k] = writes[q][k]
        BY <2>1, <3>1, <4>1 DEF Upsert, HasCached, RatesInv, TypeOK
      <4>3. HasCached(q, k)
        BY <2>1, <3>1, <4>2 DEF HasCached, Upsert
      <4> QED BY <1>3, <2>1, <4>3 DEF WrittenIsCached
    <3>2. CASE Cache(q)
      <4>1. CASE key[q] = k
        BY <3>2, <4>1 DEF Cache, CachesARate, RatesInv, TypeOK
      <4>2. CASE key[q] # k
        <5>1. HasCached(q, k)
          BY <2>1, <3>2, <4>2 DEF HasCached, Cache
        <5> QED BY <1>3, <2>1, <5>1 DEF WrittenIsCached
      <4> QED BY <4>1, <4>2
    <3>3. CASE Commit(q) \/ Rollback(q)
      <4>1. writes'[q][k] = 0
        BY <2>1, <3>3 DEF Commit, Rollback, EndTransaction, NoWrites, RatesInv, TypeOK
      <4> QED BY <2>1, <4>1 DEF HasCached
    <3>4. CASE ~ (Upsert(q) \/ Cache(q) \/ Commit(q) \/ Rollback(q))
      <4>1. UNCHANGED writes /\ pc[q] # "cache"
        BY <3>4 DEF Begin, Step, Fail, ReadRedis, NextBackfillKey, NextSyncKey, ReadDb, NbuAnswers,
           NbuFails, Fallback, UseEarlierRate, DeadlockVictim
      <4>2. HasCached(q, k)
        BY <2>1, <4>1 DEF HasCached
      <4> QED BY <1>3, <2>1, <4>2 DEF WrittenIsCached
    <3> QED BY <3>1, <3>2, <3>3, <3>4
  <2>2. ASSUME NEW o \in Requests, o # q, NEW k \in Keys, HasCached(o, k)' PROVE redis'[k] # 0
    <3>1. HasCached(o, k)
      BY <1>1, <2>2 DEF HasCached, Procs
    <3> QED BY <1>3, <3>1 DEF WrittenIsCached
  <2> QED BY <2>1, <2>2 DEF WrittenIsCached
<1>5. Acyclic'
  <2>1. CASE ReadRedis(q) /\ redis[Head(todo[q])] = 0
    <3>1. /\ Head(todo[q]) \in Keys /\ key'[q] = Head(todo[q])
          /\ UNCHANGED <<writes, redis>>
      BY <2>1, TailAndHead DEF ReadRedis, RatesInv, TypeOK
    <3>2. \A o \in Requests : ~ WillWait(q, o)'
      BY <1>4, <2>1, <3>1 DEF WillWait, Asking, WrittenIsCached, HasCached
    <3> QED BY <1>1, <3>2, AcyclicStays
  <2>2. CASE q \notin Requests
    BY <1>1, <2>2, AcyclicStays
  <2>3. CASE ReadDb(q) \/ NbuAnswers(q) \/ NbuFails(q)
    <3>1. q \in Requests => Asking(q)
      BY <2>3 DEF Asking, ReadDb, NbuAnswers, NbuFails
    <3>2. q \in Requests => (Asking(q)' => UNCHANGED <<key[q], writes[q]>>)
      BY <2>3 DEF Asking, ReadDb, NbuAnswers, NbuFails, RatesInv, TypeOK
    <3> QED BY <1>1, <2>2, <3>1, <3>2, AcyclicStays
  <2>4. CASE /\ q \in Requests
             /\ \/ Begin(q)
                \/ ReadRedis(q) /\ redis[Head(todo[q])] # 0
                \/ Upsert(q) \/ Cache(q) \/ Fallback(q) \/ Commit(q) \/ Rollback(q)
    <3>1. ~ Asking(q)'
      BY <2>4 DEF Asking, RatesInv, TypeOK, Begin, BeginRequest, BeginSync, BeginBackfill, ReadRedis,
         Upsert, AfterUpsert, Cache, Fallback, UseEarlierRate, Commit, Rollback, EndTransaction
    <3> QED BY <1>1, <3>1, AcyclicStays
  <2> QED
    BY <2>1, <2>2, <2>3, <2>4
    DEF Step, Fail, DeadlockVictim, NextBackfillKey, NextSyncKey
<1> QED BY <1>2, <1>4, <1>5

\* Nothing but the cache changes, and nothing there that a request has put there.
LEMMA LocksFrame ==
  ASSUME LocksInv, UNCHANGED <<pc, key, val, writes>>,
         \A k \in Keys : (\E p \in Requests : HasCached(p, k)) => redis'[k] = redis[k]
  PROVE  LocksInv'
<1>1. CachesARate'
  BY DEF LocksInv, CachesARate
<1>2. WrittenIsCached'
  BY DEF LocksInv, WrittenIsCached, HasCached
<1>3. \A p, o : WillWait(p, o)' <=> WillWait(p, o)
  BY DEF WillWait, Asking
<1>4. Acyclic'
  BY <1>3 DEF LocksInv, Acyclic
<1> QED BY <1>1, <1>2, <1>4 DEF LocksInv

LEMMA LocksNext ==
  ASSUME RatesInv, RatesInv', LocksInv, [Next]_vars
  PROVE  LocksInv'
<1>1. ASSUME NEW k \in Keys, Expire(k) PROVE LocksInv'
  BY <1>1, LocksFrame DEF Expire, RatesInv, TypeOK
<1>2. CASE NextDay
  BY <1>2, LocksFrame DEF NextDay
<1>3. CASE UNCHANGED vars
  BY <1>3, LocksFrame DEF vars
<1> QED BY <1>1, <1>2, <1>3, LocksStep DEF Next

\* Requests never wait for one another in a cycle, however many there are and in
\* whatever order they write rates: in every cycle there is a sync or a backfill.
THEOREM RequestsDoNotDeadlock == ASSUME ~ MidnightSync PROVE Spec => []CyclesNeedLoad
<1>1. RatesInv /\ [Next]_vars => RatesInv'
  BY RatesInductive
<1>2. RatesInv /\ RatesInv' /\ LocksInv /\ [Next]_vars => LocksInv'
  BY LocksNext
<1>3. LocksInv => CyclesNeedLoad
  <2> SUFFICES ASSUME Acyclic, NEW C \in SUBSET Procs, Cycle(C), C \cap (Syncs \cup Backfills) = {}
               PROVE  FALSE
    BY DEF LocksInv, CyclesNeedLoad
  <2>1. C \in SUBSET Requests /\ C # {}
    BY DEF Procs, Cycle
  <2>2. \A p \in C, o \in C : Waits(p, o) => WillWait(p, o)
    BY DEF Cycle, Waits, WillWait, Asking
  <2> QED BY <2>1, <2>2 DEF Acyclic, Cycle
<1> QED BY <1>1, <1>2, <1>3, InitInv, LocksInit, PTL DEF Spec
=============================================================================
