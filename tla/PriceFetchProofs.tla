--------------------------- MODULE PriceFetchProofs ---------------------------
(* Theorems of module PriceFetch, for any number of shops, listings and       *)
(* overlapping runs, and any window.                                          *)
EXTENDS PriceFetch, FiniteSetTheorems, TLAPS

USE FetchAssumption

\* An answer adds finitely many rows.
LEMMA NewRowsFinite ==
  ASSUME NEW t \in Tasks, NEW recent
  PROVE  Cardinality(NewRows(t, recent)) \in Nat
<1> DEFINE pair == [x \in NewRows(t, recent) |-> <<x.listing, x.copy>>]
<1>1. pair \in Injection(NewRows(t, recent), Listings \X (1 .. MaxCopies))
  <2>1. \A x \in NewRows(t, recent) : x.listing \in Listings /\ x.copy \in 1 .. MaxCopies
    BY DEF NewRows
  <2>2. \A x, y \in NewRows(t, recent) : x.listing = y.listing /\ x.copy = y.copy => x = y
    BY DEF NewRows
  <2> QED BY <2>1, <2>2 DEF Injection, IsInjective
<1>2. IsFiniteSet(Listings \X (1 .. MaxCopies))
  <2>1. IsFiniteSet(1 .. MaxCopies)
    BY FS_Interval
  <2> QED BY <2>1, FS_Product
<1> HIDE DEF pair
<1> QED BY <1>1, <1>2, FS_Injection, FS_CardinalityType

\* What an answer adds: unpriced listings of the shop that answered, dated by the run.
LEMMA NewRowsLemma ==
  ASSUME FetchInv, NEW t \in Tasks, pc[t] = "deciding", NEW recent
  PROVE  /\ NewRows(t, recent) \subseteq Row
         /\ \A x \in NewRows(t, recent) :
              /\ x.listing \in Listings \ recent /\ ShopOf[x.listing] = answer[t].shop
              /\ x.task = t /\ x.at = start[t] /\ x.read = answer[t].read
              /\ x.copy \in 1 .. MaxCopies
         /\ \A l \in Listings \ recent : answer[t].count[l] > 0 =>
              \E x \in NewRows(t, recent) : x.listing = l
<1> DEFINE New == NewRows(t, recent)
<1>1. answer[t] \in [shop : Shops, read : Nat, count : [Listings -> 0 .. MaxCopies]]
  BY DEF FetchInv, TypeOK, RunsInTime, Answer
<1>2. ASSUME NEW x \in New PROVE x.copy <= answer[t].count[x.listing] /\ x.copy \in 1 .. MaxCopies
  BY <1>2 DEF NewRows
<1>3. ASSUME NEW x \in New PROVE ShopOf[x.listing] = answer[t].shop
  <2>1. x.listing \in Listings /\ answer[t].count[x.listing] \in Nat
    BY <1>1 DEF NewRows
  <2> QED BY <1>2, <2>1 DEF FetchInv, RunsInTime
<1>4. New \subseteq Row
  BY <1>1 DEF NewRows, Row, FetchInv, TypeOK
<1>5. ASSUME NEW l \in Listings \ recent, answer[t].count[l] > 0
      PROVE  \E x \in New : x.listing = l
  <2> DEFINE x == [listing |-> l, at |-> start[t], read |-> answer[t].read, task |-> t, copy |-> 1]
  <2>1. x \in New
    BY <1>1, <1>5 DEF NewRows
  <2> QED BY <2>1
<1> QED BY <1>2, <1>3, <1>4, <1>5 DEF NewRows

LEMMA FetchInit == Init => FetchInv /\ CountInv /\ TaskSpacing
<1> SUFFICES ASSUME Init PROVE FetchInv /\ CountInv /\ TaskSpacing
  OBVIOUS
<1> USE DEF Init
<1>1. TypeOK
  BY DEF TypeOK, NoCount
<1>2. RunsInTime /\ RowsAreRead /\ QuotedHasRow /\ RowsAreNew /\ TaskSpacing
  BY DEF RunsInTime, RowsAreRead, QuotedHasRow, RowsAreNew, TaskSpacing
<1>3. CountsAreRows
  <2>1. \A s : RowsOf({}, s) = {}
    BY DEF RowsOf
  <2> QED BY <2>1, FS_EmptySet DEF CountsAreRows, NoCount
<1> QED BY <1>1, <1>2, <1>3 DEF FetchInv, CountInv

LEMMA Keeps_BeginFetch ==
  ASSUME FetchInv, NEW t \in Tasks, BeginFetch(t)
  PROVE  FetchInv'
<1> USE DEF FetchInv, BeginFetch, locals
<1>1. TypeOK'
  BY DEF TypeOK
<1>2. RunsInTime'
  BY DEF TypeOK, RunsInTime
<1>3. RowsAreRead'
  BY DEF TypeOK, RowsAreRead
<1>4. QuotedHasRow'
  BY DEF TypeOK, QuotedHasRow, RunsInTime
<1> QED BY <1>1, <1>2, <1>3, <1>4

LEMMA Keeps_FetchProducts ==
  ASSUME FetchInv, NEW t \in Tasks, NEW s \in Shops, NEW x \in Answers(s), FetchProducts(t, s, x)
  PROVE  FetchInv'
<1> USE DEF FetchInv, FetchProducts
<1>1. TypeOK'
  BY DEF TypeOK, Answers, Answer
<1>2. RunsInTime'
  <2>1. x \in Answer /\ x.read = now /\ x.shop = s /\ x.count \in [Listings -> 0 .. MaxCopies]
    BY DEF Answers, Answer, TypeOK
  <2>2. \A l \in Listings : x.count[l] > 0 => ShopOf[l] = x.shop
    BY <2>1 DEF Answers
  <2> QED BY <2>1, <2>2 DEF TypeOK, RunsInTime
<1>3. RowsAreRead'
  BY DEF TypeOK, RowsAreRead
<1>4. QuotedHasRow'
  BY DEF TypeOK, QuotedHasRow, RowsAreRead
<1> QED BY <1>1, <1>2, <1>3, <1>4

LEMMA Keeps_AdapterFails ==
  ASSUME FetchInv, NEW t \in Tasks, NEW s \in Shops, AdapterFails(t, s)
  PROVE  FetchInv'
<1> USE DEF FetchInv, AdapterFails
<1>1. TypeOK'
  BY DEF TypeOK
<1>2. RunsInTime'
  BY DEF TypeOK, RunsInTime
<1>3. RowsAreRead'
  BY DEF TypeOK, RowsAreRead
<1>4. QuotedHasRow'
  BY DEF TypeOK, QuotedHasRow, RowsAreRead
<1> QED BY <1>1, <1>2, <1>3, <1>4

LEMMA Keeps_QueryFails ==
  ASSUME FetchInv, NEW t \in Tasks, QueryFails(t)
  PROVE  FetchInv'
<1> USE DEF FetchInv, QueryFails
<1>1. TypeOK'
  BY DEF TypeOK
<1>2. RunsInTime'
  BY DEF TypeOK, RunsInTime
<1>3. RowsAreRead'
  BY DEF TypeOK, RowsAreRead
<1>4. QuotedHasRow'
  BY DEF TypeOK, QuotedHasRow, RowsAreRead
<1> QED BY <1>1, <1>2, <1>3, <1>4

LEMMA Keeps_Abandon ==
  ASSUME FetchInv, NEW t \in Tasks, Abandon(t)
  PROVE  FetchInv'
<1> USE DEF FetchInv, Abandon, EndRun
<1>1. TypeOK'
  BY DEF TypeOK, NoCount
<1>2. RunsInTime'
  BY DEF TypeOK, RunsInTime, NoCount
<1>3. RowsAreRead'
  BY DEF TypeOK, RowsAreRead
<1>4. QuotedHasRow'
  BY DEF TypeOK, QuotedHasRow, RowsAreRead
<1> QED BY <1>1, <1>2, <1>3, <1>4

LEMMA Keeps_CommitFetch ==
  ASSUME FetchInv, NEW t \in Tasks, CommitFetch(t)
  PROVE  FetchInv'
<1> USE DEF FetchInv, CommitFetch, EndRun
<1>1. TypeOK'
  BY DEF TypeOK, NoCount
<1>2. RunsInTime'
  BY DEF TypeOK, RunsInTime, NoCount
<1>3. RowsAreRead'
  <2>1. \A x \in buffer[t] : x.at <= x.read /\ x.read <= x.at + MaxRun /\ x.read <= now
    BY DEF TypeOK, Row, RowsAreRead, RunsInTime
  <2>2. \A o \in Tasks : buffer'[o] = IF o = t THEN {} ELSE buffer[o]
    BY DEF TypeOK
  <2> QED BY <2>1, <2>2 DEF RowsAreRead, TypeOK
<1>4. QuotedHasRow'
  BY DEF TypeOK, QuotedHasRow, RowsAreRead, RunsInTime
<1> QED BY <1>1, <1>2, <1>3, <1>4

LEMMA Keeps_WriteShop ==
  ASSUME FetchInv, NEW t \in Tasks, WriteShop(t)
  PROVE  FetchInv'
<1> DEFINE recent == product_shop_ids_priced_since(t, now - Window)
<1> DEFINE new == NewRows(t, recent)
<1> USE DEF FetchInv
<1>1. /\ buffer' = [buffer EXCEPT ![t] = @ \cup new]
      /\ result' = [result EXCEPT ![t][answer[t].shop] = Cardinality(new)]
      /\ quoted' = [quoted EXCEPT ![t] = @ \cup {l \in Listings : answer[t].count[l] > 0}]
      /\ answer' = [answer EXCEPT ![t] = NoAnswer]
      /\ pc' = [pc EXCEPT ![t] = "fetching"]
      /\ pc[t] = "deciding" /\ ~ broken[t]
      /\ UNCHANGED <<now, history, start, todo, broken, faults>>
  BY DEF WriteShop
<1>2. /\ new \subseteq Row
      /\ \A x \in new : x.task = t /\ x.at = start[t] /\ x.read = answer[t].read
      /\ \A l \in Listings \ recent : answer[t].count[l] > 0 =>
           \E x \in new : x.listing = l /\ x.at = start[t]
  BY <1>1, NewRowsLemma
<1>3. Cardinality(new) \in Nat
  BY NewRowsFinite
<1>4. \A l \in recent : \E x \in history \cup buffer[t] : x.listing = l /\ x.at >= now - Window
  BY DEF product_shop_ids_priced_since
<1>5. start[t] \in Nat /\ now \in Nat /\ start[t] <= now
  BY <1>1 DEF TypeOK, RunsInTime
<1> HIDE DEF recent, new
<1>6. TypeOK'
  <2>1. answer[t].shop \in Shops
    BY <1>1 DEF TypeOK, RunsInTime, Answer
  <2>2. result' \in [Tasks -> [Shops -> Nat]]
    BY <1>1, <1>3, <2>1 DEF TypeOK
  <2>3. buffer' \in [Tasks -> SUBSET Row]
    BY <1>1, <1>2 DEF TypeOK
  <2>4. quoted' \in [Tasks -> SUBSET Listings]
    BY <1>1 DEF TypeOK
  <2>5. /\ pc' \in [Tasks -> {"idle", "fetching", "deciding"}]
        /\ answer' \in [Tasks -> Answer \cup {NoAnswer}]
    BY <1>1 DEF TypeOK
  <2> QED BY <1>1, <2>2, <2>3, <2>4, <2>5 DEF TypeOK
<1>7. RunsInTime'
  BY <1>1 DEF TypeOK, RunsInTime
<1>8. RowsAreRead'
  <2>1. start[t] <= answer[t].read /\ answer[t].read <= now
    BY <1>1 DEF RunsInTime
  <2>2. \A o \in Tasks : /\ buffer'[o] = IF o = t THEN buffer[t] \cup new ELSE buffer[o]
                        /\ pc'[o] # "idle" <=> pc[o] # "idle"
    BY <1>1 DEF TypeOK
  <2> QED BY <1>1, <1>2, <2>1, <2>2 DEF RowsAreRead
<1>9. QuotedHasRow'
  <2>1. ASSUME NEW l \in quoted'[t] PROVE \E x \in history \cup buffer'[t] :
                                          x.listing = l /\ x.at >= start[t] - Window
    <3>1. CASE l \in quoted[t]
      BY <1>1, <3>1 DEF QuotedHasRow, TypeOK
    <3>2. CASE l \in recent
      <4>1. PICK x \in history \cup buffer[t] : x.listing = l /\ x.at >= now - Window
        BY <1>4, <3>2
      <4>2. x \in Row /\ x \in history \cup buffer'[t]
        BY <1>1, <4>1 DEF TypeOK
      <4>3. x.at \in Nat
        BY <4>2 DEF Row
      <4>4. x.at >= start[t] - Window
        BY <1>5, <4>1, <4>3
      <4> QED BY <4>1, <4>2, <4>4
    <3>3. CASE l \in Listings \ recent /\ answer[t].count[l] > 0
      <4>1. PICK x \in new : x.listing = l /\ x.at = start[t]
        BY <1>2, <3>3
      <4>2. x \in history \cup buffer'[t]
        BY <1>1, <4>1 DEF TypeOK
      <4> QED BY <1>5, <4>1, <4>2
    <3> QED BY <1>1, <2>1, <3>1, <3>2, <3>3 DEF TypeOK
  <2> QED BY <1>1, <2>1 DEF QuotedHasRow, TypeOK
<1> QED BY <1>6, <1>7, <1>8, <1>9

LEMMA Keeps_Tick ==
  ASSUME FetchInv, Tick
  PROVE  FetchInv'
<1> USE DEF FetchInv, Tick, locals
<1>1. TypeOK'
  BY DEF TypeOK
<1>2. RunsInTime'
  <2>1. \A t \in Tasks : start[t] \in Nat /\ (pc[t] = "deciding" => answer[t].read \in Nat)
    BY DEF TypeOK, RunsInTime, Answer
  <2>2. now' = now + 1 /\ now \in Nat /\ UNCHANGED <<pc, start, answer, buffer, quoted, result>>
    BY DEF TypeOK
  <2> QED BY <2>1, <2>2 DEF RunsInTime
<1>3. RowsAreRead'
  BY DEF TypeOK, Row, RowsAreRead
<1>4. QuotedHasRow'
  BY DEF QuotedHasRow
<1> QED BY <1>1, <1>2, <1>3, <1>4

LEMMA FetchNext == FetchInv /\ [Next]_vars => FetchInv'
<1>1. FetchInv /\ UNCHANGED vars => FetchInv'
  BY DEF vars, locals, FetchInv, TypeOK, RunsInTime, RowsAreRead, QuotedHasRow
<1> QED
  BY <1>1, Keeps_BeginFetch, Keeps_FetchProducts, Keeps_AdapterFails, Keeps_QueryFails,
     Keeps_Abandon, Keeps_CommitFetch, Keeps_WriteShop, Keeps_Tick
  DEF Next, TaskStep, FlushFails, CrashFetch

\* -------------------------------------------------------------------------
\* Which rows there are.

\* What WriteShop does to the rows.
Written(t, new) ==
  /\ history' = history
  /\ \A o \in Tasks : buffer'[o] = IF o = t THEN buffer[t] \cup new ELSE buffer[o]
  /\ \A s \in Shops : result'[t][s] = IF s = answer[t].shop THEN Cardinality(new) ELSE result[t][s]
  /\ \A x \in new : /\ x.task = t /\ x.at = start[t] /\ x.read = answer[t].read
                    /\ ShopOf[x.listing] = answer[t].shop /\ x.copy \in 1 .. MaxCopies
  /\ \A x \in new, y \in history \cup buffer[t] : x.listing = y.listing => y.at < now - Window

LEMMA WriteShopLemma ==
  ASSUME FetchInv, NEW t \in Tasks, WriteShop(t)
  PROVE  \E new \in SUBSET Row : Written(t, new)
<1> DEFINE recent == product_shop_ids_priced_since(t, now - Window)
           new == NewRows(t, recent)
<1>1. /\ buffer' = [buffer EXCEPT ![t] = @ \cup new]
      /\ result' = [result EXCEPT ![t][answer[t].shop] = Cardinality(new)]
      /\ pc[t] = "deciding" /\ history' = history
  BY DEF WriteShop
<1>2. /\ new \subseteq Row
      /\ \A x \in new : /\ x.listing \in Listings \ recent /\ ShopOf[x.listing] = answer[t].shop
                        /\ x.task = t /\ x.at = start[t] /\ x.read = answer[t].read
                        /\ x.copy \in 1 .. MaxCopies
  BY <1>1, NewRowsLemma
<1>3. \A x \in new, y \in history \cup buffer[t] : x.listing = y.listing => y.at < now - Window
  <2>1. \A y \in history \cup buffer[t] :
          y.listing \in Listings \ recent => ~ (y.at >= now - Window)
    BY DEF product_shop_ids_priced_since
  <2>2. history \cup buffer[t] \subseteq Row /\ now \in Nat
    BY DEF FetchInv, TypeOK
  <2> HIDE DEF recent, new
  <2> QED BY <1>2, <2>1, <2>2 DEF Row
<1> HIDE DEF recent, new
<1>4. \A s \in Shops : result'[t][s] = IF s = answer[t].shop THEN Cardinality(new) ELSE result[t][s]
  BY <1>1 DEF FetchInv, TypeOK
<1>5. \A o \in Tasks : buffer'[o] = IF o = t THEN buffer[t] \cup new ELSE buffer[o]
  BY <1>1 DEF FetchInv, TypeOK
<1>6. Written(t, new)
  BY <1>1, <1>2, <1>3, <1>4, <1>5 DEF Written
<1> QED BY <1>2, <1>6

\* In the other steps a row appears only where it was flushed.
LEMMA RowsMove ==
  ASSUME FetchInv, [Next]_vars, NEW o \in Tasks
  PROVE  \/ \E t \in Tasks : WriteShop(t)
         \/ history' \cup buffer'[o] \subseteq history \cup buffer[o]
         \/ \E t \in Tasks \ {o} : /\ history' \subseteq history \cup buffer[t]
                                  /\ buffer'[o] = buffer[o]
  BY DEF FetchInv, TypeOK, Next, TaskStep, vars, locals, Tick, BeginFetch, FetchProducts, AdapterFails,
     QueryFails, FlushFails, CrashFetch, CommitFetch, Abandon, EndRun

LEMMA SpacingNext ==
  ASSUME MaxCopies <= 1, MaxRun <= Window, FetchInv, TaskSpacing, [Next]_vars
  PROVE  TaskSpacing'
<1> SUFFICES ASSUME NEW o \in Tasks, NEW x \in history' \cup buffer'[o], NEW y \in history' \cup buffer'[o],
                    x.listing = y.listing, x.task = y.task, x.at <= y.at, x # y
             PROVE  y.at - x.at > Window - MaxRun
  BY DEF TaskSpacing
<1>1. ASSUME NEW t \in Tasks, x \in history \cup buffer[t], y \in history \cup buffer[t]
      PROVE  y.at - x.at > Window - MaxRun
  BY <1>1 DEF TaskSpacing
<1>2. ASSUME NEW t \in Tasks, WriteShop(t) PROVE y.at - x.at > Window - MaxRun
  <2>1. PICK new \in SUBSET Row : Written(t, new)
    BY <1>2, WriteShopLemma
  <2>2. now \in Nat /\ start[t] \in Nat /\ start[t] <= now /\ now <= start[t] + MaxRun
    BY <1>2 DEF WriteShop, FetchInv, TypeOK, RunsInTime
  <2>3. x \in Row /\ y \in Row
    BY <2>1 DEF FetchInv, TypeOK, Written
  <2>4. CASE x \in new /\ y \in new
    <3>1. x.copy = 1 /\ y.copy = 1
      BY <2>1, <2>3, <2>4 DEF Row, Written
    <3> QED BY <2>1, <2>3, <2>4, <3>1 DEF Row, Written
  <2>5. CASE x \in history \cup buffer[t] /\ y \in new
    BY <2>1, <2>2, <2>3, <2>5 DEF Row, Written
  <2>6. CASE x \in new /\ y \in history \cup buffer[t]
    BY <2>1, <2>2, <2>3, <2>6 DEF Row, Written
  <2>7. CASE o # t \/ (x \notin new /\ y \notin new)
    BY <1>1, <2>1, <2>7 DEF Written
  <2> QED BY <2>1, <2>4, <2>5, <2>6, <2>7 DEF Written
<1>3. CASE history' \cup buffer'[o] \subseteq history \cup buffer[o]
  BY <1>1, <1>3
<1>4. ASSUME NEW t \in Tasks \ {o}, history' \subseteq history \cup buffer[t], buffer'[o] = buffer[o]
      PROVE  y.at - x.at > Window - MaxRun
  <2>1. \A z \in buffer[o] : z.task = o
    BY DEF FetchInv, RowsAreRead
  <2>2. \A z \in buffer[t] : z.task = t
    BY DEF FetchInv, RowsAreRead
  <2> QED BY <1>1, <1>4, <2>1, <2>2
<1> QED BY <1>2, <1>3, <1>4, RowsMove

LEMMA RowsStayNew ==
  ASSUME MaxRun <= Window, FetchInv, RowsAreNew, [Next]_vars
  PROVE  RowsAreNew'
<1> SUFFICES ASSUME NEW o \in Tasks, NEW x \in buffer'[o], x \in history' PROVE FALSE
  BY DEF RowsAreNew
<1>1. ASSUME NEW t \in Tasks, WriteShop(t) PROVE FALSE
  <2>1. PICK new \in SUBSET Row : Written(t, new)
    BY <1>1, WriteShopLemma
  <2>2. now \in Nat /\ start[t] \in Nat /\ start[t] <= now /\ now <= start[t] + MaxRun
    BY <1>1 DEF WriteShop, FetchInv, TypeOK, RunsInTime
  <2>3. x \in new
    BY <2>1 DEF Written, RowsAreNew
  <2>4. x.at = start[t] /\ x.at < now - Window
    BY <2>1, <2>3 DEF Written
  <2> QED BY <2>2, <2>4
<1>2. CASE history' \cup buffer'[o] \subseteq history \cup buffer[o]
  <2>1. \/ UNCHANGED <<history, buffer>>
        \/ \E t \in Tasks : buffer' = [buffer EXCEPT ![t] = {}]
        \/ \E t \in Tasks : WriteShop(t)
    BY DEF Next, TaskStep, vars, locals, Tick, BeginFetch, FetchProducts, AdapterFails,
       QueryFails, FlushFails, CrashFetch, CommitFetch, Abandon, EndRun
  <2>2. buffer'[o] \subseteq buffer[o]
    BY <1>1, <2>1 DEF FetchInv, TypeOK
  <2>3. x \in buffer[o] /\ x \notin history
    BY <2>2 DEF RowsAreNew
  <2>4. history' \subseteq history \/ \E t \in Tasks : CommitFetch(t)
    BY DEF Next, TaskStep, vars, locals, Tick, BeginFetch, FetchProducts, AdapterFails, WriteShop,
       QueryFails, FlushFails, CrashFetch, Abandon
  <2>5. PICK t \in Tasks : CommitFetch(t)
    BY <2>3, <2>4
  <2>6. x \in buffer[t] /\ buffer'[t] = {}
    BY <2>3, <2>5 DEF CommitFetch, EndRun, FetchInv, TypeOK
  <2>7. t = o
    BY <2>3, <2>6 DEF FetchInv, RowsAreRead
  <2> QED BY <2>6, <2>7
<1>3. ASSUME NEW t \in Tasks \ {o}, history' \subseteq history \cup buffer[t], buffer'[o] = buffer[o]
      PROVE  FALSE
  BY <1>3 DEF FetchInv, RowsAreRead, RowsAreNew
<1> QED BY <1>1, <1>2, <1>3, RowsMove

LEMMA RowsOfNone == \A s : RowsOf({}, s) = {}
  BY DEF RowsOf

LEMMA CountsNext ==
  ASSUME FetchInv, CountsAreRows, [Next]_vars
  PROVE  CountsAreRows'
<1> USE DEF FetchInv
<1>1. ASSUME NEW t \in Tasks, BeginFetch(t) PROVE CountsAreRows'
  <2>1. buffer[t] = {} /\ pc'[t] = "fetching"
    BY <1>1 DEF BeginFetch, RunsInTime, TypeOK
  <2>2. \A s \in Shops : RowsOf(buffer[t], s) = {}
    BY <2>1, RowsOfNone
  <2> QED BY <1>1, <2>1, <2>2 DEF BeginFetch, CountsAreRows, ToBeAsked, TypeOK
<1>2. ASSUME NEW t \in Tasks, NEW s \in Shops, NEW x \in Answers(s), FetchProducts(t, s, x)
      PROVE  CountsAreRows'
  <2>1. x.shop = s
    BY DEF Answers
  <2>2. ToBeAsked(t)' = todo[t] /\ ToBeAsked(t) = todo[t] /\ answer'[t].shop \notin todo'[t]
    BY <1>2, <2>1 DEF FetchProducts, ToBeAsked, TypeOK
  <2>3. \A o \in Tasks \ {t} : UNCHANGED <<pc[o], todo[o], answer[o]>>
    BY <1>2 DEF FetchProducts, TypeOK
  <2>4. UNCHANGED <<buffer, result, broken>>
    BY <1>2 DEF FetchProducts
  <2> QED BY <2>2, <2>3, <2>4 DEF CountsAreRows, ToBeAsked
<1>3. ASSUME NEW t \in Tasks, NEW s \in Shops, AdapterFails(t, s) PROVE CountsAreRows'
  BY <1>3 DEF AdapterFails, CountsAreRows, ToBeAsked, TypeOK
<1>4. ASSUME NEW t \in Tasks, WriteShop(t) PROVE CountsAreRows'
  <2>1. PICK new \in SUBSET Row : Written(t, new)
    BY <1>4, WriteShopLemma
  <2>2. /\ pc[t] = "deciding" /\ pc'[t] = "fetching" /\ ~ broken[t]
        /\ todo' = todo /\ broken' = broken
        /\ \A o \in Tasks \ {t} : UNCHANGED <<pc[o], answer[o], buffer[o], result[o]>>
    BY <1>4 DEF WriteShop, TypeOK
  <2>3. /\ RowsOf(buffer[t], answer[t].shop) = {} /\ answer[t].shop \notin todo[t]
        /\ ToBeAsked(t)' = todo[t] /\ todo[t] \subseteq ToBeAsked(t)
    BY <2>2 DEF CountsAreRows, ToBeAsked
  <2>4. ASSUME NEW s \in Shops
        PROVE  RowsOf(buffer'[t], s) = IF s = answer[t].shop THEN new ELSE RowsOf(buffer[t], s)
    BY <2>1, <2>3 DEF RowsOf, Written
  <2>5. \A s \in Shops : result'[t][s] = Cardinality(RowsOf(buffer'[t], s))
    BY <2>1, <2>2, <2>4 DEF CountsAreRows, Written
  <2>6. \A s \in ToBeAsked(t)' : RowsOf(buffer'[t], s) = {}
    BY <2>2, <2>3, <2>4 DEF CountsAreRows, TypeOK
  <2> QED BY <2>2, <2>5, <2>6 DEF CountsAreRows, ToBeAsked
<1>5. ASSUME NEW t \in Tasks, QueryFails(t) PROVE CountsAreRows'
  <2>1. broken'[t] = TRUE
    BY <1>5 DEF QueryFails, TypeOK
  <2>2. \A o \in Tasks \ {t} : UNCHANGED <<pc[o], answer[o], buffer[o], broken[o]>>
    BY <1>5 DEF QueryFails, TypeOK
  <2>3. UNCHANGED <<todo, result>>
    BY <1>5 DEF QueryFails
  <2> QED BY <2>1, <2>2, <2>3 DEF CountsAreRows, ToBeAsked
<1>6. ASSUME NEW t \in Tasks, EndRun(t) PROVE CountsAreRows'
  <2>1. buffer'[t] = {} /\ result'[t] = NoCount /\ todo'[t] = {} /\ pc'[t] = "idle"
    BY <1>6 DEF EndRun, TypeOK
  <2>2. \A o \in Tasks \ {t} : UNCHANGED <<pc[o], todo[o], answer[o], buffer[o], broken[o], result[o]>>
    BY <1>6 DEF EndRun, TypeOK
  <2>3. \A s \in Shops : result'[t][s] = 0 /\ Cardinality(RowsOf(buffer'[t], s)) = 0
    BY <2>1, RowsOfNone, FS_EmptySet DEF NoCount
  <2> QED BY <2>1, <2>2, <2>3 DEF CountsAreRows, ToBeAsked
<1>7. CASE Tick \/ UNCHANGED vars
  BY <1>7 DEF Tick, vars, locals, CountsAreRows, ToBeAsked
<1> QED
  BY <1>1, <1>2, <1>3, <1>4, <1>5, <1>6, <1>7
  DEF Next, TaskStep, FlushFails, CrashFetch, Abandon, CommitFetch

\* -------------------------------------------------------------------------

\* Runs, rows and answers keep their types, for any number of listings per answer.
THEOREM TypeCorrect == Spec => []TypeOK
<1>1. FetchInv => TypeOK
  BY DEF FetchInv
<1> QED BY <1>1, FetchInit, FetchNext, PTL DEF Spec

\* The price served as a listing's latest is older than another one stored by no more
\* than a run lasts, however many runs overlap.
THEOREM LatestIsRecent == Spec => []ServedIsRecent
<1>1. FetchInv => ServedIsRecent
  <2> SUFFICES ASSUME FetchInv, NEW l \in Listings, NEW x \in latest_price(l), NEW y \in history,
                      y.listing = l
               PROVE  y.read <= x.read + MaxRun
    BY DEF ServedIsRecent
  <2>1. x \in Row /\ y \in Row /\ x \in history /\ y.at <= x.at
    BY DEF latest_price, FetchInv, TypeOK
  <2>2. x.at <= x.read /\ y.read <= y.at + MaxRun
    BY <2>1 DEF FetchInv, RowsAreRead
  <2> QED BY <2>1, <2>2 DEF Row
<1> QED BY <1>1, FetchInit, FetchNext, PTL DEF Spec

\* When a run commits, what the shops offered it has a snapshot no older than the
\* window and a run.
THEOREM OfferedIsStored == Spec => QuotedIsFresh
<1>1. FetchInv => (\A t \in Tasks : CommitFetch(t) /\ ~ broken[t] =>
        \A l \in quoted[t] : \E x \in history' : x.listing = l /\ x.at >= now - Window - MaxRun)
  <2> SUFFICES ASSUME FetchInv, NEW t \in Tasks, CommitFetch(t), ~ broken[t], NEW l \in quoted[t]
               PROVE  \E x \in history' : x.listing = l /\ x.at >= now - Window - MaxRun
    OBVIOUS
  <2>1. PICK x \in history \cup buffer[t] : x.listing = l /\ x.at >= start[t] - Window
    BY DEF FetchInv, QuotedHasRow
  <2>2. x \in history' /\ x \in Row
    BY <2>1 DEF CommitFetch, FetchInv, TypeOK
  <2>3. start[t] \in Nat /\ now \in Nat /\ now <= start[t] + MaxRun /\ x.at \in Nat
    BY <2>2 DEF CommitFetch, FetchInv, TypeOK, RunsInTime, Row
  <2>4. x.at >= now - Window - MaxRun
    BY <2>1, <2>3
  <2> QED BY <2>1, <2>2, <2>4
<1> QED BY <1>1, FetchInit, FetchNext, PTL DEF Spec, QuotedIsFresh

\* A run that no failed SELECT has aborted reports exactly the rows it commits, if runs
\* are no longer than the deduplication window.
THEOREM ReportsAreTrue == ASSUME MaxRun <= Window PROVE Spec => ReportedIsStored
<1>1. FetchInv /\ CountInv /\ [Next]_vars => CountInv'
  BY CountsNext, RowsStayNew DEF CountInv
<1>2. CountInv => (\A t \in Tasks : CommitFetch(t) /\ ~ broken[t] =>
        \A s \in Shops : result[t][s] = Cardinality(RowsOf(history' \ history, s)))
  <2> SUFFICES ASSUME CountInv, NEW t \in Tasks, CommitFetch(t), ~ broken[t]
               PROVE  \A s \in Shops : result[t][s] = Cardinality(RowsOf(history' \ history, s))
    OBVIOUS
  <2>1. history' \ history = buffer[t]
    BY DEF CommitFetch, CountInv, RowsAreNew
  <2> QED BY <2>1 DEF CountInv, CountsAreRows
<1> QED BY <1>1, <1>2, FetchInit, FetchNext, PTL DEF Spec, ReportedIsStored

\* Snapshots of a listing do not crowd: there are no more of them in any span shorter
\* than the window by a run than there are runs at once.
THEOREM SnapshotsAreSpaced ==
  ASSUME MaxCopies <= 1, MaxRun <= Window, IsFiniteSet(Tasks)
  PROVE  Spec => []SnapshotSpacing
<1>1. FetchInv /\ TaskSpacing /\ [Next]_vars => TaskSpacing'
  BY SpacingNext
<1>2. FetchInv /\ TaskSpacing => SnapshotSpacing
  <2> SUFFICES ASSUME FetchInv, TaskSpacing, NEW l \in Listings, NEW from \in 0 .. now
               PROVE  Cardinality({x \in history : x.listing = l /\ x.at \in from .. (from + Window - MaxRun)})
                        <= Cardinality(Tasks)
    BY DEF SnapshotSpacing
  <2> DEFINE span == {x \in history : x.listing = l /\ x.at \in from .. (from + Window - MaxRun)}
             writer == [x \in span |-> x.task]
  <2>1. \A x \in span : x \in history /\ x \in Row /\ x.listing = l
                       /\ from <= x.at /\ x.at <= from + Window - MaxRun
    BY DEF FetchInv, TypeOK
  <2>2. ASSUME NEW x \in span, NEW y \in span, x.task = y.task, x # y PROVE FALSE
    <3>1. x.task \in Tasks /\ x.at \in Nat /\ y.at \in Nat /\ from \in Nat
      BY <2>1 DEF Row, FetchInv, TypeOK
    <3>2. x.at <= y.at => y.at - x.at > Window - MaxRun
      BY <2>1, <2>2, <3>1 DEF TaskSpacing
    <3>3. y.at <= x.at => x.at - y.at > Window - MaxRun
      BY <2>1, <2>2, <3>1 DEF TaskSpacing
    <3> HIDE DEF span
    <3> QED BY <2>1, <3>1, <3>2, <3>3
  <2>3. \A x \in span : x.task \in Tasks
    BY <2>1 DEF Row
  <2> HIDE DEF span
  <2>4. writer \in Injection(span, Tasks)
    BY <2>2, <2>3 DEF Injection, IsInjective
  <2>5. Cardinality(span) <= Cardinality(Tasks)
    BY <2>4, FS_Injection
  <2> QED BY <2>5 DEF span
<1> QED BY <1>1, <1>2, FetchInit, FetchNext, PTL DEF Spec
=============================================================================
