----------------------------- MODULE ProductList -----------------------------
(* What a client sees that walks through the pages of its watchlist or of the *)
(* catalogue, while fetch runs commit snapshots and midnight passes: each     *)
(* page is a request of its own, which reads rows and averages in separate    *)
(* statements, each of them with its own date.today().  Prices are in USD.    *)
EXTENDS Integers, FiniteSetsExt, SequencesExt

CONSTANTS Products, Listings,
          ProductOf,   \* [Listings -> Products]
          Title,       \* rank of a product's title, [Products -> Nat]
          Prices,
          NoPrice,
          DayLength,   \* ticks in a day
          TrendDays,   \* days of the average a trend compares with
          page_size,
          Sorts,       \* the orders asked for; "title" is the catalogue
          MaxTime,     \* bound: the last tick
          MaxRows      \* bound: snapshots

\* Only finitely many prices fit a numeric column.
ASSUME ListAssumption ==
  /\ IsFiniteSet(Products) /\ IsFiniteSet(Listings) /\ IsFiniteSet(Prices)
  /\ ProductOf \in [Listings -> Products]
  /\ \A p \in Products : \E l \in Listings : ProductOf[l] = p  \* the seed's
  /\ Title \in [Products -> Nat]
  /\ Prices \subseteq Nat /\ Prices # {} /\ NoPrice \notin Nat
  /\ {MaxTime, MaxRows} \subseteq Nat
  /\ {DayLength, TrendDays, page_size} \subseteq Nat \ {0}
  /\ Sorts \subseteq {"price_asc", "price_desc", "trend_asc", "trend_desc", "title"}

VARIABLES
  history,   \* committed snapshots
  now,
  sort,      \* the order the client asks for
  page,      \* the page it asks for next, or has asked for
  step,      \* how far that request is
  rows,      \* what its first statement returned
  today,     \* [Products -> the average of today's snapshots], from its second statement
  shown,     \* the items of all the pages so far
  quiet      \* history: no snapshot was committed, and no midnight passed, since the walk began

vars == <<history, now, sort, page, step, rows, today, shown, quiet>>

Trends == {"up", "down", "same"}
Bounds == Prices \cup {NoPrice}
NoAverage == [sum |-> 0, n |-> 0]

TypeOK ==
  /\ \A r \in history : r \in [listing : Listings, at : 0 .. MaxTime, price : Prices]
  /\ now \in 0 .. MaxTime
  /\ sort \in Sorts
  /\ page \in {1} \cup 1 .. Cardinality(Products)
  /\ step \in {"idle", "today", "prev", "count", "done"}
  /\ \A i \in DOMAIN rows :
       rows[i] \in [id : Products, price_min : Bounds, price_max : Bounds]
  /\ today \in [Products -> [sum : Nat, n : 0 .. MaxRows]]
  /\ \A i \in DOMAIN shown :
       shown[i] \in [id : Products, price_min : Bounds, price_max : Bounds, trend : Trends]
  /\ quiet \in BOOLEAN

Init ==
  /\ history = {} /\ now = 0
  /\ sort \in Sorts
  /\ page = 1 /\ step = "idle"
  /\ rows = <<>> /\ shown = <<>>
  /\ today = [p \in Products |-> NoAverage]
  /\ quiet = TRUE

-----------------------------------------------------------------------------
(* The queries.                                                              *)

utc_today_start == DayLength * (now \div DayLength)

\* The row_number is taken over all snapshots and the first of the day is kept.
LatestOfAnyDay(since) ==
  {r \in history : \A s \in history : s.listing = r.listing => s.at <= r.at}

\* The last snapshot of each listing, if it is not older than since.
latest_price(since) ==
  {r \in history : r.at >= since /\ \A s \in history : s.listing = r.listing => s.at <= r.at}

Row(p) ==
  LET quotes == {r.price : r \in {r \in latest_price(utc_today_start) : ProductOf[r.listing] = p}}
  IN [id |-> p,
      price_min |-> IF quotes = {} THEN NoPrice ELSE Min(quotes),
      price_max |-> IF quotes = {} THEN NoPrice ELSE Max(quotes)]

\* The query has no ORDER BY: the rows come in any order.
Orders == {o \in [1 .. Cardinality(Products) -> Products] : IsInjective(o)}

SumOf(S) == FoldSet(LAMBDA r, n : r.price + n, 0, S)

\* func.avg over the snapshots with from <= recorded_at < before, kept as a fraction.
Average(p, from, before) ==
  LET S == {r \in history : ProductOf[r.listing] = p /\ from <= r.at /\ r.at < before}
  IN [sum |-> SumOf(S), n |-> Cardinality(S)]

avg_today(p) == Average(p, utc_today_start, MaxTime + 1)

\* The upper end of the period is left open.
AvgSinceCutoff(p) == Average(p, utc_today_start - TrendDays * DayLength, MaxTime + 1)

avg_prev_30d(p) == Average(p, utc_today_start - TrendDays * DayLength, utc_today_start)

\* avg_today / avg_30d against 1 + 0.01 and 1 - 0.01; a missing or zero average
\* has no trend.
determine_trend(t, h) ==
  CASE t.sum # 0 /\ h.sum # 0 /\ 100 * t.sum * h.n > 101 * h.sum * t.n -> "up"
    [] t.sum # 0 /\ h.sum # 0 /\ 100 * t.sum * h.n < 99 * h.sum * t.n -> "down"
    [] OTHER -> "same"

ListItem(row, t) ==
  [id |-> row.id, price_min |-> row.price_min, price_max |-> row.price_max, trend |-> t]

-----------------------------------------------------------------------------
(* Sorting and paging.                                                       *)

\* A product without a price sorts as if it were dearer than all others.
PriceKey(x) == IF x = NoPrice THEN Max(Prices) + 1 ELSE x

TrendKey == [down |-> 0, same |-> 1, up |-> 2]

\* The descending orders by the lower bound of the range.
KeyByMinimum(item) == CASE sort \in {"price_asc", "price_desc"} -> PriceKey(item.price_min)
                        [] sort = "trend_asc" -> TrendKey[item.trend]
                        [] sort = "trend_desc" -> - TrendKey[item.trend]
                        [] sort = "title" -> Title[item.id]

Key(item) == CASE sort = "price_asc" -> PriceKey(item.price_min)
               [] sort = "price_desc" -> - PriceKey(item.price_max)
               [] sort = "trend_asc" -> TrendKey[item.trend]
               [] sort = "trend_desc" -> - TrendKey[item.trend]
               [] sort = "title" -> Title[item.id]

\* Python's sorted is stable, and reverse=True keeps equal elements in order too.
sort_items(items) ==
  LET Before(j, i) == Key(items[j]) < Key(items[i]) \/ (Key(items[j]) = Key(items[i]) /\ j < i)
      Rank(i) == Cardinality({j \in DOMAIN items : Before(j, i)}) + 1
  IN [k \in DOMAIN items |-> items[CHOOSE i \in DOMAIN items : Rank(i) = k]]

PageOf(items) ==
  LET offset == (page - 1) * page_size
  IN SubSeq(items, offset + 1, Min({offset + page_size, Len(items)}))

\* One more page is asked for when the last one was full.
RespondOneMore(items) ==
  /\ shown' = shown \o PageOf(items)
  /\ IF page * page_size <= Cardinality(Products)
     THEN page' = page + 1 /\ step' = "idle"
     ELSE page' = page /\ step' = "done"

\* The answer to one page: the client goes on while the total says there is more.
Respond(items) ==
  /\ shown' = shown \o PageOf(items)
  /\ IF page * page_size < Cardinality(Products)
     THEN page' = page + 1 /\ step' = "idle"
     ELSE page' = page /\ step' = "done"

-----------------------------------------------------------------------------
\* list_watchlist_with_prices of get_products_list.
ReadRows(o) ==
  /\ step = "idle" /\ sort # "title"
  /\ rows' = [i \in DOMAIN o |-> Row(o[i])]
  /\ step' = "today"
  /\ UNCHANGED <<history, now, sort, page, today, shown, quiet>>

ReadToday ==
  /\ step = "today"
  /\ today' = [p \in Products |-> avg_today(p)]
  /\ step' = "prev"
  /\ UNCHANGED <<history, now, sort, page, rows, shown, quiet>>

ReadPrev ==
  /\ step = "prev"
  /\ Respond(sort_items([i \in DOMAIN rows |->
               ListItem(rows[i], determine_trend(today[rows[i].id], avg_prev_30d(rows[i].id)))]))
  /\ rows' = <<>>
  /\ today' = [p \in Products |-> NoAverage]
  /\ UNCHANGED <<history, now, sort, quiet>>

\* list_catalog of get_catalog: the database sorts by title and cuts the page.
ReadCatalog(o) ==
  /\ step = "idle" /\ sort = "title"
  /\ rows' = [i \in DOMAIN o |-> Row(o[i])]
  /\ step' = "count"
  /\ UNCHANGED <<history, now, sort, page, today, shown, quiet>>

CountAll ==
  /\ step = "count"
  /\ Respond(sort_items([i \in DOMAIN rows |-> ListItem(rows[i], "same")]))
  /\ rows' = <<>>
  /\ UNCHANGED <<history, now, sort, today, quiet>>

NotBegun == step = "idle" /\ page = 1

\* A fetch run commits a snapshot (at most one for a listing in a tick).
CommitSnapshot(l, x) ==
  /\ Cardinality(history) < MaxRows
  /\ step # "done"
  /\ \A r \in history : r.listing # l \/ r.at < now
  /\ history' = history \cup {[listing |-> l, at |-> now, price |-> x]}
  /\ quiet' = (quiet /\ NotBegun)
  /\ UNCHANGED <<now, sort, page, step, rows, today, shown>>

Tick ==
  /\ now < MaxTime
  /\ step # "done"
  /\ now' = now + 1
  /\ quiet' = (quiet /\ (NotBegun \/ now' \div DayLength = now \div DayLength))
  /\ UNCHANGED <<history, sort, page, step, rows, today, shown>>

Next ==
  \/ \E o \in Orders : ReadRows(o) \/ ReadCatalog(o)
  \/ ReadToday \/ ReadPrev \/ CountAll
  \/ \E l \in Listings, x \in Prices : CommitSnapshot(l, x)
  \/ Tick

Spec == Init /\ [][Next]_vars

-----------------------------------------------------------------------------
(* Properties.  Day and Snapshots do not use the queries above.              *)

Day(r) == r.at \div DayLength
Snapshots(p, days) == {r \in history : ProductOf[r.listing] = p /\ Day(r) \in days}
Today == now \div DayLength
Before == (Today - TrendDays) .. (Today - 1)

\* A page shows the price range of the day: from the cheapest to the dearest shop
\* by each shop's last snapshot of the day, a shop without one left out, and no
\* range if no shop has one.
RangeIsOfToday ==
  quiet => \A i \in DOMAIN shown :
    LET S == Snapshots(shown[i].id, {Today})
        LastOf(l) == CHOOSE r \in S : r.listing = l /\ \A s \in S : s.listing = l => s.at <= r.at
        last == {LastOf(l).price : l \in {r.listing : r \in S}}
    IN /\ shown[i].price_min = NoPrice <=> S = {}
       /\ S # {} => /\ {shown[i].price_min, shown[i].price_max} \subseteq last
                    /\ last \subseteq shown[i].price_min .. shown[i].price_max

\* The trend tells today's snapshots from those of the days before: it is up if all
\* of today's are over a hundredth dearer than all of the days before, and only if
\* some is dearer than some; likewise down; and same if either are missing.
TrendIsJust ==
  quiet /\ sort # "title" => \A i \in DOMAIN shown :
    LET T == Snapshots(shown[i].id, {Today})
        H == Snapshots(shown[i].id, Before)
        Both == T # {} /\ H # {}
    IN /\ Both /\ (\A t \in T, h \in H : h.price > 0 /\ 100 * t.price > 101 * h.price) =>
            shown[i].trend = "up"
       /\ Both /\ (\A t \in T, h \in H : t.price > 0 /\ 100 * t.price < 99 * h.price) =>
            shown[i].trend = "down"
       /\ shown[i].trend = "up" => \E t \in T, h \in H : t.price > h.price
       /\ shown[i].trend = "down" => \E t \in T, h \in H : t.price < h.price

\* Whether a product x may be listed before y in the order asked for.
MayPrecede(x, y) ==
  CASE sort = "price_asc" -> y.price_min = NoPrice \/ (x.price_min # NoPrice /\ x.price_min <= y.price_min)
    [] sort = "price_desc" -> x.price_max = NoPrice \/ (y.price_max # NoPrice /\ x.price_max >= y.price_max)
    [] sort = "trend_asc" -> x.trend = "down" \/ x.trend = y.trend \/ y.trend = "up"
    [] sort = "trend_desc" -> x.trend = "up" \/ x.trend = y.trend \/ y.trend = "down"
    [] sort = "title" -> Title[x.id] <= Title[y.id]

Item(p) == ListItem(Row(p), determine_trend(avg_today(p), avg_prev_30d(p)))

\* The order asked for says for every two products which comes first.
NoTies == \A p, q \in Products :
            p # q => ~ (MayPrecede(Item(p), Item(q)) /\ MayPrecede(Item(q), Item(p)))

\* Each page is read and sorted anew.  A client that walks through all of them still
\* sees every product exactly once and in order, as long as nothing changes
\* meanwhile and no two products tie (with a tie the database may return them in
\* another order for the next page: one is repeated and the other left out).
WalkIsComplete ==
  step = "done" /\ quiet /\ NoTies =>
    /\ {shown[i].id : i \in DOMAIN shown} = Products
    /\ \A i, j \in DOMAIN shown : i < j =>
         shown[i].id # shown[j].id /\ MayPrecede(shown[i], shown[j])
=============================================================================
