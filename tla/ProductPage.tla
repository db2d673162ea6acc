------------------------------ MODULE ProductPage ------------------------------
(* What the page of one product shows: its card, today's price in each shop   *)
(* and the price history; and which alerts on it the check task finds.  Each  *)
(* is one statement that reads the snapshots of ProductList.  Prices are in   *)
(* USD and unrounded; a shop stands for its listing of the product.           *)
EXTENDS ProductList

get_detail(p) ==
  [id |-> p, price_min |-> Row(p).price_min, price_max |-> Row(p).price_max,
   shops_count |-> Cardinality({l \in Listings : ProductOf[l] = p})]

list_watchlist_details == {get_detail(p) : p \in Products}

get_current_prices(p) == {r \in latest_price(utc_today_start) : ProductOf[r.listing] = p}

\* The snapshots with dt_from <= recorded_at <= dt_to by shop and day.
get_history(p, dt_from, dt_to) ==
  LET found == {r \in history : ProductOf[r.listing] = p /\ dt_from <= r.at /\ r.at <= dt_to}
      Group(r) == {s \in found : s.listing = r.listing /\ s.at \div DayLength = r.at \div DayLength}
  IN {[shop |-> r.listing, date |-> r.at \div DayLength,
       sum |-> SumOf(Group(r)), n |-> Cardinality(Group(r))] : r \in found}

\* The mean of the shops' averages of a day, as a fraction: a shop with many snapshots
\* weighs no more than one with a single.
MeanOf(points) ==
  LET common == FoldSet(LAMBDA q, n : q.n * n, 1, points)
  IN [sum |-> FoldSet(LAMBDA q, n : q.sum * (common \div q.n) + n, 0, points),
      n |-> common * Cardinality(points)]

\* The range ends at the first moment of date_to.
HistoryToMidnight(p, date_from, date_to) ==
  LET points == get_history(p, date_from * DayLength, date_to * DayLength)
  IN [series |-> points,
      average |-> [d \in {q.date : q \in points} |-> MeanOf({q \in points : q.date = d})]]

\* From the first moment of date_from to the last of date_to.
get_price_history(p, date_from, date_to) ==
  LET points == get_history(p, date_from * DayLength, date_to * DayLength + DayLength - 1)
  IN [series |-> points,
      average |-> [d \in {q.date : q \in points} |-> MeanOf({q \in points : q.date = d})]]

\* A price at the threshold does not count.
TriggeredBelow(p, threshold) == \E r \in latest_price(0) : ProductOf[r.listing] = p /\ r.price < threshold

\* Whether list_triggered finds an active alert on p: the least of the shops' last
\* prices, of any age, is at the threshold or below.
list_triggered(p, threshold) ==
  \E r \in latest_price(0) : ProductOf[r.listing] = p /\ r.price <= threshold

-----------------------------------------------------------------------------
(* Properties: of the snapshots alone, so stated before a walk begins.        *)

Dates == 0 .. MaxTime \div DayLength

\* The history of any range of days has one point for each shop and day with a
\* snapshot, which counts all snapshots of that shop and day, those in the first and
\* last moments of the range too, and no other point; a day's average lies between
\* its cheapest and its dearest shop.
HistoryIsComplete ==
  NotBegun => \A p \in Products, d1, d2 \in Dates :
    LET answer == get_price_history(p, d1, d2)
        Of(l, d) == {r \in Snapshots(p, (d1 .. d2) \cap {d}) : r.listing = l}
        Points(d) == {q \in answer.series : q.date = d}
    IN /\ \A l \in Listings, d \in Dates :
            {q \in Points(d) : q.shop = l} =
              IF Of(l, d) = {} THEN {}
              ELSE {[shop |-> l, date |-> d, sum |-> SumOf(Of(l, d)), n |-> Cardinality(Of(l, d))]}
       /\ DOMAIN answer.average = {d \in d1 .. d2 : Snapshots(p, {d}) # {}}
       /\ \A d \in DOMAIN answer.average :
            LET a == answer.average[d]
            IN /\ \E q \in Points(d) : q.sum * a.n <= a.sum * q.n
               /\ \E q \in Points(d) : q.sum * a.n >= a.sum * q.n

\* A product's card, its shops' prices and today's history agree on what is priced today, and
\* alerts agree with them: a minimum that the card shows at the threshold triggers,
\* and if every shop has a price of today, nothing else does.  (With a shop that has
\* none, an alert may trigger on an older price that no page shows.)
PagesAgree ==
  NotBegun => \A card \in list_watchlist_details :
    LET p == card.id
        prices == get_current_prices(p)
        Shown(x) == card.price_min # NoPrice /\ card.price_min <= x
    IN /\ {r.listing : r \in prices} = {q.shop : q \in get_price_history(p, Today, Today).series}
       /\ card.price_min = NoPrice <=> prices = {}
       /\ \A r \in prices : r.price \in card.price_min .. card.price_max
       /\ \A x \in Prices : Shown(x) => list_triggered(p, x)
       /\ Cardinality(prices) = card.shops_count =>
            \A x \in Prices : list_triggered(p, x) => Shown(x)
=============================================================================
