---------------------------- MODULE MCProductList ----------------------------
(* A small instance of ProductList: two products, one of them in two shops,   *)
(* three days of two ticks each, and prices around the threshold of a trend.  *)
EXTENDS ProductPage

CONSTANTS p1, p2, l1, l2, l3

MCProductOf == l1 :> p1 @@ l2 :> p1 @@ l3 :> p2
MCTitle == p1 :> 2 @@ p2 :> 1
MCPrices == {100, 102}
MCSorts == {"price_asc", "price_desc", "trend_asc", "trend_desc", "title"}
=============================================================================
