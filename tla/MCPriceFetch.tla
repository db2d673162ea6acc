---------------------------- MODULE MCPriceFetch ----------------------------
(* A small instance of PriceFetch: one shop with a listing, and one whose    *)
(* products are not mapped.                                                  *)
EXTENDS PriceFetch, TLC

CONSTANTS l1, s1, s2

MCShopOf == l1 :> s1

TaskSymmetry == Permutations(Tasks)
=============================================================================
