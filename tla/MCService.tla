------------------------------ MODULE MCService ------------------------------
(* A small instance of Service: up to three DummyJSON products in pages of    *)
(* one or two, two FakeStore products, two requests at a time.                *)
EXTENDS Service

CONSTANTS d1, d2, d3, f1, f2

\* d1 d2 grows by d3, loses d1, or gains d3 in front.
MCLists == {<<d1, d2>>, <<d1, d2, d3>>, <<d2>>, <<d3, d1, d2>>}
MCFakeList == <<f1, f2>>

\* f1 is closest to d2, and so is f2, which has to take d1.
MCDummyPrice == d1 :> 1 @@ d2 :> 5 @@ d3 :> 9
MCFakePrice == f1 :> 5 @@ f2 :> 4
MCItems == 1 .. 2

RequestSymmetry == Permutations(Requests)
=============================================================================
