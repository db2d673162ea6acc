----------------------------- MODULE ShopClient -----------------------------
(* fetch_products of the two shop adapters: DummyJSON page by page, FakeStore *)
(* in one request, every GET through get_with_retry.  The list of DummyJSON   *)
(* may change while it is being paged.                                        *)
EXTENDS Naturals, SequencesExt

CONSTANTS Lists,      \* product lists (sequences of external ids) DummyJSON may have
          FakeList,   \* FakeStore's list
          attempts,   \* SHOP_API_RETRY_ATTEMPTS
          limit,      \* page size of DummyJSON
          MaxChanges  \* bound: changes of DummyJSON's list

DummyIds == UNION {ToSet(s) : s \in Lists}
Ids == DummyIds \cup ToSet(FakeList)

\* A shop lists an id once.  DummyJSON always lists something: an empty list would
\* be seeded as an empty catalogue, which the next start takes for one that was
\* never seeded.
ASSUME ClientAssumption ==
  /\ \A s \in Lists \cup {FakeList} : s \in Seq(Ids) /\ IsInjective(s)
  /\ <<>> \notin Lists
  /\ attempts \in Nat
  /\ limit \in Nat \ {0}
  /\ MaxChanges \in Nat

VARIABLES
  list,     \* DummyJSON's list now
  call,     \* the fetch_products call under way, or the last one
  first,    \* history: DummyJSON's list when it was last asked for its first page
  moved,    \* history: entries have been inserted or removed, not just appended, since
  changes   \* history: how often the list changed

clientVars == <<list, call, first, moved, changes>>

NoCall == [shop |-> "none", state |-> "none", skip |-> 0, attempt |-> 1, products |-> <<>>]

ClientTypeOK ==
  /\ list \in Lists /\ first \in Lists
  /\ call \in [shop : {"none", "dummyjson", "fakestore"},
               state : {"none", "getting", "answered", "raised"},
               skip : Nat, attempt : 1 .. attempts + 1, products : Seq(Ids)]
  /\ moved \in BOOLEAN
  /\ changes \in 0 .. MaxChanges

ClientInit ==
  /\ list \in Lists
  /\ first = list
  /\ call = NoCall
  /\ moved = FALSE
  /\ changes = 0

-----------------------------------------------------------------------------
\* With no attempt at all get_with_retry has no error to raise and fails on that.
fetch_products(s) ==
  /\ call' = [NoCall EXCEPT !.shop = s,
                !.state = IF attempts = 0 THEN "raised" ELSE "getting"]
  /\ first' = IF s = "dummyjson" THEN list ELSE first
  /\ moved' = (moved /\ s # "dummyjson")
  /\ UNCHANGED <<list, changes>>

Smaller(m, n) == IF m < n THEN m ELSE n

Page == IF call.shop = "fakestore" THEN FakeList
        ELSE SubSeq(list, call.skip + 1, Smaller(call.skip + limit, Len(list)))

\* The total is read from the answer that carries the page.
LastPage == call.shop = "fakestore" \/ call.skip + limit >= Len(list)

\* The loop ends at a page that does not bring the count past the total.
GetPageShort ==
  /\ call.state = "getting"
  /\ call' = [call EXCEPT !.products = @ \o Page,
                          !.skip = @ + limit,
                          !.attempt = 1,
                          !.state = IF call.shop = "fakestore" \/ call.skip + limit + 1 >= Len(list)
                                    THEN "answered" ELSE @]
  /\ UNCHANGED <<list, first, moved, changes>>

\* A 2xx answer: the page is taken, and the next one asked for unless it was the last.
GetPage ==
  /\ call.state = "getting"
  /\ call' = [call EXCEPT !.products = @ \o Page,
                          !.skip = @ + limit,
                          !.attempt = 1,
                          !.state = IF LastPage THEN "answered" ELSE @]
  /\ UNCHANGED <<list, first, moved, changes>>

\* The attempts are counted and never compared with their limit.
TransientErrorUnlimited ==
  /\ call.state = "getting"
  /\ call' = [call EXCEPT !.attempt = @ + 1]
  /\ UNCHANGED <<list, first, moved, changes>>

\* The count starts over when it has reached its limit.
TransientErrorStartsOver ==
  /\ call.state = "getting"
  /\ call' = [call EXCEPT !.attempt = IF @ >= attempts THEN 1 ELSE @ + 1]
  /\ UNCHANGED <<list, first, moved, changes>>

\* 429, 5xx or a transport error: tried again until the attempts are used up.
TransientError ==
  /\ call.state = "getting"
  /\ call' = [call EXCEPT !.attempt = @ + 1,
                          !.state = IF call.attempt >= attempts THEN "raised" ELSE @]
  /\ UNCHANGED <<list, first, moved, changes>>

\* A 3xx or another 4xx is raised at once, and so is an answer that is not as expected.
BadAnswer ==
  /\ call.state = "getting"
  /\ call' = [call EXCEPT !.state = "raised"]
  /\ UNCHANGED <<list, first, moved, changes>>

ClientStep == GetPage \/ TransientError \/ BadAnswer

ListChanges ==
  /\ changes < MaxChanges
  /\ list' \in Lists \ {list}
  /\ changes' = changes + 1
  /\ moved' = (moved \/ (call.shop = "dummyjson" /\ call.state = "getting" /\ ~ IsPrefix(list, list')))
  /\ UNCHANGED <<call, first>>
=============================================================================
