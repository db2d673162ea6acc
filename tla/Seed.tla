-------------------------------- MODULE Seed --------------------------------
(* Startup of the api process: run_seed_if_needed, called from lifespan, with *)
(* its separately committed steps (demo user, shops, products, rates) on one  *)
(* session.  Each step looks at the database to decide whether it is needed.  *)
EXTENDS ShopClient

CONSTANTS DummyPrice,  \* price_usd of an external id of DummyJSON
          FakePrice,   \* and of FakeStore
          None

ASSUME SeedAssumption ==
  /\ DummyPrice \in [DummyIds -> Nat] /\ FakePrice \in [ToSet(FakeList) -> Nat]
  /\ None \notin Ids

VARIABLES
  user, shops,   \* the demo user, and the two shops, are in the database
  products,      \* logical products in the order they were added, with their listings
  rates,         \* the rates of the day of this start are in the database
  pc,            \* where the api process is
  session,       \* the state of the seed's session
  dummy,         \* the answer of DummyJSON, kept while FakeStore is asked
  failed         \* history: the steps that failed in this start

seedVars == <<user, shops, products, rates, pc, session, dummy, failed>>

SeedTypeOK ==
  /\ user \in BOOLEAN /\ shops \in BOOLEAN /\ rates \in BOOLEAN
  /\ products \in Seq([dummyjson : DummyIds, fakestore : ToSet(FakeList) \cup {None}])
  /\ pc \in {"stopped", "user", "shops", "products", "dummyjson", "fakestore", "rates", "serving", "down"}
  /\ session \in {"usable", "inactive"}
  /\ dummy \in Seq(DummyIds)
  /\ failed \subseteq {"shop", "products", "nbu", "rates"}

SeedInit ==
  /\ user = FALSE /\ shops = FALSE /\ rates = FALSE
  /\ products = <<>>
  /\ pc = "stopped"
  /\ session = "usable"
  /\ dummy = <<>>
  /\ failed = {}

-----------------------------------------------------------------------------
\* A later start may fall on another day, whose rates are not there yet.
Start ==
  /\ pc = "stopped"
  /\ pc' = "user"
  /\ session' = "usable"
  /\ failed' = {}
  /\ rates' \in {rates, FALSE}
  /\ UNCHANGED <<user, shops, products, dummy>>

\* One look at the users stands for the whole seed.
SeedOnlyNewDatabase ==
  /\ pc = "user"
  /\ user' = TRUE
  /\ pc' = IF user THEN "rates" ELSE "shops"
  /\ UNCHANGED <<shops, products, rates, session, dummy, failed>>

seed_demo_user ==
  /\ pc = "user"
  /\ user' = TRUE
  /\ pc' = "shops"
  /\ UNCHANGED <<shops, products, rates, session, dummy, failed>>

\* Both shops are added in one transaction, or found.
seed_shops ==
  /\ pc = "shops"
  /\ shops' = TRUE
  /\ pc' = "products"
  /\ UNCHANGED <<user, products, rates, session, dummy, failed>>

\* The products are not counted before they are added.
AddEveryTime ==
  /\ pc = "products"
  /\ pc' = "dummyjson"
  /\ fetch_products("dummyjson")
  /\ UNCHANGED <<user, shops, products, rates, session, dummy, failed>>

\* seed_products is called only if the table is empty; it asks DummyJSON first.
CountProducts ==
  /\ pc = "products"
  /\ IF products = <<>>
     THEN pc' = "dummyjson" /\ fetch_products("dummyjson")
     ELSE pc' = "rates" /\ UNCHANGED clientVars
  /\ UNCHANGED <<user, shops, products, rates, session, dummy, failed>>

DummyAnswered ==
  /\ pc = "dummyjson"
  /\ call.state = "answered"
  /\ dummy' = call.products
  /\ pc' = "fakestore"
  /\ fetch_products("fakestore")
  /\ UNCHANGED <<user, shops, products, rates, session, failed>>

Gap(x, y) == IF x < y THEN y - x ELSE x - y

\* The first of the DummyJSON products in S that are closest in price to FakeStore's f.
Nearest(d, S, f) ==
  CHOOSE i \in S : \A j \in S :
    LET gi == Gap(DummyPrice[d[i]], FakePrice[f])
        gj == Gap(DummyPrice[d[j]], FakePrice[f])
    IN gi < gj \/ (gi = gj /\ i <= j)

Attach(mapping, i, f) == [j \in DOMAIN mapping \cup {i} |-> IF j = i THEN f ELSE mapping[j]]

\* The loop does not skip the DummyJSON products that are used already.
MapReusing(d, fs) ==
  FoldLeft(LAMBDA mapping, f : Attach(mapping, Nearest(d, DOMAIN d, f), f), <<>>, fs)

\* {index of a DummyJSON product: the FakeStore product attached to it}.
map_by_nearest_price(d, fs) ==
  FoldLeft(LAMBDA mapping, f :
             LET free == DOMAIN d \ DOMAIN mapping
             IN IF free = {} THEN mapping ELSE Attach(mapping, Nearest(d, free, f), f),
           <<>>, fs)

NewProducts(d, fs) ==
  LET mapping == map_by_nearest_price(d, fs)
  IN [i \in DOMAIN d |-> [dummyjson |-> d[i],
                          fakestore |-> IF i \in DOMAIN mapping THEN mapping[i] ELSE None]]

\* FakeStore answered as well: everything is added and committed at once.
seed_products ==
  /\ pc = "fakestore"
  /\ call.state = "answered"
  /\ products' = products \o NewProducts(dummy, call.products)
  /\ dummy' = <<>>
  /\ pc' = "rates"
  /\ UNCHANGED <<user, shops, rates, session, failed>>

\* The flush or the commit fails.  The exception is caught and nothing rolls the
\* session back: every later statement on it raises PendingRollbackError.
CommitProductsFails ==
  /\ pc = "fakestore"
  /\ call.state = "answered"
  /\ session' = "inactive"
  /\ failed' = failed \cup {"products"}
  /\ dummy' = <<>>
  /\ pc' = "rates"
  /\ UNCHANGED <<user, shops, products, rates>>

\* An adapter raised: nothing was added to the session yet.
ShopFails ==
  /\ pc \in {"dummyjson", "fakestore"}
  /\ call.state = "raised"
  /\ failed' = failed \cup {"shop"}
  /\ dummy' = <<>>
  /\ pc' = "rates"
  /\ UNCHANGED <<user, shops, products, rates, session>>

sync_rates ==
  /\ pc = "rates"
  /\ rates' = (rates \/ session = "usable")
  /\ pc' = "serving"
  /\ UNCHANGED <<user, shops, products, session, dummy, failed>>

\* The NBU request, or the upsert and its commit, fails and is logged.
SyncFails(step) ==
  /\ pc = "rates"
  /\ failed' = failed \cup {step}
  /\ pc' = "serving"
  /\ UNCHANGED <<user, shops, products, rates, session, dummy>>

\* Every step of the seed is guarded like the last two.
StartupFailureIgnored ==
  /\ pc \in {"user", "shops", "products"}
  /\ pc' = CASE pc = "user" -> "shops" [] pc = "shops" -> "products" [] OTHER -> "rates"
  /\ UNCHANGED <<user, shops, products, rates, session, dummy, failed>>

\* Only the products and the rates are guarded: an error of the database in an
\* earlier step leaves lifespan, and the server does not come up.  The container
\* stays, because uvicorn's reloader waits for a changed file.
StartupFails ==
  /\ pc \in {"user", "shops", "products"}
  /\ pc' = "down"
  /\ UNCHANGED <<user, shops, products, rates, session, dummy, failed>>

\* The process dies, or is restarted: what was not committed is gone.
StopApi ==
  /\ pc # "stopped"
  /\ pc' = "stopped"
  /\ dummy' = <<>>
  /\ call' = NoCall
  /\ UNCHANGED <<list, first, moved, changes, user, shops, products, rates, session, failed>>

StartupStep ==
  \/ /\ \/ seed_demo_user \/ seed_shops \/ seed_products \/ CommitProductsFails
        \/ ShopFails \/ sync_rates \/ SyncFails("nbu") \/ SyncFails("rates") \/ StartupFails
     /\ UNCHANGED clientVars
  \/ CountProducts
  \/ DummyAnswered
  \/ pc \in {"dummyjson", "fakestore"} /\ ClientStep /\ UNCHANGED seedVars

-----------------------------------------------------------------------------
(* Properties.                                                               *)

\* "Every DummyJSON product becomes one logical product": when entries were at
\* most appended to the shop's list while it was paged, the seed has exactly one
\* product for each entry of the list it began with, across failed pages, failed
\* commits and restarts.
EveryProductOnce ==
  LET ids == [i \in DOMAIN products |-> products[i].dummyjson]
  IN products # <<>> /\ ~ moved => IsPrefix(first, ids) /\ IsInjective(ids)

\* The pairing by price leaves no FakeStore product without a partner while there
\* is a free one, uses none twice, and no product that stayed single is closer
\* in price to a FakeStore product than the partner that was chosen for it.
PairsAreNearest ==
  LET paired == {i \in DOMAIN products : products[i].fakestore # None}
      GapOf(i, f) == Gap(DummyPrice[products[i].dummyjson], FakePrice[f])
  IN /\ products # <<>> =>
          Cardinality({products[i].fakestore : i \in paired}) = Smaller(Len(products), Len(FakeList))
     /\ \A i, j \in paired : products[i].fakestore = products[j].fakestore => i = j
     /\ \A i \in paired, j \in DOMAIN products \ paired :
          GapOf(i, products[i].fakestore) <= GapOf(j, products[i].fakestore)

\* "Each step is checked on its own": when the server comes up, user and shops are
\* there, the products unless a shop or their commit failed in this start, and the
\* day's rates unless the NBU, their commit or, on the session they share, the
\* commit of the products failed.  So a start completes what an earlier one left
\* undone wherever it was interrupted.
StepsComplete ==
  pc = "serving" =>
    /\ user /\ shops
    /\ failed \cap {"shop", "products"} = {} => products # <<>>
    /\ failed \cap {"nbu", "rates", "products"} = {} => rates

\* No restart adds products to a catalogue that has some, or takes any away.
AddedOnce == [][products # <<>> => products' = products]_products

\* A startup ends, whatever the shops answer: the retries are bounded and the
\* paging goes on only while the offset is behind the total.
StartupEnds == []<>(pc \in {"stopped", "serving", "down"})
=============================================================================
