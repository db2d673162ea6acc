------------------------------- MODULE Service -------------------------------
(* The api process: the seed of its startup, then the watchlist requests it   *)
(* serves, with restarts at any point.  uvicorn takes requests only after     *)
(* lifespan has returned from run_seed_if_needed.                             *)
EXTENDS Seed, Watchlist

vars == <<clientVars, seedVars, watchVars>>

TypeOK == ClientTypeOK /\ SeedTypeOK /\ WatchTypeOK

Init == ClientInit /\ SeedInit /\ WatchInit

Serving == pc = "serving"

Exists(i) == i \in DOMAIN products

RequestStep(q) ==
  /\ Serving
  /\ \/ \E i \in Items : add(q, i, Exists(i)) \/ remove(q, i)
     \/ FlushAdd(q, user /\ Exists(req[q].item))
     \/ Commit(q)
     \/ LoseRequest(q)
  /\ UNCHANGED <<clientVars, seedVars>>

Startup ==
  /\ \/ StartupStep
     \/ Start /\ UNCHANGED clientVars
  /\ UNCHANGED watchVars

Next ==
  \/ Startup
  \/ StopApi /\ LoseAll
  \/ ListChanges /\ UNCHANGED <<seedVars, watchVars>>
  \/ \E q \in Requests : RequestStep(q)

Spec == Init /\ [][Next]_vars

\* The seed and the handlers await only what returns: statements, and HTTP requests
\* with a timeout.  PostgreSQL gives a key to whoever waits for it.  Nothing says
\* that the process is ever restarted or that a request arrives.
Fairness ==
  /\ WF_vars(StartupStep /\ UNCHANGED watchVars)
  /\ \A q \in Requests :
       /\ WF_vars(Serving /\ Commit(q) /\ UNCHANGED <<clientVars, seedVars>>)
       /\ SF_vars(/\ Serving
                  /\ FlushAdd(q, user /\ Exists(req[q].item))
                  /\ UNCHANGED <<clientVars, seedVars>>)

FairSpec == Spec /\ Fairness

-----------------------------------------------------------------------------
(* The inductive invariant of the proofs.                                    *)

\* The steps before the products are done, and the failures explain what is missing.
SeedInv ==
  /\ SeedTypeOK
  /\ pc \in {"shops", "products", "dummyjson", "fakestore", "rates", "serving"} => user
  /\ pc \in {"products", "dummyjson", "fakestore", "rates", "serving"} => shops
  /\ pc \in {"rates", "serving"} /\ failed \cap {"shop", "products"} = {} => products # <<>>
  /\ pc = "serving" /\ failed \cap {"nbu", "rates", "products"} = {} => rates
  /\ session # "usable" => "products" \in failed

\* Nothing was received only as long as the first page is still asked for.
FirstOrMore(c) ==
  c.state \in {"getting", "answered"} /\ c.products = <<>> => c.state = "getting" /\ c.skip = 0

\* The seed asks the shops only for an empty catalogue, and DummyJSON's answer has
\* something in it.
CallInv ==
  /\ ClientTypeOK
  /\ call.state = "getting" => call.attempt <= attempts
  /\ pc \in {"dummyjson", "fakestore"} => products = <<>> /\ call.shop = pc
  /\ pc = "dummyjson" => FirstOrMore(call)
  /\ pc = "fakestore" => dummy # <<>>

\* A list of ids without repetition that begins as DummyJSON's list did.
IsOnce(ids) == IsPrefix(first, ids) /\ IsInjective(ids)

\* As long as no entry moved, DummyJSON's pages so far are the beginning of its list.
PagingInv ==
  /\ call.shop = "dummyjson" => call.products \in Seq(DummyIds)
  /\ call.shop = "dummyjson" /\ call.state = "getting" /\ ~ moved =>
       /\ IsPrefix(first, list)
       /\ call.skip <= Len(list) /\ call.products = SubSeq(list, 1, call.skip)
  /\ call.shop = "dummyjson" /\ call.state = "answered" /\ ~ moved => IsOnce(call.products)
  /\ call.shop = "fakestore" /\ call.state = "getting" => call.products = <<>>
  /\ call.shop = "fakestore" /\ call.state = "answered" => call.products = FakeList

\* The catalogue is empty, or what the seed makes of the answers of the two shops.
CatalogInv ==
  /\ pc = "fakestore" /\ ~ moved => IsOnce(dummy)
  /\ LET ids == [i \in DOMAIN products |-> products[i].dummyjson]
     IN products # <<>> => /\ ids \in Seq(DummyIds) /\ products = NewProducts(ids, FakeList)
                           /\ ~ moved => IsOnce(ids)

\* Requests are under way only while the process serves, on products that exist.
RequestInv ==
  /\ WatchTypeOK
  /\ \A q \in Requests : req[q].state \in Busy => pc = "serving"
  /\ \A q \in Requests : req[q].state \in {"adding", "inserted"} => Exists(req[q].item)

ServiceInv == SeedInv /\ CallInv /\ PagingInv /\ CatalogInv /\ RequestInv

-----------------------------------------------------------------------------
(* Properties.                                                               *)

\* A 201 or 204 is true in the end: when the transaction of an answered request
\* ends, and was not lost with its connection or process, the product is on the
\* list (put there by this request or by one that was faster) or off it.  An insert
\* that fails after the response, on a missing user or product, breaks this: the
\* seed has to be done before requests are served, and the product looked up.
AnswersComeTrue ==
  [][\A q \in Requests :
       req[q].state \in Busy /\ req'[q].state = "done" =>
         (req[q].item \in watched' <=> req[q].state # "removing")]_vars

\* Requests for one product wait for each other's transactions and all of them end.
RequestsEnd == \A q \in Requests : []<>(req[q].state \notin Busy)
=============================================================================
