------------------------------ MODULE Watchlist ------------------------------
(* The watchlist of a user: POST and DELETE requests on user_products, each   *)
(* in a transaction of its own.  The row of a POST is flushed only by the     *)
(* commit, which comes after the response; a DELETE is executed at once and   *)
(* holds the row until the commit.                                            *)
EXTENDS Naturals

CONSTANTS Requests,   \* API requests that may be under way at once
          Items,      \* products the requests name, by position in the catalogue
          NoItem

ASSUME WatchAssumption == NoItem \notin Items

VARIABLES
  watched,   \* committed rows
  req        \* the transaction of each request

watchVars == <<watched, req>>

Busy == {"adding", "inserted", "removing"}

WatchTypeOK ==
  /\ watched \subseteq Items
  /\ req \in [Requests -> [state : Busy, item : Items]
                           \cup [state : {"done", "lost"}, item : {NoItem}]]

WatchInit ==
  /\ watched = {}
  /\ req = [q \in Requests |-> [state |-> "done", item |-> NoItem]]

Open(q, state, i) == req' = [req EXCEPT ![q] = [state |-> state, item |-> i]]

End(q, state) == req' = [req EXCEPT ![q] = [state |-> state, item |-> NoItem]]

\* Another transaction has an uncommitted insertion or deletion of the row.
HeldBy(o, i) == req[o].item = i /\ req[o].state \in {"inserted", "removing"}

\* POST: the product exists and the row does not; 201 is answered.  Otherwise it
\* is a 404 or a 409, which change nothing.
add(q, i, exists) ==
  /\ req[q].state \notin Busy
  /\ exists
  /\ i \notin watched
  /\ Open(q, "adding", i)
  /\ UNCHANGED watched

\* The INSERT of the flush waits for a transaction that holds the key.  It fails on
\* the primary key if another request was faster, and on the foreign keys if the
\* user or the product is missing; the transaction is rolled back then.
FlushAdd(q, valid) ==
  /\ req[q].state = "adding"
  /\ \A o \in Requests \ {q} : ~ HeldBy(o, req[q].item)
  /\ IF valid /\ req[q].item \notin watched
     THEN Open(q, "inserted", req[q].item)
     ELSE End(q, "done")
  /\ UNCHANGED watched

\* DELETE: waits for another deletion of the row; 204 if there is a row to delete.
remove(q, i) ==
  /\ req[q].state \notin Busy
  /\ i \in watched
  /\ \A o \in Requests \ {q} : ~ HeldBy(o, i)
  /\ Open(q, "removing", i)
  /\ UNCHANGED watched

\* The session of a removal is neither committed nor closed.
CommitOnlyAdditions(q) ==
  /\ req[q].state = "inserted"
  /\ watched' = watched \cup {req[q].item}
  /\ End(q, "done")

Commit(q) ==
  /\ req[q].state \in {"inserted", "removing"}
  /\ watched' = IF req[q].state = "inserted" THEN watched \cup {req[q].item}
                                              ELSE watched \ {req[q].item}
  /\ End(q, "done")

\* The connection or the commit fails after the response was sent.
LoseRequest(q) ==
  /\ req[q].state \in Busy
  /\ End(q, "lost")
  /\ UNCHANGED watched

\* The process is gone, and with it every open transaction.
LoseAll ==
  /\ req' = [q \in Requests |->
               IF req[q].state \in Busy THEN [state |-> "lost", item |-> NoItem] ELSE req[q]]
  /\ UNCHANGED watched
=============================================================================
