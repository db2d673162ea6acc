----------------------------- MODULE PriceFetch -----------------------------
(* The price-collection tasks (app/tasks/prices.py, PriceFetcherService):    *)
(* each run is one transaction that asks every active shop for its products, *)
(* skips the listings priced within the deduplication window and inserts a   *)
(* snapshot for the others.                                                  *)
(*                                                                           *)
(* recorded_at is the column default now(): in PostgreSQL the time at which  *)
(* the transaction STARTED, while the window is measured back from the clock *)
(* at the moment a shop's products are compared.  Instead of its price a row    *)
(* carries the time at which the shop answered with it.                       *)
EXTENDS Integers, FiniteSets

CONSTANTS Shops,      \* active shops
          Listings,   \* product_shop rows
          ShopOf,     \* [Listings -> Shops]
          Tasks,      \* fetch runs that may be under way at once
          Window,     \* _DEDUP_WINDOW in ticks
          MaxRun,     \* bound: ticks a run may last
          MaxTime,    \* bound: ticks of a behaviour
          MaxCopies,  \* bound: times a shop may list one product in one answer
          MaxFaults,  \* bound: crashes, failed statements of a behaviour
          NoAnswer

Answer == [shop : Shops, read : Nat, count : [Listings -> 0 .. MaxCopies]]

ASSUME FetchAssumption ==
  /\ IsFiniteSet(Listings) /\ ShopOf \in [Listings -> Shops]
  /\ Window \in Nat \ {0}
  /\ MaxRun \in Nat /\ MaxTime \in Nat /\ MaxCopies \in Nat /\ MaxFaults \in Nat
  /\ NoAnswer \notin Answer

VARIABLES
  now,
  history,   \* committed rows of price_history
  pc,        \* "idle", "fetching" (between shops), "deciding" (a shop has answered)
  start,     \* when each run's transaction started
  todo,      \* the shops still to be asked
  answer,    \* the shop in hand, when it answered and how often it lists each listing
  buffer,    \* flushed, uncommitted rows of each run
  broken,    \* the run's transaction is in the aborted state
  result,    \* {adapter_key: records_written}
  quoted,    \* history: listings the shops offered in this run
  faults     \* history: crashes and failed statements so far

locals == <<pc, start, todo, answer, broken, result, quoted>>
vars == <<now, history, locals, buffer, faults>>

Row == [listing : Listings, at : Nat, read : Nat, task : Tasks, copy : Nat]
NoCount == [s \in Shops |-> 0]

\* What shop s may answer: only its own listings occur.
Answers(s) == {x \in [shop : {s}, read : {now}, count : [Listings -> 0..MaxCopies]] :
                 \A l \in Listings : ShopOf[l] # s => x.count[l] = 0}

TypeOK ==
  /\ now \in Nat
  /\ history \subseteq Row
  /\ pc \in [Tasks -> {"idle", "fetching", "deciding"}]
  /\ start \in [Tasks -> Nat]
  /\ todo \in [Tasks -> SUBSET Shops]
  /\ answer \in [Tasks -> Answer \cup {NoAnswer}]
  /\ buffer \in [Tasks -> SUBSET Row]
  /\ broken \in [Tasks -> BOOLEAN]
  /\ result \in [Tasks -> [Shops -> Nat]]
  /\ quoted \in [Tasks -> SUBSET Listings]
  /\ faults \in Nat

Init ==
  /\ now = 0
  /\ history = {}
  /\ pc = [t \in Tasks |-> "idle"]
  /\ start = [t \in Tasks |-> 0]
  /\ todo = [t \in Tasks |-> {}]
  /\ answer = [t \in Tasks |-> NoAnswer]
  /\ buffer = [t \in Tasks |-> {}]
  /\ broken = [t \in Tasks |-> FALSE]
  /\ result = [t \in Tasks |-> NoCount]
  /\ quoted = [t \in Tasks |-> {}]
  /\ faults = 0

-----------------------------------------------------------------------------
\* The first statement of the run (list_active) starts its transaction.
BeginFetch(t) ==
  /\ pc[t] = "idle"
  /\ pc' = [pc EXCEPT ![t] = "fetching"]
  /\ start' = [start EXCEPT ![t] = now]
  /\ todo' = [todo EXCEPT ![t] = Shops]
  /\ UNCHANGED <<now, history, answer, buffer, broken, result, quoted, faults>>

\* A shop answers; a product that is not mapped in the database is skipped.
FetchProducts(t, s, x) ==
  /\ pc[t] = "fetching"
  /\ s \in todo[t]
  /\ x \in Answers(s)
  /\ pc' = [pc EXCEPT ![t] = "deciding"]
  /\ todo' = [todo EXCEPT ![t] = @ \ {s}]
  /\ answer' = [answer EXCEPT ![t] = x]
  /\ UNCHANGED <<now, history, start, buffer, broken, result, quoted, faults>>

\* A failed shop is marked with a count that is no number of rows.
AdapterFailureMarked(t, s) ==
  /\ pc[t] = "fetching"
  /\ s \in todo[t]
  /\ todo' = [todo EXCEPT ![t] = @ \ {s}]
  /\ result' = [result EXCEPT ![t][s] = -1]
  /\ UNCHANGED <<now, history, pc, start, answer, buffer, broken, quoted, faults>>

\* The handler of a failed shop rolls back the session of the whole run.
AdapterFailureRollsBack(t, s) ==
  /\ pc[t] = "fetching"
  /\ s \in todo[t]
  /\ todo' = [todo EXCEPT ![t] = @ \ {s}]
  /\ buffer' = [buffer EXCEPT ![t] = {}]
  /\ UNCHANGED <<now, history, pc, start, answer, broken, result, quoted, faults>>

\* The adapter raised (retries used up, no adapter, malformed answer): the shop
\* counts 0 and the others go on.
AdapterFails(t, s) ==
  /\ pc[t] = "fetching"
  /\ s \in todo[t]
  /\ todo' = [todo EXCEPT ![t] = @ \ {s}]
  /\ UNCHANGED <<now, history, pc, start, answer, buffer, broken, result, quoted, faults>>

\* The comparison leaves out a snapshot taken exactly Window ago.
PricedAfter(t, since) ==
  {l \in Listings : \E x \in history \cup buffer[t] : x.listing = l /\ x.at > since}

\* The query sees the snapshots of every run, committed or not.
PricedByAnyone(t, since) ==
  {l \in Listings : \E x \in history \cup UNION {buffer[o] : o \in Tasks} :
                       x.listing = l /\ x.at >= since}

\* What the run's own transaction sees: committed rows and its own.
product_shop_ids_priced_since(t, since) ==
  {l \in Listings : \E x \in history \cup buffer[t] : x.listing = l /\ x.at >= since}

\* The rows the loop adds: recently_priced is read once, before the loop, so a
\* listing that occurs twice in the answer is added twice.
NewRows(t, recent) ==
  {x \in [listing : Listings \ recent, at : {start[t]}, read : {answer[t].read},
          task : {t}, copy : 1..MaxCopies] : x.copy <= answer[t].count[x.listing]}

WriteShop(t) ==
  /\ pc[t] = "deciding"
  /\ ~ broken[t]
  /\ LET new == NewRows(t, product_shop_ids_priced_since(t, now - Window))
     IN /\ buffer' = [buffer EXCEPT ![t] = @ \cup new]
        /\ result' = [result EXCEPT ![t][answer[t].shop] = Cardinality(new)]
  /\ quoted' = [quoted EXCEPT ![t] = @ \cup {l \in Listings : answer[t].count[l] > 0}]
  /\ answer' = [answer EXCEPT ![t] = NoAnswer]
  /\ pc' = [pc EXCEPT ![t] = "fetching"]
  /\ UNCHANGED <<now, history, start, todo, broken, faults>>

\* A SELECT fails on the server: the transaction is aborted, the exception is
\* caught for this shop, and every later statement of the run fails as well.
QueryFails(t) ==
  /\ pc[t] = "deciding"
  /\ \/ broken[t] /\ UNCHANGED faults
     \/ ~ broken[t] /\ faults < MaxFaults /\ faults' = faults + 1
  /\ broken' = [broken EXCEPT ![t] = TRUE]
  /\ buffer' = [buffer EXCEPT ![t] = {}]
  /\ quoted' = [quoted EXCEPT ![t] = {}]
  /\ answer' = [answer EXCEPT ![t] = NoAnswer]
  /\ pc' = [pc EXCEPT ![t] = "fetching"]
  /\ UNCHANGED <<now, history, start, todo, result>>

\* The locals and the session of a run that is over.
EndRun(t) ==
  /\ pc' = [pc EXCEPT ![t] = "idle"]
  /\ start' = [start EXCEPT ![t] = 0]
  /\ todo' = [todo EXCEPT ![t] = {}]
  /\ answer' = [answer EXCEPT ![t] = NoAnswer]
  /\ buffer' = [buffer EXCEPT ![t] = {}]
  /\ broken' = [broken EXCEPT ![t] = FALSE]
  /\ result' = [result EXCEPT ![t] = NoCount]
  /\ quoted' = [quoted EXCEPT ![t] = {}]
  /\ UNCHANGED now

\* The transaction of the run is gone and the task failed.
Abandon(t) ==
  /\ faults < MaxFaults
  /\ faults' = faults + 1
  /\ EndRun(t)
  /\ UNCHANGED history

\* An INSERT fails (no partition for recorded_at, numeric overflow): flush
\* deactivates the session, reading shop.adapter_key in the except clause
\* raises again, and the whole run ends.
FlushFails(t) ==
  /\ pc[t] = "deciding"
  /\ ~ broken[t]
  /\ NewRows(t, product_shop_ids_priced_since(t, now - Window)) # {}
  /\ Abandon(t)

CrashFetch(t) == pc[t] # "idle" /\ Abandon(t)

\* COMMIT of an aborted transaction is a rollback that reports no error.
CommitFetch(t) ==
  /\ pc[t] = "fetching"
  /\ todo[t] = {}
  /\ history' = history \cup IF broken[t] THEN {} ELSE buffer[t]
  /\ EndRun(t)
  /\ UNCHANGED faults

Tick ==
  /\ now < MaxTime
  /\ \A t \in Tasks : pc[t] # "idle" => now < start[t] + MaxRun
  /\ now' = now + 1
  /\ UNCHANGED <<history, locals, buffer, faults>>

TaskStep(t) ==
  \/ BeginFetch(t)
  \/ \E s \in Shops : AdapterFails(t, s) \/ \E x \in Answers(s) : FetchProducts(t, s, x)
  \/ WriteShop(t) \/ QueryFails(t) \/ FlushFails(t)
  \/ CommitFetch(t) \/ CrashFetch(t)

Next == Tick \/ \E t \in Tasks : TaskStep(t)

Spec == Init /\ [][Next]_vars

-----------------------------------------------------------------------------
(* The inductive invariant of the proofs.                                    *)

\* A run under way started no longer ago than a run may last, and what it has in hand
\* was answered since.
RunsInTime ==
  \A t \in Tasks :
    /\ pc[t] # "idle" => start[t] <= now /\ now <= start[t] + MaxRun
    /\ pc[t] = "deciding" => /\ answer[t] # NoAnswer
                             /\ start[t] <= answer[t].read /\ answer[t].read <= now
                             /\ \A l \in Listings : answer[t].count[l] > 0 => ShopOf[l] = answer[t].shop
    /\ pc[t] = "idle" => buffer[t] = {} /\ quoted[t] = {} /\ result[t] = NoCount

\* Every row was read during its run, and those of a run are dated by its start.
RowsAreRead ==
  /\ \A x \in history : x.at <= x.read /\ x.read <= x.at + MaxRun /\ x.read <= now
  /\ \A t \in Tasks : \A x \in buffer[t] :
       /\ pc[t] # "idle" /\ x.task = t /\ x.at = start[t]
       /\ start[t] <= x.read /\ x.read <= now

\* What a shop quoted is in the table, or will be with the run.
QuotedHasRow ==
  \A t \in Tasks : ~ broken[t] =>
    \A l \in quoted[t] : \E x \in history \cup buffer[t] :
      x.listing = l /\ x.at >= start[t] - Window

ToBeAsked(t) == todo[t] \cup IF pc[t] = "deciding" THEN {answer[t].shop} ELSE {}

RowsOf(S, s) == {x \in S : ShopOf[x.listing] = s}

\* A run counts the rows of each shop, and has none of a shop before it has answered.
CountsAreRows ==
  \A t \in Tasks : ~ broken[t] =>
    /\ \A s \in Shops : result[t][s] = Cardinality(RowsOf(buffer[t], s))
    /\ \A s \in ToBeAsked(t) : RowsOf(buffer[t], s) = {}
    /\ pc[t] = "deciding" => answer[t].shop \notin todo[t]

\* No run writes a row again.
RowsAreNew == \A t \in Tasks : buffer[t] \cap history = {}

\* What one task number writes of a listing does not crowd: its runs follow one another.
TaskSpacing ==
  \A t \in Tasks : \A x, y \in history \cup buffer[t] :
    x.listing = y.listing /\ x.task = y.task /\ x.at <= y.at /\ x # y =>
      y.at - x.at > Window - MaxRun

FetchInv == TypeOK /\ RunsInTime /\ RowsAreRead /\ QuotedHasRow
CountInv == CountsAreRows /\ RowsAreNew

-----------------------------------------------------------------------------
(* Properties.                                                               *)

\* latest_price_subq without `since`: the last row of a listing by recorded_at.
LatestAscending(l) ==
  {x \in history : x.listing = l /\ \A y \in history : y.listing = l => x.at <= y.at}

latest_price(l) ==
  {x \in history : x.listing = l /\ \A y \in history : y.listing = l => y.at <= x.at}

\* The documents' promise: a snapshot of a listing is not repeated within the window.
\* Two runs under way at once, in which neither sees the other's rows, do repeat it.
NoRepeatInWindow ==
  \A x, y \in history : x.listing = y.listing /\ x # y /\ x.at <= y.at => y.at - x.at > Window

\* What the code keeps of that promise.  Snapshots of a listing do not crowd: of more
\* than as many as there are runs at once, the first and the last are more than the
\* window minus the length of a run apart, because two of their runs did not overlap.
SnapshotSpacing ==
  \A l \in Listings, from \in 0 .. now :
    Cardinality({x \in history : x.listing = l /\ x.at \in from .. (from + Window - MaxRun)})
      <= Cardinality(Tasks)

\* The rows are ordered by the start of their runs and not by when the shop was
\* asked: the price served as the latest may be older than another one stored, but
\* by no more than the length of a run.
ServedIsRecent ==
  \A l \in Listings : \A x \in latest_price(l), y \in history :
    y.listing = l => y.read <= x.read + MaxRun

\* A finished run reports, shop by shop, the number of rows it committed:
\* neither a failed shop nor a failed flush leaves a count without its rows.
\* A run whose transaction a failed SELECT had aborted is left out: its counts
\* survive the silent rollback.
ReportedIsStored ==
  [][\A t \in Tasks : CommitFetch(t) /\ ~ broken[t] => \A s \in Shops :
       result[t][s] = Cardinality(RowsOf(history' \ history, s))]_vars

\* When a run commits, every listing a shop offered it has a committed snapshot
\* no older than the window plus a run, written by it or by the run for which
\* it was deduplicated; a deduplicated price is never lost with another run.
QuotedIsFresh ==
  [][\A t \in Tasks : CommitFetch(t) /\ ~ broken[t] =>
       \A l \in quoted[t] : \E x \in history' :
          x.listing = l /\ x.at >= now - Window - MaxRun]_vars
=============================================================================
