--------------------------- MODULE ExchangeRates ---------------------------
(* The NBU rates (CurrencyService): looked up in Redis, then in the table    *)
(* exchange_rates, then at the NBU, with an earlier rate of the table as a   *)
(* last resort; loaded by the daily sync and by the backfill script.  Every  *)
(* API request, sync and backfill is one transaction; Redis is written at    *)
(* once and is not rolled back.                                              *)
(*                                                                           *)
(* A key is a currency and a day.  The rate that the NBU published for a key *)
(* is represented by its day: the rate of <<c, d>> is d, and 0 stands for    *)
(* "no rate".                                                                *)
EXTENDS Naturals, Sequences, FiniteSets

CONSTANTS MaxCurrency,   \* SYNC_CURRENCIES are 1 (USD), 2, ... in their order
          MaxDay,        \* bound: days of a behaviour
          MaxPoints,     \* bound: amounts that a request converts
          MaxRuns,       \* bound: transactions of a behaviour
          Requests,      \* API requests of a behaviour
          Syncs,         \* sync_today_rates runs (task or startup)
          Backfills,     \* sync_historical_rates runs
          MidnightSync,  \* whether midnight may pass while a sync asks the NBU
          MayFail        \* whether a transaction may roll back for outside reasons

ASSUME RatesAssumption ==
  /\ MaxCurrency \in Nat \ {0} /\ MaxDay \in Nat \ {0} /\ MaxPoints \in Nat \ {0}
  /\ MaxRuns \in Nat
  /\ MidnightSync \in BOOLEAN /\ MayFail \in BOOLEAN
  /\ Requests \cap Syncs = {} /\ Requests \cap Backfills = {} /\ Syncs \cap Backfills = {}

Currencies == 1..MaxCurrency
Days == 1..MaxDay
Keys == Currencies \X Days
Rates == 0..MaxDay
Procs == Requests \cup Syncs \cup Backfills

DayOf(k) == k[2]

VARIABLES
  today,
  db,       \* [Keys -> Rates], committed rows
  redis,    \* [Keys -> Rates]
  expires,  \* keys with a TTL
  pc,       \* where each transaction is in get_rate or in its loop
  todo,     \* the keys it has still to look up or to store, in order
  key, val, \* the key and the rate in hand
  writes,   \* its uncommitted upserts: it holds the locks of these rows
  lost      \* history: keys whose upsert was rolled back

vars == <<today, db, redis, expires, pc, todo, key, val, writes, lost>>

NoKey == <<0, 0>>
NoWrites == [k \in Keys |-> 0]

Places == {"idle", "next", "db", "nbu", "upsert", "cache", "fallback", "done"}

TypeOK ==
  /\ today \in Days
  /\ db \in [Keys -> Rates] /\ redis \in [Keys -> Rates]
  /\ expires \subseteq Keys
  /\ pc \in [Procs -> Places]
  /\ todo \in [Procs -> Seq(Keys)]
  /\ key \in [Procs -> Keys \cup {NoKey}] /\ val \in [Procs -> Rates]
  /\ writes \in [Procs -> [Keys -> Rates]]
  /\ lost \subseteq Keys

Init ==
  /\ today = 1
  /\ db = NoWrites /\ redis = NoWrites
  /\ expires = {}
  /\ pc = [p \in Procs |-> "idle"]
  /\ todo = [p \in Procs |-> <<>>]
  /\ key = [p \in Procs |-> NoKey] /\ val = [p \in Procs |-> 0]
  /\ writes = [p \in Procs |-> NoWrites]
  /\ lost = {}

Goto(p, l) == pc' = [pc EXCEPT ![p] = l]

\* exchange_rates as transaction p sees it.
Visible(p, k) == IF writes[p][k] # 0 THEN writes[p][k] ELSE db[k]

\* The dates up to k's for which p finds a rate of k's currency in the table.
OnOrBefore(p, k) == {e \in 1..DayOf(k) : Visible(p, <<k[1], e>>) # 0}

Locked(p, k) == \E o \in Procs \ {p} : writes[o][k] # 0

-----------------------------------------------------------------------------
(* Beginning.                                                                *)

\* The keys of some currencies for one day after another.
Lookups(currencies, days) ==
  [i \in 1..(Len(days) * Len(currencies)) |->
    <<currencies[((i - 1) % Len(currencies)) + 1], days[((i - 1) \div Len(currencies)) + 1]>>]

SYNC_CURRENCIES == [c \in Currencies |-> c]

\* A request converts the amounts of some points (those of a price history come
\* shop by shop, so days repeat and are in any order) into UAH, which needs the
\* rate of USD, or into another currency, which needs both.
BeginRequest(p) ==
  /\ p \in Requests
  /\ \E n \in 1..MaxPoints : \E points \in [1..n -> 1..today] :
       \/ todo' = [todo EXCEPT ![p] = Lookups(<<1>>, points)]
       \/ \E c \in Currencies \ {1} : todo' = [todo EXCEPT ![p] = Lookups(<<1, c>>, points)]
  /\ Goto(p, "next")

\* A sync notes the date and asks the NBU for the rates of all currencies.
BeginSync(p) ==
  /\ p \in Syncs
  /\ todo' = [todo EXCEPT ![p] = Lookups(SYNC_CURRENCIES, <<today>>)]
  /\ Goto(p, "nbu")

\* A backfill walks a range of days, and the currencies of each.
BeginBackfill(p) ==
  /\ p \in Backfills
  /\ \E from, to \in 1..today :
       /\ from <= to
       /\ todo' = [todo EXCEPT ![p] =
            Lookups(SYNC_CURRENCIES, [i \in 1..(to - from + 1) |-> from + i - 1])]
  /\ Goto(p, "next")

Begin(p) ==
  /\ pc[p] = "idle"
  /\ Cardinality({o \in Procs : pc[o] # "idle"}) < MaxRuns
  /\ BeginRequest(p) \/ BeginSync(p) \/ BeginBackfill(p)
  /\ UNCHANGED <<today, db, redis, expires, key, val, writes, lost>>

-----------------------------------------------------------------------------
(* The steps of a transaction.                                               *)

TakeKey(p) == /\ key' = [key EXCEPT ![p] = Head(todo[p])]
              /\ todo' = [todo EXCEPT ![p] = Tail(todo[p])]

\* The key in hand is settled.
Settle(p) == key' = [key EXCEPT ![p] = NoKey]

\* get_rate asks Redis first; a hit is the answer.
ReadRedis(p) ==
  /\ p \in Requests /\ pc[p] = "next" /\ todo[p] # <<>>
  /\ IF redis[Head(todo[p])] # 0
       THEN todo' = [todo EXCEPT ![p] = Tail(todo[p])] /\ UNCHANGED <<pc, key>>
       ELSE TakeKey(p) /\ Goto(p, "db")
  /\ UNCHANGED <<today, db, redis, expires, val, writes, lost>>

NextBackfillKey(p) ==
  /\ p \in Backfills /\ pc[p] = "next" /\ todo[p] # <<>>
  /\ TakeKey(p)
  /\ Goto(p, "db")
  /\ UNCHANGED <<today, db, redis, expires, val, writes, lost>>

\* A sync stores the rates of the answer, and skips the currencies it lacks.
NextSyncKey(p) ==
  /\ p \in Syncs /\ pc[p] = "next" /\ todo[p] # <<>>
  /\ \/ TakeKey(p) /\ Goto(p, "upsert")
     \/ todo' = [todo EXCEPT ![p] = Tail(todo[p])] /\ UNCHANGED <<pc, key>>
  /\ UNCHANGED <<today, db, redis, expires, val, writes, lost>>

\* The exact date in the table: a request caches it, a backfill skips the day.
ReadDb(p) ==
  /\ pc[p] = "db"
  /\ LET r == Visible(p, key[p])
     IN \/ r = 0 /\ Goto(p, "nbu") /\ UNCHANGED <<key, val>>
        \/ /\ r # 0 /\ p \in Requests
           /\ Goto(p, "cache") /\ val' = [val EXCEPT ![p] = r]
           /\ UNCHANGED key
        \/ r # 0 /\ p \in Backfills /\ Goto(p, "next") /\ Settle(p) /\ UNCHANGED val
  /\ UNCHANGED <<today, db, redis, expires, todo, writes, lost>>

\* The on-demand request asks for the latest rate instead of the day's.
NbuAnswersLatest(p) ==
  /\ pc[p] = "nbu"
  /\ val' = [val EXCEPT ![p] = today]
  /\ Goto(p, IF p \in Syncs THEN "next" ELSE "upsert")
  /\ UNCHANGED <<today, db, redis, expires, todo, key, writes, lost>>

\* The bulk answer already carries the rates of the next day.
NbuAnswersTomorrow(p) ==
  /\ pc[p] = "nbu"
  /\ val' = [val EXCEPT ![p] = IF p \in Syncs THEN today + 1 ELSE DayOf(key[p])]
  /\ Goto(p, IF p \in Syncs THEN "next" ELSE "upsert")
  /\ UNCHANGED <<today, db, redis, expires, todo, key, writes, lost>>

\* The NBU answers: for the given date, or, in bulk, with its current rates.
NbuAnswers(p) ==
  /\ pc[p] = "nbu"
  /\ val' = [val EXCEPT ![p] = IF p \in Syncs THEN today ELSE DayOf(key[p])]
  /\ Goto(p, IF p \in Syncs THEN "next" ELSE "upsert")
  /\ UNCHANGED <<today, db, redis, expires, todo, key, writes, lost>>

\* No answer, an error or a malformed answer: a request looks for an earlier
\* rate, a backfill goes on to the next key, a sync stores nothing.
NbuFails(p) ==
  /\ pc[p] = "nbu"
  /\ IF p \in Requests
       THEN Goto(p, "fallback") /\ UNCHANGED key
       ELSE Goto(p, "next") /\ Settle(p)
  /\ todo' = IF p \in Syncs THEN [todo EXCEPT ![p] = <<>>] ELSE todo
  /\ UNCHANGED <<today, db, redis, expires, val, writes, lost>>

\* What follows an upsert: a backfill does not touch Redis.
AfterUpsert(p) ==
  IF p \in Backfills THEN Goto(p, "next") /\ Settle(p) ELSE Goto(p, "cache") /\ UNCHANGED key

\* The rate is cached but the row is not written.
SkipUpsert(p) ==
  /\ pc[p] = "upsert"
  /\ ~ Locked(p, key[p])
  /\ AfterUpsert(p)
  /\ UNCHANGED <<today, db, redis, expires, todo, val, writes, lost>>

\* A request goes on without caching what it wrote; its key stays a miss.
UpsertWithoutCache(p) ==
  /\ pc[p] = "upsert"
  /\ ~ Locked(p, key[p])
  /\ writes' = [writes EXCEPT ![p][key[p]] = val[p]]
  /\ Goto(p, "next") /\ Settle(p)
  /\ UNCHANGED <<today, db, redis, expires, todo, val, lost>>

\* INSERT ... ON CONFLICT DO UPDATE: waits while another transaction has
\* written the row.
Upsert(p) ==
  /\ pc[p] = "upsert"
  /\ ~ Locked(p, key[p])
  /\ writes' = [writes EXCEPT ![p][key[p]] = val[p]]
  /\ AfterUpsert(p)
  /\ UNCHANGED <<today, db, redis, expires, todo, val, lost>>

\* _cache: a TTL only if the date is today's when the key is set.
Cache(p) ==
  /\ pc[p] = "cache"
  /\ redis' = [redis EXCEPT ![key[p]] = val[p]]
  /\ expires' = IF DayOf(key[p]) = today THEN expires \cup {key[p]} ELSE expires \ {key[p]}
  /\ Goto(p, "next") /\ Settle(p)
  /\ UNCHANGED <<today, db, todo, val, writes, lost>>

EndTransaction(p) ==
  /\ Goto(p, "done")
  /\ todo' = [todo EXCEPT ![p] = <<>>]
  /\ Settle(p)
  /\ val' = [val EXCEPT ![p] = 0]
  /\ writes' = [writes EXCEPT ![p] = NoWrites]
  /\ UNCHANGED <<today, redis, expires>>

Rollback(p) ==
  /\ lost' = lost \cup {k \in Keys : writes[p][k] # 0}
  /\ EndTransaction(p)
  /\ UNCHANGED db

\* get_rate_on_or_before found the nearest earlier rate: cached like any other.
UseEarlierRate(p) ==
  \E e \in OnOrBefore(p, key[p]) :
    /\ \A f \in OnOrBefore(p, key[p]) : f <= e
    /\ val' = [val EXCEPT ![p] = Visible(p, <<key[p][1], e>>)]
    /\ Goto(p, "cache")
    /\ UNCHANGED <<today, db, redis, expires, todo, key, writes, lost>>

\* Without an earlier rate the NBU is asked again until it answers.
FallbackRetries(p) ==
  /\ pc[p] = "fallback"
  /\ \/ UseEarlierRate(p)
     \/ /\ OnOrBefore(p, key[p]) = {}
        /\ Goto(p, "nbu")
        /\ UNCHANGED <<today, db, redis, expires, todo, key, val, writes, lost>>

\* Without an earlier rate get_rate raises and the request fails.
Fallback(p) ==
  /\ pc[p] = "fallback"
  /\ UseEarlierRate(p) \/ (OnOrBefore(p, key[p]) = {} /\ Rollback(p))

Commit(p) ==
  /\ pc[p] = "next"
  /\ todo[p] = <<>>
  /\ db' = [k \in Keys |-> Visible(p, k)]
  /\ EndTransaction(p)
  /\ UNCHANGED lost

Fail(p) == MayFail /\ pc[p] \notin {"idle", "done"} /\ Rollback(p)

Waits(p, o) == p # o /\ pc[p] = "upsert" /\ writes[o][key[p]] # 0

\* C is a cycle: everyone in it waits for one in it and is waited for.
Cycle(C) == /\ C # {}
            /\ \A p \in C : \E o \in C : Waits(p, o)
            /\ \A p \in C : \E o \in C : Waits(o, p)

DeadlockVictim(p) ==
  /\ pc[p] = "upsert"
  /\ \E C \in SUBSET Procs : p \in C /\ Cycle(C)
  /\ Rollback(p)

\* p has stored k and cached it since.
HasCached(p, k) == writes[p][k] # 0 /\ ~ (pc[p] = "cache" /\ key[p] = k)

\* A key with a TTL expires.  The TTL starts anew each time the key is set, and a
\* request is assumed to be over within a TTL (an hour): a key that an open request
\* has set itself is still there.  A key that it only found may go at any time.
Expire(k) ==
  /\ k \in expires
  /\ \A p \in Requests : ~ HasCached(p, k)
  /\ redis' = [redis EXCEPT ![k] = 0]
  /\ expires' = expires \ {k}
  /\ UNCHANGED <<today, db, pc, todo, key, val, writes, lost>>

NextDay ==
  /\ today < MaxDay
  /\ MidnightSync \/ \A p \in Syncs : pc[p] # "nbu"
  /\ today' = today + 1
  /\ UNCHANGED <<db, redis, expires, pc, todo, key, val, writes, lost>>

Step(p) ==
  \/ ReadRedis(p) \/ NextBackfillKey(p) \/ NextSyncKey(p)
  \/ ReadDb(p) \/ NbuAnswers(p) \/ NbuFails(p) \/ Upsert(p) \/ Cache(p)
  \/ Fallback(p) \/ Commit(p) \/ DeadlockVictim(p)

Next == \/ \E p \in Procs : Begin(p) \/ Step(p) \/ Fail(p)
        \/ \E k \in Keys : Expire(k)
        \/ NextDay

Spec == Init /\ [][Next]_vars

\* As long as a transaction can take a step, one does: a statement, an HTTP request
\* with a timeout and a commit all return, and PostgreSQL breaks a cycle of locks.
FairSpec == Spec /\ WF_vars(\E p \in Procs : Step(p))

-----------------------------------------------------------------------------
(* Properties.                                                               *)

\* The table holds, for each date, the rate the NBU published for that date:
\* fallback rates and concurrent writers never get into it.
DbIsExact == \A k \in Keys : db[k] \in {0, DayOf(k)}

\* The inductive invariant behind DbIsExact: what p has written, what it is about to
\* write, and what a sync will write, belong to the day of their key.
WritesAreExact(p) ==
  /\ \A k \in Keys : writes[p][k] \in {0, DayOf(k)}
  /\ pc[p] = "upsert" => val[p] = DayOf(key[p])

HasKey(p) == /\ pc[p] \in {"db", "upsert", "cache", "fallback"} => key[p] \in Keys
             /\ pc[p] = "nbu" /\ p \notin Syncs => key[p] \in Keys

SyncStoresOneDay(p) ==
  p \in Syncs =>
    /\ pc[p] \notin {"db", "fallback"}
    /\ \A i \in DOMAIN todo[p] : DayOf(todo[p][i]) = IF pc[p] = "nbu" THEN today ELSE val[p]

RatesInv == /\ TypeOK
            /\ DbIsExact
            /\ \A p \in Procs : WritesAreExact(p) /\ HasKey(p) /\ SyncStoresOneDay(p)

\* The documents: a historical price is converted with the rate of its own
\* date, and a historical rate is cached for ever because it does not change.
HistoricalCacheIsExact ==
  \A k \in Keys : DayOf(k) < today /\ k \notin expires => redis[k] \in {0, DayOf(k)}

\* What get_rate cached from the NBU is also in the table, or will be when an
\* open transaction commits, unless that transaction was rolled back.
Backed(k) == db[k] = DayOf(k) \/ (\E p \in Procs : writes[p][k] = DayOf(k)) \/ k \in lost

CacheIsBacked == \A k \in Keys : redis[k] = DayOf(k) => Backed(k)

\* The inductive invariant behind it: so is what is about to be cached.
BackedInv ==
  /\ CacheIsBacked
  /\ \A p \in Procs : pc[p] = "cache" /\ val[p] = DayOf(key[p]) => Backed(key[p])

\* API requests never deadlock among themselves, although they write rates in
\* any order: each caches a rate right after writing it, so no other request
\* that could wait for it comes to write it.  Every cycle needs a sync or a
\* backfill, which write their rows whatever Redis holds.
CyclesNeedLoad == \A C \in SUBSET Procs : Cycle(C) => C \cap (Syncs \cup Backfills) # {}

\* The inductive invariant behind it.  p, on its way to a row that Redis did not
\* have, will wait for o, on its way to another, if o has written that row.
Asking(p) == pc[p] \in {"db", "nbu", "upsert", "fallback"}
WillWait(p, o) == p # o /\ Asking(p) /\ Asking(o) /\ writes[o][key[p]] # 0

CachesARate == \A p \in Procs : pc[p] = "cache" => val[p] # 0

WrittenIsCached == \A p \in Requests, k \in Keys : HasCached(p, k) => redis[k] # 0

Acyclic ==
  \A C \in SUBSET Requests : C # {} =>
    \E p \in C : (\A o \in C : ~ WillWait(p, o)) \/ (\A o \in C : ~ WillWait(o, p))

LocksInv == CachesARate /\ WrittenIsCached /\ Acyclic

\* No request, sync or backfill stays under way for ever, with the NBU down and
\* rows locked.
TransactionsEnd == <>[](\A p \in Procs : pc[p] \in {"idle", "done"})
=============================================================================
