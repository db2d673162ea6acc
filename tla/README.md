# Formal models of the price tracker

The service collects prices from two shops (DummyJSON, FakeStore), stores them
in USD, shows them in four currencies with the rates of the Ukrainian central
bank (NBU), and e-mails users (or, by default, logs the e-mail) when a product
falls to a threshold. This
directory holds TLA+ models of its concurrent parts, the TLC configurations
that check them on small instances, and proofs of the main properties that
TLAPS checks for every value of the constants.

Sources are named relative to the repository (`app/...`, `alembic/...`).

## 1. Inventory

| component | state | operations | meets |
|---|---|---|---|
| price alerts: `alert_service.py`, `alert_repo.py`, `tasks/alerts.py` | rows of `price_alerts` | create, delete (API); hourly check: select triggered, e-mail or log, deactivate, one commit | latest prices, mail server, other check runs |
| price snapshots: `price_fetcher.py`, `price_repo.py`, `tasks/prices.py` | rows of `price_history`, append only | `fetch_prices` every 4 hours: ask each shop, skip what was priced within the hour, insert; one commit | shops, partitions, other fetch runs |
| exchange rates: `currency_service.py`, `exchange_rate_repo.py`, `tasks/rates.py`, `scripts/sync_historical_rates.py` | table `exchange_rates`, Redis keys `rate:<currency>:<date>` | `get_rate` (Redis, table, NBU, earlier rate), daily sync, backfill | NBU, Redis, requests, row locks |
| partitions: `alembic/.../11f8cd6cb440_initial.py`, `_create_partition_async` | partitions of `price_history` | migration; monthly task | the calendar, beat, every insert of a price |
| startup seed: `tasks/seed.py`, `main.py` | user, shops, products, rates | on each start of `api`, each step committed on its own | shops, NBU, crashes |
| watchlist: `user_product_service.py`, `user_product_repo.py` | rows of `user_products` | add, remove, list | requests |
| HTTP retry and adapters: `http_retry.py`, `shop_adapters/` | none between calls | GET with retries, DummyJSON paging | shops, NBU |
| read side: `price_service.py`, `product_repo.py`, `price_repo.py` | none | trend, sorting, pages, product card, prices per shop, history, averages | prices, rates |
| sessions: `api/deps.py`, `db_service.py` | one transaction per request or task | commit after the response, rollback on an error | everything |
| schema: `alembic/`, `db/models/` | tables, partitions and indexes; `alembic_version` | upgrade, downgrade, one transaction per run | every statement of the others; another migration run |
| deployment: `docker-compose.yml`, `wait_for_db.py` | which containers run | `up`, `down`, wait for PostgreSQL, migrate, start, restart | crashes, outages, reboots |
| schedule: `celery_app.py` | beat's schedule, broker queue | four entries, four worker processes, messages acknowledged when a run starts | every task |
| e-mail: `core/email.py` | none | `send_email`: SMTP if `EMAIL_ENABLED`, else a line of the log | mail server |
| authentication, logging, settings, schemas | none that changes | - | - |

What makes these parts hard:

* **Overlap.** Nothing keeps two runs of a task apart (four processes, queued
  ticks after an outage, the scripts next to the scheduled tasks), and
  PostgreSQL is READ COMMITTED.
* **One commit at the end.** A check run sends its e-mails, and a fetch run asks
  its shops, inside one transaction; a crash undoes the rows but not the e-mails.
* **Two stores.** Redis is written at once and is not rolled back with the table.
* **Time.** `date.today()`, `now()` and the date an answer belongs to are read at
  different moments; `recorded_at` is the start of the transaction, the
  deduplication window ends at the comparison, the partition task works on the
  date of its run.
* **Restarts out of order.** `depends_on` orders a `docker compose up`; what Docker
  restarts after a crash or a reboot starts without it.
* **Swallowed failures.** A failed e-mail, shop or NBU request is logged and the
  loop goes on, on the same session.

Correctness, per component: an alert is reported before it is retired, retired
for good, and served in the end (alerts); a deduplicated price is never lost
and the counts are true (snapshots); the table holds each rate under its own
date and no request hangs (rates); every month has its partition (partitions);
a restart completes a partly done seed (seed); an answered change is visible and
kept (watchlist); the pages of a walk, and the pages and the alerts among
themselves, agree with the stored snapshots (read side); the schema is always that
of a revision, and nothing runs on an older one than the last (schema, deployment).

## 2. Modules

| module | models | extends |
|---|---|---|
| `AlertDelivery` | the abstract contract of the alerts: arm, notify, retire, remove | |
| `Alerts` | requests, check runs, row locks, mail, crashes | instantiates `AlertDelivery` |
| `PriceFetch` | fetch runs, deduplication, aborted transactions | |
| `ExchangeRates` | requests, syncs and backfills over several currencies and days, Redis, table, row locks | |
| `PartitionRollover` | partitions, beat, broker, monthly runs, calendar | |
| `ShopClient` | `fetch_products` of both adapters, the retries, a list that changes | |
| `Seed` | the startup seed and the api process it runs in | `ShopClient` |
| `Watchlist` | POST and DELETE requests and their transactions | |
| `Service` | startup, then requests; restarts; the specification of the three above | `Seed`, `Watchlist` |
| `ProductList` | the pages of the watchlist and the catalogue, over snapshots and midnight | |
| `ProductPage` | product card, prices per shop, price history, and the query of the alerts, over the snapshots of `ProductList` | `ProductList` |
| `Migrations` | the two revisions statement by statement, the locks the statements take, and runs of Alembic that overlap | |
| `Deployment` | the containers of docker-compose, `wait_for_db`, restarts, outages; the specification of both | `Migrations` |
| `MC...` | instances for TLC: constant functions and symmetry sets | the module named |
| `AlertsProofs`, `PriceFetchProofs`, `RatesProofs`, `PartitionProofs`, `ServiceProofs`, `ProductProofs`, `DeploymentProofs` | TLAPS proofs | the module and `TLAPS` |
| `FoldLemmas` | lemmas on finite sets, least members and folds | `FiniteSetTheorems` |

Each action is one step between two points where the process can be
interleaved: a statement, an awaited request, a commit. Python code between two
awaits is one step. Definitions keep the names of the code where it has one.

### Alerts

`status[a]` is the committed state of the row of alert `a`: no request used the
id yet, inserted but not committed, active, fired (`is_active` false), deleted.
Ids are uuid4 and no endpoint edits an alert, so product and threshold are
constants. `req` holds the open transaction of each API request, ended by
`commit_request` or `rollback_request` after the response. A check run goes
through `BeginCheck` (select the triggered rows), for each row `SendEmail`,
`EmailFails` or `EmailReplyLost`, then, after `SendEmail`, `deactivate`, which takes the row lock,
first through `WaitForRow` when another transaction holds it, and `CommitCheck`.
`CrashCheck` and `DeadlockVictim` end a run without its updates; what it mailed
stays mailed. `CommitPrices` is the effect of a fetch run. Waiting is a state of
its own because PostgreSQL gives a row to the first in the queue: without it a
run could be overtaken for ever.

`Init` chooses the deployment: `email_enabled` is `EMAIL_ENABLED`, and `bad` the alerts
whose owner's address the mail server refuses for ever. In console mode, the default
(`core/config.py:33`), `send_email` writes the e-mail to the log (`logged`) and returns, and
the alert is deactivated although nobody received anything. `Reported` says what counts
in each mode: an e-mail to the owner where e-mails are enabled, a line of the log where
they are not. `FiredWasReported` and the contract are stated with it, so in console mode
they promise a line of the log and no e-mail. A deployment keeps its mode: a restart with
another `EMAIL_ENABLED` is not modelled.

`AlertDelivery` is what the users are promised: an alert is retired only after it was
reported. `Alerts` implements it with `phase` read off `status` and `notified` the set of
`Reported` alerts.

### PriceFetch

One run is `BeginFetch`, then for each shop `FetchProducts` or `AdapterFails`,
`WriteShop` (query the recent snapshots, insert the others), and `CommitFetch`.
A snapshot carries `recorded_at`, the start of its run. `QueryFails` is a SELECT
that PostgreSQL refuses: the `except` clause of `fetch_all` goes on with an aborted
transaction, later statements fail as well, and the final COMMIT is a silent
rollback (`broken`), after which the counts of the earlier shops are still reported:
`ReportedIsStored` leaves such runs out. `FlushFails` is an INSERT that fails: the session
is deactivated and, as the handler reads an attribute of an expired object, the
run ends. `CrashFetch` is the death of the worker. In the place of its price a row
carries `read`, when the shop answered with it, so that the age of a price that is
served can be compared with `recorded_at`, by which it is found.

The repository promises that a price is not written again within an hour
(`README.md:196`, `price_fetcher.py:11`). That is `NoRepeatInWindow`, and two runs under way
at once break it (run `fetch_overlap`, with a finding). `SnapshotSpacing` is a weaker
statement, of what the code does keep: a listing has no more snapshots in a span shorter than
the window less a run's length than runs can overlap.

### ExchangeRates

A rate is represented by the day it was published for, so that a rate stored
under another date can be told from the right one. A key is a currency and a day; `todo`
are the keys a transaction has still to look up or store, in the order of the code
(`Lookups`): a request converts the amounts of some points, each with the rate of USD and,
unless into UAH, that of its currency (`BeginRequest`); a sync stores the rates of all
currencies for the date it noted (`BeginSync`, then `NextSyncKey` for each row, which does
not ask Redis); a backfill walks days and currencies (`BeginBackfill`, `NextBackfillKey`).
`ReadRedis`, `ReadDb`, `NbuAnswers`, `NbuFails`, `Upsert`, `Cache` and `Fallback` are the
stages of `get_rate`; sync and backfill take the stages their loops have. All rows
that a transaction has written stay locked until it ends: `Upsert` waits while another one
holds the row, `DeadlockVictim` is PostgreSQL's detector, and `Commit`, `Rollback` and `Fail` end
the transaction. `Expire` and `NextDay` are Redis and midnight. `Expire` rests on one
assumption: a request is over within a TTL (an hour) of what it has cached itself, so such a
key does not expire under it. A key that a request only found, an earlier
fallback of today for instance, may go at any time.

That is why `CyclesNeedLoad` speaks of syncs as well as of backfills. A request that found the
fallback of USD for today in Redis and has stored EUR of today can ask for USD again
after that key has expired, while a sync holds the new row of USD and waits for EUR: a
cycle of a request and a sync, with no backfill. Requests alone make none.

### PartitionRollover

`today` is the current month, `partitions` the tables with name and bounds.
`BeatTick` sends the month's message (late, if beat was down), `StartRun` takes it
and reads the date, `CreatePartition` executes `CREATE TABLE IF NOT EXISTS` with
`next_start` and `next_end`, branch by branch as in the code, `RunFails` loses the
run. `NextMonth` is the calendar and waits for nobody; a month that ends with a
tick unsent, a message queued or a run under way, or in which a run failed, is
recorded in `outages`. `Deploys` says when the system was set up: a new
PersistentScheduler counts from its start, so the tick of a month that is
already past is not made up for.

### ShopClient, Seed, Watchlist, Service

`call` is the `fetch_products` under way: its shop, the offset, the attempt, the
products so far. `GetPage` takes a 2xx answer, with the page and the total of the
list as it is then; `TransientError` is one more try or, with the attempts used up,
the exception; `BadAnswer` is what is raised at once. `ListChanges` is the shop.
`first` and `moved` record what is needed to say what an answer should have been.

`pc` follows `run_seed_if_needed`: each step looks at the database, adds, and commits
on its own. `seed_products` adds the products with the pairs of
`map_by_nearest_price`; `CommitProductsFails` leaves `session` inactive, because the
exception is caught and nothing rolls the session back, so that `sync_rates` does
nothing then. `StartupFails` is an error of the database in the steps that no
`try` surrounds; `StopApi` a crash or restart anywhere. Products are a sequence and
an item of the watchlist is a position in it, which stands for the product's id.

In `Watchlist`, `add` answers 201 and only adds an object to the session; `FlushAdd`
is its INSERT, executed by the commit after the response, which waits for whoever
holds the key and fails if a key is taken or missing; `remove` executes its DELETE
before the response; `Commit` and `LoseRequest` end the transaction. `Service` composes
them: requests are served only when the seed has returned, and a stopped process
loses its transactions.

### ProductList

A client asks for one page after the other while the total says that there is
more. A page of the watchlist is three statements (`ReadRows`, `ReadToday`,
`ReadPrev`), one of the catalogue two (`ReadCatalog`, `CountAll`), and
`CommitSnapshot` and `Tick` may come between any two. `latest_price`, `avg_today`,
`avg_prev_30d`, `determine_trend` and `sort_items` are the code's; averages are
fractions, so the threshold is exact, and rows come in any order where the
query has no ORDER BY. The properties are stated on the snapshots, with no use of
these operators.

`ProductPage` adds the pages of one product. Each is one statement on the same
snapshots, so it has no state of its own: `get_detail`, `get_current_prices` and
`get_price_history` are operators, and their properties hold in every state in which
`ProductList` can be before a walk begins, that is for every set of snapshots within
the bounds. `list_triggered` is the query of the check task, which looks at the last
price of any age. Prices are in USD and unrounded.

### Migrations, Deployment

The schema is a set of tables, partitions and indexes; of a table its foreign keys are
kept, of an index its definition, columns not. A revision is the sequence of its
statements, `upgrade` and `downgrade` the two revisions in order. A run reads
`alembic_version` (`Upgrade`, `Downgrade`), goes through its statements (`Execute`) in one
transaction, and writes the version with `CommitMigration`. A statement needs the
locks of `LocksOf`: on the names it makes or drops, and on the tables around them. CREATE INDEX
shares its table with other CREATE INDEX; CREATE TABLE excludes them from the tables its
foreign keys and PARTITION OF name, as a DROP does from the table of what it drops and from those
that table's foreign keys name. A run takes its locks one at a time and in any order (`TakeLock`),
keeps them until its transaction ends, and waits (`Waits`) while another run holds a conflicting
one. An upgrade and a downgrade take the same locks in different orders, so they can wait for
each other: `DeadlockVictim` is PostgreSQL's answer, the rollback of a run that may not have been
overtaken by any. `StatementFails` is the other way to fail: the statement has its locks, but
what it needs is not there, what it makes is, or a foreign key is in its way; `OnlyOvertakenFail` is
about this one. `metadata` are the tables and indexes of `app/db/models`.

`Deployment` adds the containers. `ComposeUp` recreates `migrate` and `StartContainer` starts
what is ready by its `depends_on`; `wait_for_db` is one attempt, after the last of which
the process exits; `Migrate` is the migration of the container, `Lifespan` the end of the
API's startup. `Restart` is `restart: unless-stopped`, which looks at no dependency.
`Crash`, `Outage` (of PostgreSQL) and `Reboot` are what goes wrong; an outage in the
startup of the API may leave it `stuck`: the reloader of uvicorn stays up without a server.
Assumed of the operator: a revision is taken back only while the application is down,
and no `up` is given meanwhile. Redis and pgAdmin are left out.

## 3. Runs

| run | instance | shows |
|---|---|---|
| `alerts` | 2 alerts with different thresholds, 1 shop, 2 check runs that can deadlock, 1 request, 2 faults; e-mail with any refused addresses, or console mode | `TypeOK`, `FiredWasReported`, `EmailBudget`, `OneWay`, `DueIsServed`, `RunsEnd`, and that `Alerts` implements `AlertDelivery` |
| `alerts_overlap` | 2 check runs, no fault | **violated** `AtMostOneEmail`: two runs mail one alert twice |
| `fetch` | 2 overlapping runs, 2 shops, 1 listing, 5 ticks, 1 fault | `TypeOK`, `SnapshotSpacing`, `ServedIsRecent`, `QuotedIsFresh`, `ReportedIsStored` |
| `fetch_overlap` | 2 overlapping runs, no fault, runs that take no time | **violated** `NoRepeatInWindow`: both write a snapshot of one listing |
| `rates` | 2 currencies, 2 days, 3 points; any two of 2 requests, a sync and a backfill, rollbacks anywhere | `TypeOK`, `DbIsExact`, `CacheIsBacked`, `CyclesNeedLoad`, `TransactionsEnd` |
| `rates_midnight` | a sync over midnight | **violated** `DbIsExact`: the new day's rate under the old date |
| `rates_poison` | 3 days, one request | **violated** `HistoricalCacheIsExact`: a fallback rate stays in Redis for ever |
| `partitions` | set up in June or early July 2026, to January 2027, 2 workers, 2 failed runs | `TypeOK`, `OneMonthEach`, `GapNeedsOutage` |
| `partitions_late` | also set up later in July | **violated** `AlwaysCovered`: no partition for August though nothing failed |
| `service` | 2 or 3 DummyJSON products in pages of 1, 2 FakeStore products, 2 tries, 2 changes of the list, 2 requests for 2 products | `TypeOK`, `EveryProductOnce`, `PairsAreNearest`, `StepsComplete`, `AddedOnce`, `StartupEnds`, `AnswersComeTrue`, `RequestsEnd` |
| `product_list` | 2 products in 3 listings, 3 snapshots at 2 prices over 3 days, pages of 1, all orders | `TypeOK`, `RangeIsOfToday`, `TrendIsJust`, `WalkIsComplete`, `HistoryIsComplete`, `PagesAgree` |
| `deployment` | the migrate container and two runs of Alembic by hand, 2 attempts of `wait_for_db`, 2 crashes, 4 commands | `TypeOK`, `SchemaIsRevision`, `MigratedFirst`, `OnlyOvertakenFail`, `WorkerRecovers`, `UpBringsUp` |

A violated run states what a document or comment of the repository says; the
finding in `PROJECT.json` quotes it. `NbuAnswersLatest`, `CreateCurrent` and the other
variants of an action that no `Next` uses are plausible mistakes: with one of them in
the place of the action it varies, TLC finds the property named for it violated.

### Bounds

* `MaxFaults` limits crashes, failed statements and mail errors. One fault between
  any two steps is enough for each property to meet a run that lost its
  transaction after its external effects; `EmailBudget` and `GapNeedsOutage` count
  faults, so their shape does not depend on the limit. `alerts` has two faults: a lost
  reply and a crash in one behaviour.
* Two alerts are the shortest batch in which one row can fail or be refused while the other
  goes on, and in which two runs lock rows in opposite orders. `Init` lets every address, one
  or none be refused.
* `Runs`, `Tasks`, `Requests`, `Syncs`, `Backfills`, `Workers` are the processes that
  may be under way at once. Two of a kind give every pairwise race and the
  shortest deadlock; a process starts again when it ends, so one behaviour has any
  number of runs. In `ExchangeRates` each process is one transaction, and `MaxRuns` of them
  begin: any two of the four, which gives every pair of kinds and also what the second finds
  of the first. Longer cycles are covered by the proof.
* `MaxCurrency`, `MaxPoints`: with two currencies a sync and a backfill hold one row while
  they wait for another; with three points a request asks for a key again that it has had.
* `MaxTime`, `MaxRun`, `Window` are in ticks of the clock: the behaviour is longer
  than the window, so that snapshots age out of it, and a run may span ticks.
* `MaxDay` is 2 or 3: today and an earlier day, plus one more where a fallback for a
  historical day is needed.
* `MaxCopies` is how often one answer may list one product; it is 1 in the runs: an
  answer that lists a product twice is stored twice, by construction of the loop.
* `LastYear` lets the calendar pass through November, December and January.
* `MaxChanges`: a list can gain an entry at the end, gain one in front or lose one, in
  two changes while it is paged, so that every page boundary shifts both ways.
* `MaxRows`, `DayLength`, `TrendDays`: three snapshots over three days give a range of
  two shops, or a today, a period and a day before it. The prices 100 and 102 are on
  both sides of the 1% threshold and their averages within it.
* `Retries`, `MaxCrashes`, `MaxUps`: two attempts tell the last from the others; two
  crashes allow an outage and another one, or a reboot, in the recovery; four commands
  are enough for an `up`, a `down`, a downgrade and another `up`. `Migrators`: with two runs by
  hand an upgrade and a downgrade overlap, and cycles of locks occur.
* `MidnightSync` and `MayFail` switch a kind of failure on or off: off where a run shows
  what holds without it, on where it shows what it breaks.
* `CHECK_DEADLOCK FALSE` stands where the clock bound, the last page or the last command
  ends a behaviour.

### Fairness

`Alerts` assumes that a check run whose next step is enabled takes it (an awaited
statement, SMTP exchange or commit returns, and beat starts runs for ever), and that
an open request commits or is rolled back. Mail success is not assumed: for an address in `bad` it always
fails. `ExchangeRates` assumes only that some transaction takes a step as long as one can (the NBU
request has a timeout and a bounded number of tries, and PostgreSQL breaks a cycle of locks), and
nothing of which one: a transaction is finite, so all of them end. `Service` assumes that
the seed and an open request take their next step, and strong fairness of the INSERT
that waits for a key, for the same reason; nothing says that a process is restarted
or stays up. `Deployment` assumes that PostgreSQL comes back (its container is restarted
like the others), that Docker restarts what has exited, and that compose, Alembic and the
containers take their next step; commands and what goes wrong are never assumed. Starting
requests, faults, prices, expiry and midnight are never assumed to happen.

## 4. Proofs

TLAPS proves, with no bound on the sets and numbers of the instance:

* `AlertsProofs!TypeCorrect`, `FiredIsReported` (`FiredWasReported`), `NeverBack`
  (`OneWay`) and `Implements` (every behaviour of `Alerts` is one of `AlertDelivery`).
  The invariant `IInv` adds to the types: an open request holds a row in the state
  its statement left it in and no two requests hold one alert; a run that is about
  to update, or has updated, a row reported it; a row a run has updated is not being
  deleted by a request, because of the row lock; only committed rows are reported.
  Both deployments are covered, since `email_enabled` is a variable that `Init` chooses.
  Without the last two, `deactivate`, which updates by id alone, could retire an
  alert that was deleted meanwhile.
* `AlertsProofs!MailsAreBounded` (`EmailBudget`), for finitely many runs. `BudgetInv` keeps
  an account for each alert: while it is active, its e-mails are those of the runs that
  still hold one uncommitted (`Holds`) and those a fault stands for; when it is retired,
  the runs that selected it before (`MayMail`) can each send one more, and a run is one
  or the other, never both.
* `PriceFetchProofs!TypeCorrect`, `OfferedIsStored` (`QuotedIsFresh`), `LatestIsRecent`
  (`ServedIsRecent`), `ReportsAreTrue` (`ReportedIsStored`, if a run is no longer than the
  window) and `SnapshotsAreSpaced` (`SnapshotSpacing`, if moreover no answer lists a product
  twice and the tasks are finitely many). `FetchInv` adds to the types that a row was read
  during its run and is dated by its start, and that what a run was offered has a row,
  committed or its own, no older than the window before its start; a row of another
  open run never counts, which is why no rollback can take it away. `CountInv` says that
  the counts are those of the rows in hand and that no row is written twice, `TaskSpacing`
  that the runs of one task keep their distance; since rows closer than that belong to
  different tasks, they are no more than there are tasks.
* `RatesProofs!TypeCorrect` and `TableIsExact` (`DbIsExact`), under the assumption that no
  sync spans midnight (`~MidnightSync`). The invariant `RatesInv` adds that uncommitted
  rows and rates about to be written are those of their own day (`WritesAreExact`), and that
  what a sync has still to store is of one day: today as long as it waits for the NBU, then that
  of the answer (`SyncStoresOneDay`). The run `rates_midnight` shows that the assumption is needed.
* `RatesProofs!CacheFollowsTable` (`CacheIsBacked`) and `RequestsDoNotDeadlock`
  (`CyclesNeedLoad`), under the same assumption. `BackedInv` adds that what is about
  to be cached is backed as well. `LocksInv` says that what a request has written and not
  committed is in Redis or is being put there, so that a request that comes later finds
  it there and does not come to wait for it (`WrittenIsCached`), and that the relation "will
  wait for" among requests has no cycle (`Acyclic`): an inductive statement, unlike
  the one about those that wait already. It rests on a request being over within the TTL
  of what it has cached itself (the guard of `Expire`). Of syncs the theorem says no such
  thing: they do not ask Redis, and a sync and a request can deadlock.
* `PartitionProofs!TypeCorrect`, `PartitionsAreMonths` (`OneMonthEach`) and `GapsFollowOutages`
  (`GapNeedsOutage`), under the assumption that the system was set up in time
  (`Deploys \subseteq InTime`), which `partitions_late` shows to be needed. The
  invariant `RolloverInv` adds that next month's partition is there, or the tick,
  message or run that will create it is still to come, or this month is an outage.
* `ServiceProofs!TypeCorrect`, `StartsComplete` (`StepsComplete`), `SeededOnce` (`AddedOnce`),
  `AnswersAreTrue` (`AnswersComeTrue`), `ProductsAreOnce` (`EveryProductOnce`) and
  `PairsAreClosest` (`PairsAreNearest`), assuming that a shop lists an id once and that
  DummyJSON never lists nothing (an empty answer is stored as an empty catalogue, and the
  next start seeds again). `ServiceInv` has five parts. `SeedInv`: the steps behind the
  process are done, and the session is unusable only after the products failed. `CallInv`:
  the shops are asked only for an empty catalogue, and their answer has something in it
  unless the first page is still awaited. `PagingInv`: as long as no entry moved, the pages
  so far are the beginning of DummyJSON's list. `CatalogInv`: the catalogue is empty or
  `NewProducts` of the two answers. `RequestInv`: requests are under way only while the
  process serves, and an addition's product exists. That the startup comes first is what
  makes a 201 safe: the user is there before a request is taken. The pairing by nearest
  price is followed through its fold: `Paired(d, m, k)` says that the first k products
  of FakeStore are paired, each with another product of DummyJSON, and that none left over is nearer.
* `ProductProofs!TypeCorrect`, `RangesAreOfToday` (`RangeIsOfToday`), `WalksAreComplete`
  (`WalkIsComplete`), `TrendsAreJust` (`TrendIsJust`), `PagesAgreed` (`PagesAgree`) and
  `HistoriesAreComplete` (`HistoryIsComplete`), for finitely many products, listings and
  prices (a numeric column has finitely many). `ListInv` adds to the types that a row is
  read for every product (`PagingInv`), that what a request has read, and what the pages
  show, is true of the moment as long as nothing changes (`FreshInv`), and that the k-th
  item shown is the product with k - 1 smaller sort keys (`WalkInv`): so no page repeats or
  leaves out a product. That sorting puts the product of rank k in place k is shown by
  counting smaller keys; without ties the ranks are a bijection. An average is a sum and a count:
  averages are compared by the products of one's sum and the other's count, and the mean of a day,
  computed from the means of shops, by a common denominator.
* `DeploymentProofs!TypeCorrect` and `NothingRunsUnmigrated` (`MigratedFirst`), for any set
  of migrations by hand. `DeploymentInv` adds that a container of the application was
  started on the last revision and has not been removed since, that `migrate` ends with
  its run, and that a revision is taken back only while no container is there, which is
  what is assumed of the operator. So a restart needs no dependency: the first start had it.
* `DeploymentProofs!SchemaFollowsVersion` (`SchemaIsRevision`) and `OnlyOvertaken`
  (`OnlyOvertakenFail`), from `RunsInv`: the committed schema is `Replay[version]`, and a run
  is at some statement of its script, with what the statements before it drop and make
  (`RunIsAt`, which says nothing of the schema, so that it also holds of a run that was overtaken),
  or it was overtaken and `Holds` the lookup index. An overtaken run may see a schema its
  script was not written for, and a DROP TABLE may then take along more than the script drops.
  It does no harm: every script drops the lookup index, and before the first table. So such a
  run has that name locked, as has every run that commits a change, and two transactions never
  hold it together: no other run can commit, and this one fails when it writes the version.
  `HasLock` says that a run that dropped the index still has its exclusive lock, so that `Free` keeps every
  other from dropping it; `TakeLock` only adds locks, and the end of a run, a deadlock
  included, takes them with what the run did. `OnlyOvertaken` does not say that a run nobody
  overtook succeeds: it may be the victim of a deadlock or of a lost connection.
  The scripts are followed along the chain `State(0)`, ..., `State(19)`: each of the nineteen
  statements leads from one state to the next, each statement of a downgrade back again
  (`StatesMove`), because nothing still there needs what is dropped.

Each proof has a lemma for the initial states and one for each action or group of
actions; TLC checked each of the invariants named here on the runs' instances first.

Several definitions are folds, over the rows of a mean or the products of a shop. The
library's induction theorems cannot be used with the provers here, so `FoldLemmas` argues
by least counterexamples: a set of numbers or of finite sets with nothing in it has no
least member (`LeastSubset`), and `UpTo` is induction up to a number. It takes what is folded as a function, not an operator,
and shows that a fold exists, keeps its type and has the bounds of its parts.

Only model-checked: liveness (`DueIsServed`, `RunsEnd`, `TransactionsEnd`, `StartupEnds`,
`RequestsEnd`, `WorkerRecovers`, `UpBringsUp`), which needs fairness and ENABLED and is beyond
the prover. Every other property of a passing run is a theorem.
No module declares a RECURSIVE operator.

## 5. Not modelled

* Prices as numbers in `PriceFetch` (they are in `Alerts`, `ProductList` and `ProductPage`),
  the conversion arithmetic and its rounding.
* A change of `EMAIL_ENABLED` between two starts of the worker.
* Locks between a migration and the statements of the application that may run beside
  it, and those on the indexes of the partitions, which the lock of their table includes.
* What a client sees that goes on between its response and the commit that follows it
  (`api/deps.py`): the models end requests at their own pace, and no property speaks of
  a client's second request.
* Authentication (a comparison with a static token), logging, settings, schemas, the
  wording of e-mails and responses, connection pools.
* The messages of the three interval entries of beat: their runs start at any time, in
  any number up to that of the instance. The monthly entry has its message.
* Columns and unique constraints in `Migrations`; they are where they matter, in the
  modules of the rows.
* Redis failing altogether, clock differences between hosts, the pauses between
  retries, more than one api process at a time (docker-compose starts one).
* Users other than the one whose watchlist is modelled; they share no rows.

## 6. Plan

Done, in this order: the alerts, the snapshots, the rates and the partitions; the startup
with its shop client, the watchlist, the product lists; migrations and deployment, the
pages of one product; the proofs of the alerts' e-mail budget, of all properties of the
snapshots, of the cache and of the absence of deadlocks among requests; those of the startup,
of the lists and pages of products, and of the migrations.
What is left, in order of what could go wrong:

1. A composition of `PriceFetch`, `PartitionRollover` and `Alerts`: fetch runs in a
   month without a partition.
2. A client that goes on before the commit of its answered request.
3. An abstract watchlist (a set, changed atomically) that `Watchlist` implements.
4. Lemmas on `determine_trend` (antisymmetry, the threshold), which need no induction.
