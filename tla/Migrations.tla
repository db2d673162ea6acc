----------------------------- MODULE Migrations -----------------------------
(* Alembic: the two revisions of the schema, and the processes that run       *)
(* `alembic upgrade head` or `alembic downgrade -1`.  A run is one            *)
(* transaction (PostgreSQL's DDL is transactional); its statements lock what  *)
(* they name, and the tables around it, until the transaction ends.  Of a     *)
(* table only its foreign keys are kept, of an index its definition.          *)
EXTENDS Integers, SequencesExt

CONSTANTS Migrators

VARIABLES
  schema,    \* the committed tables, partitions and indexes
  version,   \* alembic_version: how many of the revisions are applied
  run,       \* [Migrators -> "idle", "running", "succeeded", "failed"]
  from,      \* the version each run read, and ...
  goal,      \* ... the one it goes to
  todo,      \* its statements still to be executed
  made,      \* what its transaction has created, and ...
  gone,      \* ... the names of what it has dropped
  locks      \* the locks it holds

schemaVars == <<schema, version, run, from, goal, todo, made, gone, locks>>

-----------------------------------------------------------------------------
(* The statements.                                                           *)

\* `of`: the table it goes away with; `refs`: the tables its foreign keys name.
Table(n, refs) == [name |-> n, of |-> {}, refs |-> refs, is |-> "table"]
Partition(n, t) == [name |-> n, of |-> {t}, refs |-> {}, is |-> "partition"]
Index(n, t, def) == [name |-> n, of |-> {t}, refs |-> {}, is |-> def]

Create(o) == [op |-> "create", object |-> o, names |-> {o.name} \cup o.of \cup o.refs]
Drop(n) == [op |-> "drop", name |-> n, names |-> {n}]

\* A table is not dropped while a foreign key names it.
Executable(s, S) ==
  LET there == {o.name : o \in S}
  IN CASE s.op = "create" -> s.object.name \notin there
                             /\ s.object.of \cup s.object.refs \subseteq there
       [] s.op = "drop" -> s.name \in there /\ \A o \in S : s.name \notin o.refs

\* What a statement takes away: a dropped table takes its indexes and partitions along.
Removed(s, S) == {o \in S : s.op = "drop" /\ (o.name = s.name \/ s.name \in o.of)}
Added(s) == IF s.op = "create" THEN {s.object} ELSE {}

\* The locks of a statement.  CREATE INDEX lets others read its table and create
\* indexes on it too; CREATE TABLE excludes them from the tables its foreign keys and
\* PARTITION OF name; DROP from the table of what it drops, and from those its foreign
\* keys name.
LocksOf(s, S) ==
  LET shared == IF s.op = "create" /\ s.object.is \notin {"table", "partition"}
                THEN s.object.of ELSE {}
      around == UNION {{o.name} \cup o.of \cup o.refs : o \in Removed(s, S)}
  IN {[on |-> n, how |-> IF n \in shared THEN "share" ELSE "exclusive"] : n \in s.names \cup around}

Conflict(l, k) == l.on = k.on /\ ~ (l.how = "share" /\ k.how = "share")

-----------------------------------------------------------------------------
(* The revisions.                                                            *)

initial_upgrade == <<
  Create(Table("exchange_rates", {})), Create(Table("shops", {})), Create(Table("users", {})),
  Create(Table("products", {"shops"})),
  Create(Table("price_alerts", {"products", "users"})),
  Create(Index("ix_price_alert_active_product", "price_alerts", "is_active, product_id")),
  Create(Table("product_shops", {"products", "shops"})),
  Create(Index("ix_product_shop_product_id", "product_shops", "product_id")),
  Create(Table("user_products", {"products", "users"})),
  Create(Table("price_history", {"product_shops"})),
  Create(Index("ix_price_history_lookup", "price_history", "product_shop_id, recorded_at")),
  Create(Partition("price_history_2026_06", "price_history")),
  Create(Partition("price_history_2026_07", "price_history"))>>

initial_downgrade == <<
  Drop("price_history_2026_07"), Drop("price_history_2026_06"),
  Drop("ix_price_history_lookup"), Drop("price_history"), Drop("user_products"),
  Drop("ix_product_shop_product_id"), Drop("product_shops"),
  Drop("ix_price_alert_active_product"), Drop("price_alerts"),
  Drop("products"), Drop("users"), Drop("shops"), Drop("exchange_rates")>>

scaling_upgrade == <<
  Create(Index("ix_product_shop_shop_id", "product_shops", "shop_id")),
  Create(Index("ix_price_alert_user_created", "price_alerts", "user_id, created_at DESC")),
  Drop("ix_price_alert_active_product"),
  Create(Index("ix_price_alert_active", "price_alerts", "product_id WHERE is_active")),
  Drop("ix_price_history_lookup"),
  Create(Index("ix_price_history_lookup", "price_history",
               "product_shop_id, recorded_at DESC INCLUDE price_usd"))>>

scaling_downgrade == <<
  Drop("ix_price_history_lookup"),
  Create(Index("ix_price_history_lookup", "price_history", "product_shop_id, recorded_at")),
  Drop("ix_price_alert_active"),
  Create(Index("ix_price_alert_active_product", "price_alerts", "is_active, product_id")),
  Drop("ix_price_alert_user_created"), Drop("ix_product_shop_shop_id")>>

\* down_revision the wrong way round.
UpgradeScalingFirst == <<scaling_upgrade, initial_upgrade>>

upgrade == <<initial_upgrade, scaling_upgrade>>

\* Tables are dropped in the order in which they were created.
DowngradeInOrder == <<Reverse(initial_downgrade), scaling_downgrade>>

downgrade == <<initial_downgrade, scaling_downgrade>>
LastRevision == Len(upgrade)

-----------------------------------------------------------------------------
(* The runs.                                                                 *)

MigrationsTypeOK ==
  /\ version \in 0 .. LastRevision
  /\ run \in [Migrators -> {"idle", "running", "succeeded", "failed"}]
  /\ from \in [Migrators -> 0 .. LastRevision] /\ goal \in [Migrators -> 0 .. LastRevision]

MigrationsInit ==
  /\ schema = {} /\ version = 0
  /\ run = [m \in Migrators |-> "idle"]
  /\ from = [m \in Migrators |-> 0] /\ goal = [m \in Migrators |-> 0]
  /\ todo = [m \in Migrators |-> <<>>]
  /\ made = [m \in Migrators |-> {}] /\ gone = [m \in Migrators |-> {}]
  /\ locks = [m \in Migrators |-> {}]

\* The schema as the transaction sees it: what is committed, and its own changes.
Seen(m) == {o \in schema : o.name \notin gone[m]} \cup made[m]

\* The locks that m's next statement needs.
Needs(m) == LocksOf(Head(todo[m]), Seen(m))

Grantable(m, l) == \A o \in Migrators \ {m} : \A k \in locks[o] : ~ Conflict(l, k)

Free(m) == \A l \in Needs(m) : Grantable(m, l)

\* env.py has read alembic_version and planned the revisions between.
Upgrade(m) ==
  /\ run[m] # "running"
  /\ run' = [run EXCEPT ![m] = "running"]
  /\ from' = [from EXCEPT ![m] = version]
  /\ goal' = [goal EXCEPT ![m] = LastRevision]
  /\ todo' = [todo EXCEPT ![m] = FlattenSeq(SubSeq(upgrade, version + 1, LastRevision))]
  /\ UNCHANGED <<schema, version, made, gone, locks>>

Downgrade(m) ==
  /\ run[m] # "running" /\ version > 0
  /\ run' = [run EXCEPT ![m] = "running"]
  /\ from' = [from EXCEPT ![m] = version]
  /\ goal' = [goal EXCEPT ![m] = version - 1]
  /\ todo' = [todo EXCEPT ![m] = downgrade[version]]
  /\ UNCHANGED <<schema, version, made, gone, locks>>

\* Each statement is committed on its own.
ExecuteAndCommit(m) ==
  /\ run[m] = "running" /\ todo[m] # <<>> /\ Free(m)
  /\ Executable(Head(todo[m]), schema)
  /\ schema' = (schema \ Removed(Head(todo[m]), schema)) \cup Added(Head(todo[m]))
  /\ todo' = [todo EXCEPT ![m] = Tail(@)]
  /\ UNCHANGED <<version, run, from, goal, made, gone, locks>>

\* A statement takes its locks one by one, in an order of PostgreSQL's, and keeps them
\* while it waits for the rest (which matters if another run is under way).
TakeLock(m) ==
  /\ run[m] = "running" /\ todo[m] # <<>>
  /\ \E o \in Migrators \ {m} : run[o] = "running"
  /\ \E l \in Needs(m) \ locks[m] : Grantable(m, l) /\ locks' = [locks EXCEPT ![m] = @ \cup {l}]
  /\ UNCHANGED <<schema, version, run, from, goal, todo, made, gone>>

\* It is executed once it has them all.
Execute(m) ==
  /\ run[m] = "running" /\ todo[m] # <<>> /\ Free(m)
  /\ LET s == Head(todo[m])
         lost == Removed(s, Seen(m))
     IN /\ Executable(s, Seen(m))
        /\ made' = [made EXCEPT ![m] = (@ \ lost) \cup Added(s)]
        /\ gone' = [gone EXCEPT ![m] = @ \cup {o.name : o \in lost}]
  /\ locks' = [locks EXCEPT ![m] = @ \cup Needs(m)]
  /\ todo' = [todo EXCEPT ![m] = Tail(@)]
  /\ UNCHANGED <<schema, version, run, from, goal>>

\* The transactions of the runs M are over.
EndRuns(M, outcome) ==
  /\ run' = [m \in Migrators |-> IF m \in M THEN outcome ELSE run[m]]
  /\ from' = [m \in Migrators |-> IF m \in M THEN 0 ELSE from[m]]
  /\ goal' = [m \in Migrators |-> IF m \in M THEN 0 ELSE goal[m]]
  /\ todo' = [m \in Migrators |-> IF m \in M THEN <<>> ELSE todo[m]]
  /\ made' = [m \in Migrators |-> IF m \in M THEN {} ELSE made[m]]
  /\ gone' = [m \in Migrators |-> IF m \in M THEN {} ELSE gone[m]]
  /\ locks' = [m \in Migrators |-> IF m \in M THEN {} ELSE locks[m]]

\* The version is written last; the row with the version read first must still be there.
CommitMigration(m) ==
  /\ run[m] = "running" /\ todo[m] = <<>> /\ version = from[m]
  /\ schema' = Seen(m)
  /\ version' = goal[m]
  /\ EndRuns({m}, "succeeded")

\* The statement, or the change of the version, fails: the transaction is rolled back.
StatementFails(m) ==
  /\ run[m] = "running"
  /\ IF todo[m] = <<>> THEN version # from[m]
     ELSE Free(m) /\ ~ Executable(Head(todo[m]), Seen(m))
  /\ EndRuns({m}, "failed")
  /\ UNCHANGED <<schema, version>>

Waits(m, o) ==
  /\ m # o /\ run[m] = "running" /\ todo[m] # <<>>
  /\ \E l \in Needs(m), k \in locks[o] : Conflict(l, k)

\* C is a cycle: everyone in it waits for one in it and is waited for.
Cycle(C) == /\ C # {}
            /\ \A m \in C : \E o \in C : Waits(m, o)
            /\ \A m \in C : \E o \in C : Waits(o, m)

\* PostgreSQL breaks a cycle of waiting runs: one of them is rolled back.
DeadlockVictim(m) ==
  /\ run[m] = "running"
  /\ \E C \in SUBSET Migrators : m \in C /\ Cycle(C)
  /\ EndRuns({m}, "failed")
  /\ UNCHANGED <<schema, version>>

\* The processes, their connections or the server go away.
Rollback(M) ==
  /\ EndRuns({m \in M : run[m] = "running"}, "failed")
  /\ UNCHANGED <<schema, version>>

MigrationStep(m) ==
  TakeLock(m) \/ Execute(m) \/ CommitMigration(m) \/ StatementFails(m) \/ DeadlockVictim(m)

-----------------------------------------------------------------------------
(* The tables and indexes of app/db/models.                                  *)

ExchangeRate == {Table("exchange_rates", {})}
Shop == {Table("shops", {})}
User == {Table("users", {})}
Product == {Table("products", {"shops"})}
UserProduct == {Table("user_products", {"users", "products"})}
ProductShop == {Table("product_shops", {"products", "shops"}),
                Index("ix_product_shop_product_id", "product_shops", "product_id"),
                Index("ix_product_shop_shop_id", "product_shops", "shop_id")}
PriceAlert == {Table("price_alerts", {"users", "products"}),
               Index("ix_price_alert_user_created", "price_alerts", "user_id, created_at DESC"),
               Index("ix_price_alert_active", "price_alerts", "product_id WHERE is_active")}
PriceHistory == {Table("price_history", {"product_shops"}),
                 Index("ix_price_history_lookup", "price_history",
                       "product_shop_id, recorded_at DESC INCLUDE price_usd")}

metadata == ExchangeRate \cup Shop \cup User \cup Product \cup UserProduct
            \cup ProductShop \cup PriceAlert \cup PriceHistory

\* What the first v revisions make of an empty database, one statement after another.
Replay == [v \in 0 .. LastRevision |->
  FoldLeft(LAMBDA S, s : (S \ Removed(s, S)) \cup Added(s), {},
           FlattenSeq(SubSeq(upgrade, 1, v)))]

-----------------------------------------------------------------------------
(* The inductive invariant of the proofs.                                    *)

\* The statements of a run from revision f to g; what those from the i-th to the k-th
\* drop by name, and what is left of what the first k create.
Script(f, g) == IF g < f THEN downgrade[f] ELSE FlattenSeq(SubSeq(upgrade, f + 1, g))

DroppedIn(t, i, k) == {t[j].name : j \in {j \in i .. k : t[j].op = "drop"}}

MadeBy(t, k) ==
  {t[i].object : i \in {i \in 1 .. k : t[i].op = "create" /\ t[i].object.name \notin DroppedIn(t, i, k)}}

\* A run has executed k statements, and no DROP took more along than it names.
RunIsAt(m, k) ==
  LET t == Script(from[m], goal[m])
  IN /\ todo[m] = SubSeq(t, k + 1, Len(t))
     /\ gone[m] = DroppedIn(t, 1, k)
     /\ made[m] = MadeBy(t, k)

\* Every revision drops this index, in both directions, and before it drops a table.
Holds(m) == "ix_price_history_lookup" \in gone[m]

HasLock(m) == [on |-> "ix_price_history_lookup", how |-> "exclusive"] \in locks[m]

\* A run that was overtaken follows its script all the same, or keeps every other
\* from ending until it fails itself.
RunInv(m) ==
  IF run[m] = "running"
  THEN /\ goal[m] \in {LastRevision, from[m] - 1}
       /\ \/ \E k \in 0 .. Len(Script(from[m], goal[m])) : RunIsAt(m, k)
          \/ version # from[m] /\ Holds(m)
  ELSE todo[m] = <<>> /\ made[m] = {} /\ gone[m] = {}

RunsInv ==
  /\ DOMAIN todo = Migrators /\ DOMAIN made = Migrators /\ DOMAIN gone = Migrators
  /\ DOMAIN locks = Migrators
  /\ schema = Replay[version]
  /\ \A m \in Migrators : RunInv(m)
  /\ \A m \in Migrators : Holds(m) => HasLock(m)
  /\ \A m, o \in Migrators : Holds(m) /\ Holds(o) => m = o

-----------------------------------------------------------------------------
(* Properties.                                                               *)

\* The committed schema is that of the revision alembic_version names, whatever runs
\* overlapped, failed or were undone on the way (a downgrade takes back exactly what
\* its upgrade did), and at the last revision it is the one the models declare.
SchemaIsRevision ==
  /\ schema = Replay[version]
  /\ version = LastRevision => {o \in schema : o.is # "partition"} = metadata

\* No statement is in the way of its own script: each can be executed from its first
\* line to its last, and one that has its locks fails only in a run that another has
\* overtaken.  (A run may also be the victim of a deadlock, DeadlockVictim: an upgrade
\* and a downgrade lock the same tables in different orders.)
OnlyOvertakenFail ==
  [][\A m \in Migrators : StatementFails(m) => version # from[m]]_schemaVars
=============================================================================
