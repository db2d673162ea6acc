--------------------------- MODULE DeploymentProofs ---------------------------
(* The application runs only on the last revision, and the committed schema   *)
(* is always that of the revision it names, for every set of migrations by    *)
(* hand and every number of retries, crashes and commands.                    *)
EXTENDS Deployment, FoldLemmas, SequenceTheorems

-----------------------------------------------------------------------------
(* The containers and the version.                                           *)

\* Two revisions.
LEMMA TwoRevisions == LastRevision = 2
  BY DEF LastRevision, upgrade

LEMMA DeploymentInit == Init => DeploymentInv
<1> SUFFICES ASSUME Init PROVE DeploymentInv
  OBVIOUS
<1> USE DeploymentAssumption, TwoRevisions DEF Init, MigrationsInit
<1>1. MigrationsTypeOK /\ ContainersTypeOK
  BY DEF ContainersTypeOK, MigrationsTypeOK, States
<1>2. StartedOnLast
  BY DEF StartedOnLast, Services, App
<1>3. TakenBackAlone
  BY DEF TakenBackAlone
<1> QED BY <1>1, <1>2, <1>3 DEF DeploymentInv

\* What the steps of a run do to the version and to the runs under way.
LEMMA EndRunsType ==
  ASSUME MigrationsTypeOK, NEW M, NEW outcome \in {"succeeded", "failed"}, EndRuns(M, outcome)
  PROVE  /\ run' \in [Migrators -> {"idle", "running", "succeeded", "failed"}]
         /\ from' \in [Migrators -> 0 .. LastRevision]
         /\ goal' \in [Migrators -> 0 .. LastRevision]
         /\ \A m \in Migrators : run'[m] = "running" =>
              run[m] = "running" /\ goal'[m] = goal[m] /\ m \notin M
  BY TwoRevisions DEF MigrationsTypeOK, EndRuns

LEMMA MigrationStepLemma ==
  ASSUME DeploymentInv, NEW m \in Migrators, MigrationStep(m)
  PROVE  /\ MigrationsTypeOK'
         /\ \A n \in Migrators : run'[n] = "running" => run[n] = "running" /\ goal'[n] = goal[n]
         /\ version' # version => version' = goal[m]
         /\ run[m] = "running" /\ run'[m] \in {"running", "succeeded", "failed"}
         /\ run'[m] = "succeeded" => version' = goal[m]
<1> USE DEF DeploymentInv
<1>1. CASE Execute(m)
  BY <1>1 DEF Execute, MigrationsTypeOK
<1>2. CASE CommitMigration(m)
  <2>1. EndRuns({m}, "succeeded") /\ version' = goal[m] /\ run[m] = "running"
    BY <1>2 DEF CommitMigration
  <2>2. run'[m] = "succeeded"
    BY <2>1 DEF EndRuns
  <2>3. MigrationsTypeOK'
    BY <2>1, EndRunsType DEF MigrationsTypeOK
  <2> QED BY <2>1, <2>2, <2>3, EndRunsType
<1>3. CASE StatementFails(m)
  <2>1. EndRuns({m}, "failed") /\ version' = version /\ run[m] = "running"
    BY <1>3 DEF StatementFails
  <2>2. run'[m] = "failed"
    BY <2>1 DEF EndRuns
  <2>3. MigrationsTypeOK'
    BY <2>1, EndRunsType DEF MigrationsTypeOK
  <2> QED BY <2>1, <2>2, <2>3, EndRunsType
<1>4. CASE DeadlockVictim(m)
  <2>1. EndRuns({m}, "failed") /\ version' = version /\ run[m] = "running"
    BY <1>4 DEF DeadlockVictim
  <2>2. run'[m] = "failed"
    BY <2>1 DEF EndRuns
  <2>3. MigrationsTypeOK'
    BY <2>1, EndRunsType DEF MigrationsTypeOK
  <2> QED BY <2>1, <2>2, <2>3, EndRunsType
<1>5. CASE TakeLock(m)
  BY <1>5 DEF TakeLock, MigrationsTypeOK
<1> QED BY <1>1, <1>2, <1>3, <1>4, <1>5 DEF MigrationStep

LEMMA RollbackLemma ==
  ASSUME DeploymentInv, NEW M, Rollback(M)
  PROVE  /\ MigrationsTypeOK' /\ version' = version
         /\ \A n \in Migrators : run'[n] = "running" =>
              n \notin M /\ run[n] = "running" /\ goal'[n] = goal[n]
  BY EndRunsType DEF Rollback, DeploymentInv, MigrationsTypeOK

\* A run of `upgrade head` begins.
LEMMA UpgradeLemma ==
  ASSUME DeploymentInv, NEW m \in Migrators, Upgrade(m)
  PROVE  /\ MigrationsTypeOK' /\ version' = version
         /\ \A n \in Migrators : run'[n] = "running" =>
              (n = m /\ goal'[n] = LastRevision) \/ (run[n] = "running" /\ goal'[n] = goal[n])
  BY TwoRevisions DEF Upgrade, DeploymentInv, MigrationsTypeOK

\* What the invariant needs of a step that starts or ends containers.
LEMMA DeploymentNext == DeploymentInv /\ [Next]_vars => DeploymentInv'
<1> SUFFICES ASSUME DeploymentInv, [Next]_vars PROVE DeploymentInv'
  OBVIOUS
<1> USE DeploymentAssumption, TwoRevisions DEF DeploymentInv, ContainersTypeOK, Services, States, App, ByHand
<1>1. CASE ComposeUp
  BY <1>1 DEF ComposeUp, Become, schemaVars, MigrationsTypeOK, StartedOnLast, TakenBackAlone
<1>2. CASE ComposeEnds
  BY <1>2 DEF ComposeEnds, schemaVars, bounds, MigrationsTypeOK, StartedOnLast, TakenBackAlone
<1>3. CASE ComposeDown
  BY <1>3 DEF ComposeDown, schemaVars, MigrationsTypeOK, StartedOnLast, TakenBackAlone
<1>4. ASSUME NEW m \in Migrators, RunAlembic(m) PROVE DeploymentInv'
  <2>1. CASE Upgrade(m)
    BY <1>4, <2>1, UpgradeLemma DEF RunAlembic, StartedOnLast, TakenBackAlone
  <2>2. CASE Downgrade(m) /\ ~ compose /\ \A s \in Services : container[s] = "created"
    BY <1>4, <2>2 DEF RunAlembic, Downgrade, MigrationsTypeOK, StartedOnLast, TakenBackAlone
  <2> QED BY <1>4, <2>1, <2>2 DEF RunAlembic
<1>5. ASSUME NEW m \in Migrators, MigrateByHand(m) PROVE DeploymentInv'
  BY <1>5, MigrationStepLemma DEF MigrateByHand, bounds, StartedOnLast, TakenBackAlone
<1>6. ASSUME NEW s \in Services, StartContainer(s) PROVE DeploymentInv'
  <2>1. (MigrationsTypeOK /\ ContainersTypeOK)'
    BY <1>6 DEF StartContainer, Ready, Become, schemaVars, bounds, MigrationsTypeOK
  <2>2. StartedOnLast'
    BY <1>6 DEF StartContainer, Ready, Become, schemaVars, bounds, StartedOnLast
  <2>3. TakenBackAlone'
    BY <1>6 DEF StartContainer, Ready, Become, schemaVars, bounds, TakenBackAlone
  <2> QED BY <2>1, <2>2, <2>3
<1>7. ASSUME NEW s \in Services, Restart(s) PROVE DeploymentInv'
  BY <1>7 DEF Restart, Kept, Become, schemaVars, bounds, MigrationsTypeOK,
              StartedOnLast, TakenBackAlone
<1>8. ASSUME NEW s \in Services, wait_for_db(s) PROVE DeploymentInv'
  <2>1. CASE postgres = "up" /\ s = "migrate"
    <3>1. (MigrationsTypeOK /\ ContainersTypeOK)'
      BY <1>8, <2>1, UpgradeLemma DEF wait_for_db, Become, bounds, MigrationsTypeOK
    <3>2. StartedOnLast'
      BY <1>8, <2>1, UpgradeLemma DEF wait_for_db, Become, bounds, StartedOnLast
    <3>3. TakenBackAlone'
      BY <1>8, <2>1, UpgradeLemma DEF wait_for_db, Become, bounds, TakenBackAlone
    <3> QED BY <3>1, <3>2, <3>3
  <2>2. CASE ~ (postgres = "up" /\ s = "migrate")
    <3>1. (MigrationsTypeOK /\ ContainersTypeOK)'
      BY <1>8, <2>2 DEF wait_for_db, Become, schemaVars, bounds, MigrationsTypeOK
    <3>2. StartedOnLast'
      BY <1>8, <2>2 DEF wait_for_db, Become, schemaVars, bounds, StartedOnLast
    <3>3. TakenBackAlone'
      BY <1>8, <2>2 DEF wait_for_db, Become, schemaVars, bounds, TakenBackAlone
    <3> QED BY <3>1, <3>2, <3>3
  <2> QED BY <2>1, <2>2
<1>9. ASSUME NEW s \in Services, Crash(s) PROVE DeploymentInv'
  <2>1. (MigrationsTypeOK /\ ContainersTypeOK)'
    BY <1>9, RollbackLemma DEF Crash, Killed, Alive, Become, MigrationsTypeOK
  <2>2. StartedOnLast'
    BY <1>9, RollbackLemma DEF Crash, Killed, Alive, Become, StartedOnLast
  <2>3. TakenBackAlone'
    BY <1>9, RollbackLemma DEF Crash, Killed, Alive, Become, TakenBackAlone
  <2> QED BY <2>1, <2>2, <2>3
<1>10. CASE Migrate
  <2> DEFINE state == IF run'["migrate"] = "running" THEN container["migrate"]
                      ELSE run'["migrate"]
  <2>1. /\ MigrationsTypeOK'
        /\ \A n \in Migrators : run'[n] = "running" => run[n] = "running" /\ goal'[n] = goal[n]
        /\ version' # version => version' = goal["migrate"]
        /\ run["migrate"] = "running" /\ run'["migrate"] \in {"running", "succeeded", "failed"}
        /\ run'["migrate"] = "succeeded" => version' = goal["migrate"]
    BY <1>10, MigrationStepLemma DEF Migrate
  <2>2. /\ container' = [container EXCEPT !["migrate"] = state]
        /\ UNCHANGED <<postgres, compose, attempt, bounds>>
    BY <1>10 DEF Migrate
  <2>3. /\ state \in States
        /\ \/ run'["migrate"] = "running" /\ state = container["migrate"]
           \/ state = "succeeded" /\ run'["migrate"] = "succeeded"
           \/ state = "failed" /\ run'["migrate"] = "failed"
    BY <2>1
  <2> HIDE DEF state
  <2>4. MigrationsTypeOK' /\ ContainersTypeOK'
    BY <2>1, <2>2, <2>3 DEF bounds
  <2>5. StartedOnLast'
    BY <2>1, <2>2, <2>3 DEF StartedOnLast, TakenBackAlone
  <2>6. TakenBackAlone'
    BY <2>1, <2>2, <2>3 DEF TakenBackAlone, StartedOnLast
  <2> QED BY <2>4, <2>5, <2>6
<1>11. CASE Lifespan
  BY <1>11 DEF Lifespan, Become, schemaVars, bounds, MigrationsTypeOK, StartedOnLast, TakenBackAlone
<1>12. ASSUME NEW startup \in {"starting", "stuck"}, Outage(startup) PROVE DeploymentInv'
  <2>1. (MigrationsTypeOK /\ ContainersTypeOK)'
    BY <1>12, RollbackLemma DEF Outage, MigrationsTypeOK
  <2>2. StartedOnLast'
    BY <1>12, RollbackLemma DEF Outage, StartedOnLast
  <2>3. TakenBackAlone'
    BY <1>12, RollbackLemma DEF Outage, TakenBackAlone
  <2> QED BY <2>1, <2>2, <2>3
<1>13. CASE Recover
  BY <1>13 DEF Recover, schemaVars, bounds, MigrationsTypeOK, StartedOnLast, TakenBackAlone
<1>14. CASE Reboot
  <2>1. (MigrationsTypeOK /\ ContainersTypeOK)'
    BY <1>14, RollbackLemma DEF Reboot, Killed, Alive, MigrationsTypeOK
  <2>2. StartedOnLast'
    BY <1>14, RollbackLemma DEF Reboot, Killed, Alive, StartedOnLast
  <2>3. TakenBackAlone'
    BY <1>14, RollbackLemma DEF Reboot, Killed, Alive, TakenBackAlone
  <2> QED BY <2>1, <2>2, <2>3
<1>15. CASE UNCHANGED vars
  BY <1>15 DEF vars, schemaVars, bounds, MigrationsTypeOK, StartedOnLast, TakenBackAlone
<1> QED BY <1>1, <1>2, <1>3, <1>4, <1>5, <1>6, <1>7, <1>8, <1>9, <1>10, <1>11, <1>12, <1>13,
           <1>14, <1>15 DEF Next, ContainerStep

-----------------------------------------------------------------------------
(* The statements.                                                           *)

\* What the i-th statement of the first revision creates, and its name.
Made(i) == initial_upgrade[i].object
Name(i) == Made(i).name

LEMMA InitialStatements ==
  /\ Len(initial_upgrade) = 13 /\ DOMAIN initial_upgrade = 1 .. 13
  /\ \A i \in 1 .. 13 : initial_upgrade[i].op = "create"
<1>1. Len(initial_upgrade) = 13 /\ DOMAIN initial_upgrade = 1 .. 13
  BY DEF initial_upgrade
<1>2. /\ initial_upgrade[1].op = "create" /\ initial_upgrade[2].op = "create"
      /\ initial_upgrade[3].op = "create" /\ initial_upgrade[4].op = "create"
      /\ initial_upgrade[5].op = "create" /\ initial_upgrade[6].op = "create"
      /\ initial_upgrade[7].op = "create" /\ initial_upgrade[8].op = "create"
      /\ initial_upgrade[9].op = "create" /\ initial_upgrade[10].op = "create"
      /\ initial_upgrade[11].op = "create" /\ initial_upgrade[12].op = "create"
      /\ initial_upgrade[13].op = "create"
  BY DEF initial_upgrade, Create
<1>3. \A i \in 1 .. 13 : initial_upgrade[i].op = "create"
  BY <1>2
<1> QED BY <1>1, <1>3

LEMMA DowngradeStatements ==
  /\ Len(initial_downgrade) = 13 /\ DOMAIN initial_downgrade = 1 .. 13
  /\ \A i \in 1 .. 13 : initial_downgrade[i].op = "drop"
<1>1. Len(initial_downgrade) = 13 /\ DOMAIN initial_downgrade = 1 .. 13
  BY DEF initial_downgrade
<1>2. /\ initial_downgrade[1].op = "drop" /\ initial_downgrade[2].op = "drop"
      /\ initial_downgrade[3].op = "drop" /\ initial_downgrade[4].op = "drop"
      /\ initial_downgrade[5].op = "drop" /\ initial_downgrade[6].op = "drop"
      /\ initial_downgrade[7].op = "drop" /\ initial_downgrade[8].op = "drop"
      /\ initial_downgrade[9].op = "drop" /\ initial_downgrade[10].op = "drop"
      /\ initial_downgrade[11].op = "drop" /\ initial_downgrade[12].op = "drop"
      /\ initial_downgrade[13].op = "drop"
  BY DEF initial_downgrade, Drop
<1>3. \A i \in 1 .. 13 : initial_downgrade[i].op = "drop"
  BY <1>2
<1> QED BY <1>1, <1>3

LEMMA InitialNames ==
  /\ Name(1) = "exchange_rates" /\ Name(2) = "shops" /\ Name(3) = "users"
  /\ Name(4) = "products" /\ Name(5) = "price_alerts"
  /\ Name(6) = "ix_price_alert_active_product" /\ Name(7) = "product_shops"
  /\ Name(8) = "ix_product_shop_product_id" /\ Name(9) = "user_products"
  /\ Name(10) = "price_history" /\ Name(11) = "ix_price_history_lookup"
  /\ Name(12) = "price_history_2026_06" /\ Name(13) = "price_history_2026_07"
BY DEF Name, Made, initial_upgrade, Create, Table, Index, Partition

LEMMA InitialNeeds ==
  /\ Made(1).of \cup Made(1).refs = {} /\ Made(2).of \cup Made(2).refs = {}
  /\ Made(3).of \cup Made(3).refs = {} /\ Made(4).of \cup Made(4).refs = {Name(2)}
  /\ Made(5).of \cup Made(5).refs = {Name(4), Name(3)} /\ Made(6).of \cup Made(6).refs = {Name(5)}
  /\ Made(7).of \cup Made(7).refs = {Name(4), Name(2)} /\ Made(8).of \cup Made(8).refs = {Name(7)}
  /\ Made(9).of \cup Made(9).refs = {Name(4), Name(3)} /\ Made(10).of \cup Made(10).refs = {Name(7)}
  /\ Made(11).of \cup Made(11).refs = {Name(10)} /\ Made(12).of \cup Made(12).refs = {Name(10)}
  /\ Made(13).of \cup Made(13).refs = {Name(10)}
BY DEF Name, Made, initial_upgrade, Create, Table, Index, Partition

LEMMA NamesDiffer == \A i, j \in 1 .. 13 : Name(i) = Name(j) => i = j
BY InitialNames

\* A statement needs what an earlier one created.
LEMMA NeedsEarlier ==
  \A i \in 1 .. 13 : \A n \in Made(i).of \cup Made(i).refs : \E j \in 1 .. i - 1 : n = Name(j)
BY InitialNeeds

\* The downgrade takes the objects back in the opposite order.
LEMMA DowngradeNames == \A i \in 1 .. 13 : initial_downgrade[i].name = Name(14 - i)
BY InitialNames DEF initial_downgrade, Drop

Tables == {"price_alerts", "product_shops", "price_history"}

LEMMA OfTables == \A i \in 1 .. 13 : Made(i).of \subseteq Tables
<1>1. /\ Made(1).of = {} /\ Made(2).of = {} /\ Made(3).of = {} /\ Made(4).of = {}
      /\ Made(5).of = {} /\ Made(7).of = {} /\ Made(9).of = {} /\ Made(10).of = {}
  BY DEF Made, initial_upgrade, Create, Table
<1>2. /\ Made(6).of = {"price_alerts"} /\ Made(8).of = {"product_shops"}
      /\ Made(11).of = {"price_history"} /\ Made(12).of = {"price_history"}
      /\ Made(13).of = {"price_history"}
  BY DEF Made, initial_upgrade, Create, Index, Partition
<1>3. \A i \in 1 .. 13 : i \in 1 .. 5 \/ i = 6 \/ i = 7 \/ i = 8 \/ i \in 9 .. 10 \/ i \in 11 .. 13
  OBVIOUS
<1> QED BY <1>1, <1>2 DEF Tables

\* What the second revision creates.
New(i) == scaling_upgrade[i].object

LEMMA ScalingStatements ==
  /\ Len(scaling_upgrade) = 6 /\ DOMAIN scaling_upgrade = 1 .. 6
  /\ \A i \in {1, 2, 4, 6} : scaling_upgrade[i].op = "create"
  /\ scaling_upgrade[3].op = "drop" /\ scaling_upgrade[3].name = Name(6)
  /\ scaling_upgrade[5].op = "drop" /\ scaling_upgrade[5].name = Name(11)
  /\ New(1).name = "ix_product_shop_shop_id" /\ New(2).name = "ix_price_alert_user_created"
  /\ New(4).name = "ix_price_alert_active" /\ New(6).name = Name(11)
  /\ New(1).of = {Name(7)} /\ New(2).of = {Name(5)} /\ New(4).of = {Name(5)} /\ New(6).of = {Name(10)}
  /\ \A i \in {1, 2, 4, 6} : New(i).refs = {}
<1>1. Len(scaling_upgrade) = 6 /\ DOMAIN scaling_upgrade = 1 .. 6
  BY DEF scaling_upgrade
<1>2. /\ scaling_upgrade[1].op = "create" /\ scaling_upgrade[2].op = "create"
      /\ scaling_upgrade[4].op = "create" /\ scaling_upgrade[6].op = "create"
      /\ New(1).refs = {} /\ New(2).refs = {} /\ New(4).refs = {} /\ New(6).refs = {}
  BY DEF scaling_upgrade, Create, Index, New
<1>3. /\ scaling_upgrade[3].op = "drop" /\ scaling_upgrade[3].name = Name(6)
      /\ scaling_upgrade[5].op = "drop" /\ scaling_upgrade[5].name = Name(11)
  BY InitialNames DEF scaling_upgrade, Drop
<1>4. /\ New(1).name = "ix_product_shop_shop_id" /\ New(2).name = "ix_price_alert_user_created"
      /\ New(4).name = "ix_price_alert_active" /\ New(6).name = Name(11)
  BY InitialNames DEF scaling_upgrade, Create, Index, New
<1>5. New(1).of = {Name(7)} /\ New(2).of = {Name(5)} /\ New(4).of = {Name(5)} /\ New(6).of = {Name(10)}
  BY InitialNames DEF scaling_upgrade, Create, Index, New
<1> QED BY <1>1, <1>2, <1>3, <1>4, <1>5

LEMMA NewNames ==
  /\ \A i \in {1, 2, 4} : \A j \in 1 .. 13 : New(i).name # Name(j)
  /\ New(1).name # New(2).name /\ New(1).name # New(4).name /\ New(2).name # New(4).name
BY ScalingStatements, InitialNames

LEMMA ScalingDowngrade ==
  /\ Len(scaling_downgrade) = 6 /\ DOMAIN scaling_downgrade = 1 .. 6
  /\ \A i \in {1, 3, 5, 6} : scaling_downgrade[i].op = "drop"
  /\ \A i \in {2, 4} : scaling_downgrade[i].op = "create"
  /\ scaling_downgrade[1].name = Name(11) /\ scaling_downgrade[3].name = New(4).name
  /\ scaling_downgrade[5].name = New(2).name /\ scaling_downgrade[6].name = New(1).name
  /\ scaling_downgrade[2].object = Made(11) /\ scaling_downgrade[4].object = Made(6)
<1>1. Len(scaling_downgrade) = 6 /\ DOMAIN scaling_downgrade = 1 .. 6
  BY DEF scaling_downgrade
<1>2. /\ scaling_downgrade[1].op = "drop" /\ scaling_downgrade[3].op = "drop"
      /\ scaling_downgrade[5].op = "drop" /\ scaling_downgrade[6].op = "drop"
      /\ scaling_downgrade[2].op = "create" /\ scaling_downgrade[4].op = "create"
  BY DEF scaling_downgrade, Create, Drop
<1>3. /\ scaling_downgrade[1].name = Name(11) /\ scaling_downgrade[3].name = New(4).name
      /\ scaling_downgrade[5].name = New(2).name /\ scaling_downgrade[6].name = New(1).name
  BY InitialNames, ScalingStatements DEF scaling_downgrade, Drop
<1>4. scaling_downgrade[2].object = Made(11) /\ scaling_downgrade[4].object = Made(6)
  BY DEF scaling_downgrade, Create, Made, initial_upgrade
<1> QED BY <1>1, <1>2, <1>3, <1>4

-----------------------------------------------------------------------------
(* The scripts of the runs.                                                  *)

IsFlattening(f, s) == f = [i \in 1 .. Len(s) |-> IF i = 1 THEN s[i] ELSE f[i-1] \o s[i]]

LEMMA FlattenIs ==
  ASSUME NEW s, Len(s) = 1 \/ Len(s) = 2
  PROVE  /\ Len(s) = 1 => FlattenSeq(s) = s[1]
         /\ Len(s) = 2 => FlattenSeq(s) = s[1] \o s[2]
<1> DEFINE f == CHOOSE g : IsFlattening(g, s)
           A(i) == IF i = 1 THEN s[1] ELSE s[1] \o s[2]
           h == [i \in 1 .. Len(s) |-> A(i)]
           B(i) == IF i = 1 THEN s[i] ELSE h[i-1] \o s[i]
<1>1. FlattenSeq(s) = f[Len(s)]
  BY DEF FlattenSeq, IsFlattening
<1>2. IsFlattening(h, s)
  <2>1. \A i \in 1 .. Len(s) : A(i) = B(i)
    <3> SUFFICES ASSUME NEW i \in 1 .. Len(s) PROVE A(i) = B(i)
      OBVIOUS
    <3>1. CASE i = 1
      BY <3>1
    <3>2. CASE i = 2
      <4>1. 2 - 1 = 1 /\ 1 \in 1 .. Len(s)
        OBVIOUS
      <4>2. h[1] = s[1]
        BY <4>1
      <4> QED BY <3>2, <4>1, <4>2
    <3> QED BY <3>1, <3>2
  <2>2. IsFlattening(h, s) <=> h = [i \in 1 .. Len(s) |-> B(i)]
    BY DEF IsFlattening
  <2> HIDE DEF A, B
  <2>3. [i \in 1 .. Len(s) |-> A(i)] = [i \in 1 .. Len(s) |-> B(i)]
    BY <2>1
  <2> QED BY <2>2, <2>3
<1>3. IsFlattening(f, s)
  BY <1>2
<1> HIDE DEF f, h
<1>4. f = [i \in 1 .. Len(s) |-> IF i = 1 THEN s[i] ELSE f[i-1] \o s[i]]
  BY <1>3 DEF IsFlattening
<1>5. \A i \in 1 .. Len(s) : f[i] = IF i = 1 THEN s[i] ELSE f[i-1] \o s[i]
  BY <1>4
<1>6. 1 \in 1 .. Len(s) /\ (Len(s) = 2 => 2 \in 1 .. Len(s)) /\ 2 - 1 = 1
  OBVIOUS
<1>7. f[1] = s[1] /\ (Len(s) = 2 => f[2] = f[1] \o s[2])
  <2>1. f[1] = s[1]
    BY ONLY <1>5, <1>6
  <2>2. \A i \in 1 .. Len(s) : i # 1 => f[i] = f[i-1] \o s[i]
    BY <1>5
  <2>3. 2 # 1
    OBVIOUS
  <2>4. ASSUME 2 \in 1 .. Len(s)
        PROVE  f[2] = f[2-1] \o s[2]
    BY <2>2, <2>3, <2>4, Zenon
  <2> QED BY <1>6, <2>1, <2>4
<1>8. f[Len(s)] = IF Len(s) = 1 THEN f[1] ELSE f[2]
  BY Zenon
<1> QED BY <1>1, <1>7, <1>8

LEMMA FlattenOne ==
  ASSUME NEW s, Len(s) = 1
  PROVE  FlattenSeq(s) = s[1]
<1>1. Len(s) = 1 \/ Len(s) = 2
  OBVIOUS
<1>2. Len(s) = 1 => FlattenSeq(s) = s[1]
  BY <1>1, FlattenIs
<1> QED BY <1>2

LEMMA FlattenTwo ==
  ASSUME NEW s, Len(s) = 2
  PROVE  FlattenSeq(s) = s[1] \o s[2]
<1>1. Len(s) = 1 \/ Len(s) = 2
  OBVIOUS
<1>2. Len(s) = 2 => FlattenSeq(s) = s[1] \o s[2]
  BY <1>1, FlattenIs
<1> QED BY <1>2

\* Both revisions upward.
Whole == initial_upgrade \o scaling_upgrade

LEMMA WholeIs ==
  /\ Len(Whole) = 19 /\ DOMAIN Whole = 1 .. 19
  /\ \A i \in 1 .. 13 : Whole[i] = initial_upgrade[i]
  /\ \A i \in 1 .. 6 : Whole[13 + i] = scaling_upgrade[i]
  /\ \A i \in 14 .. 19 : Whole[i] = scaling_upgrade[i - 13]
  /\ \E S : Whole \in Seq(S)
<1> DEFINE S == {initial_upgrade[i] : i \in 1 .. 13} \cup {scaling_upgrade[i] : i \in 1 .. 6}
<1>1. initial_upgrade \in Seq(S)
  <2>1. \A i \in 1 .. 13 : initial_upgrade[i] \in S
    OBVIOUS
  <2>2. initial_upgrade = [i \in 1 .. 13 |-> initial_upgrade[i]]
    BY DEF initial_upgrade
  <2> HIDE DEF S
  <2>3. initial_upgrade \in [1 .. 13 -> S]
    BY <2>1, <2>2
  <2> QED BY <2>3, SeqDef
<1>2. scaling_upgrade \in Seq(S)
  <2>1. \A i \in 1 .. 6 : scaling_upgrade[i] \in S
    OBVIOUS
  <2>2. scaling_upgrade = [i \in 1 .. 6 |-> scaling_upgrade[i]]
    BY DEF scaling_upgrade
  <2> HIDE DEF S
  <2>3. scaling_upgrade \in [1 .. 6 -> S]
    BY <2>1, <2>2
  <2> QED BY <2>3, SeqDef
<1> HIDE DEF S
<1>3. Len(initial_upgrade) = 13 /\ Len(scaling_upgrade) = 6
  BY InitialStatements, ScalingStatements
<1>4. /\ Whole \in Seq(S) /\ Len(Whole) = 19
      /\ \A i \in 1 .. 19 : Whole[i] = IF i <= 13 THEN initial_upgrade[i] ELSE scaling_upgrade[i - 13]
  <2>1. /\ Whole \in Seq(S)
        /\ Len(Whole) = Len(initial_upgrade) + Len(scaling_upgrade)
        /\ \A i \in 1 .. Len(initial_upgrade) + Len(scaling_upgrade) :
             Whole[i] = IF i <= Len(initial_upgrade) THEN initial_upgrade[i]
                        ELSE scaling_upgrade[i - Len(initial_upgrade)]
    BY <1>1, <1>2, ConcatProperties DEF Whole
  <2> QED BY <1>3, <2>1
<1>5. DOMAIN Whole = 1 .. 19
  BY <1>4, LenProperties
<1>6. \A i \in 1 .. 6 : Whole[13 + i] = scaling_upgrade[i]
  <2> TAKE i \in 1 .. 6
  <2>1. 13 + i \in 1 .. 19 /\ ~ (13 + i <= 13) /\ 13 + i - 13 = i
    OBVIOUS
  <2> QED BY <1>4, <2>1
<1>7. Whole \in Seq(S)
  BY <1>4
<1> QED BY <1>4, <1>5, <1>6, <1>7

LEMMA NewStatements == \A i \in 1 .. 6 : Whole[13 + i] = scaling_upgrade[i]
BY WholeIs

LEMMA Upgrades ==
  /\ LastRevision = 2 /\ Len(upgrade) = 2 /\ upgrade[1] = initial_upgrade /\ upgrade[2] = scaling_upgrade
  /\ downgrade[1] = initial_downgrade /\ downgrade[2] = scaling_downgrade
BY DEF LastRevision, upgrade, downgrade

LEMMA Flattened ==
  /\ \A v \in 0 .. 2 : FlattenSeq(SubSeq(upgrade, v + 1, v)) = <<>>
  /\ FlattenSeq(SubSeq(upgrade, 1, 1)) = initial_upgrade
  /\ FlattenSeq(SubSeq(upgrade, 2, 2)) = scaling_upgrade
  /\ FlattenSeq(SubSeq(upgrade, 1, 2)) = Whole
<1> DEFINE S == {initial_upgrade, scaling_upgrade}
<1>1. \A i \in 1 .. 2 : upgrade[i] \in S
  BY Upgrades
<1> HIDE DEF S
<1>2. ASSUME NEW v \in 0 .. 2
      PROVE  FlattenSeq(SubSeq(upgrade, v + 1, v)) = <<>>
  <2>1. SubSeq(upgrade, v + 1, v) = <<>>
    BY SubSeqEmpty
  <2>2. Len(<<>>) = 0
    BY EmptySeq
  <2> QED BY <2>1, <2>2 DEF FlattenSeq
<1>3. ASSUME NEW m \in 1 .. 2, NEW n \in m .. 2
      PROVE  /\ Len(SubSeq(upgrade, m, n)) = n - m + 1
             /\ \A i \in 1 .. n - m + 1 : SubSeq(upgrade, m, n)[i] = upgrade[m + i - 1]
  <2>1. \A i \in m .. n : upgrade[i] \in S
    BY <1>1
  <2>2. m \in Int /\ n \in Int /\ m <= n
    OBVIOUS
  <2> QED BY <2>1, <2>2, SubSeqProperties
<1>4. FlattenSeq(SubSeq(upgrade, 1, 1)) = initial_upgrade
  <2> DEFINE s == SubSeq(upgrade, 1, 1)
  <2>1. Len(s) = 1 /\ s[1] = upgrade[1]
    BY <1>3
  <2> HIDE DEF s
  <2>2. Len(s) \in {1, 2} /\ Len(s) = 1
    BY <2>1
  <2>3. FlattenSeq(s) = s[1]
    BY <2>2, FlattenOne
  <2>4. FlattenSeq(s) = initial_upgrade
    BY <2>1, <2>3, Upgrades
  <2> QED BY <2>4 DEF s
<1>5. FlattenSeq(SubSeq(upgrade, 2, 2)) = scaling_upgrade
  <2> DEFINE s == SubSeq(upgrade, 2, 2)
  <2>1. Len(s) = 1 /\ s[1] = upgrade[2]
    BY <1>3
  <2> HIDE DEF s
  <2>2. Len(s) \in {1, 2} /\ Len(s) = 1
    BY <2>1
  <2>3. FlattenSeq(s) = s[1]
    BY <2>2, FlattenOne
  <2>4. FlattenSeq(s) = scaling_upgrade
    BY <2>1, <2>3, Upgrades
  <2> QED BY <2>4 DEF s
<1>6. FlattenSeq(SubSeq(upgrade, 1, 2)) = Whole
  <2> DEFINE s == SubSeq(upgrade, 1, 2)
  <2>1. Len(s) = 2 /\ s[1] = upgrade[1] /\ s[2] = upgrade[2]
    BY <1>3
  <2> HIDE DEF s
  <2>2. Len(s) \in {1, 2}
    BY <2>1
  <2>3. FlattenSeq(s) = s[1] \o s[2]
    BY <2>1, FlattenTwo
  <2>4. FlattenSeq(s) = Whole
    BY <2>1, <2>3, Upgrades DEF Whole
  <2> QED BY <2>4 DEF s
<1> QED BY <1>2, <1>4, <1>5, <1>6

\* What a run can be for: from a version it reads to the one it goes to.
IsWay(f, g) == \/ (f = 0 /\ g = 2) \/ (f = 1 /\ g = 2) \/ (f = 2 /\ g = 2)
               \/ (f = 2 /\ g = 1) \/ (f = 1 /\ g = 0)

LEMMA Scripts ==
  /\ Script(0, 2) = Whole /\ Script(1, 2) = scaling_upgrade /\ Script(2, 2) = <<>>
  /\ Script(2, 1) = scaling_downgrade /\ Script(1, 0) = initial_downgrade
<1>1. Script(0, 2) = Whole
  BY Flattened DEF Script
<1>2. Script(1, 2) = scaling_upgrade
  BY Flattened DEF Script
<1>3. Script(2, 2) = <<>>
  BY Flattened DEF Script
<1> QED BY <1>1, <1>2, <1>3, Upgrades DEF Script

-----------------------------------------------------------------------------
(* What one statement does, and how the next script takes it back.           *)

Names(S) == {o.name : o \in S}
Requires(o) == o.of \cup o.refs

Applied(s, S) == (S \ Removed(s, S)) \cup Added(s)

Cascades(s, S) == s.op = "drop" /\ \E o \in S : s.name \in o.of

\* Statement s can be executed on S, takes along nothing it does not name, and makes T.
Moves(s, S, T) ==
  /\ s.op \in {"create", "drop"}
  /\ Executable(s, S) /\ ~ Cascades(s, S)
  /\ T = Applied(s, S)

\* Every name stands for one object, and what an object needs is there.
Sound(S) ==
  /\ \A o, p \in S : o.name = p.name => o = p
  /\ \A o \in S : Requires(o) \subseteq Names(S) \ {o.name}

LEMMA CreateAndDrop ==
  ASSUME NEW S, Sound(S), NEW o, o.name \notin Names(S), Requires(o) \subseteq Names(S),
         NEW c, c.op = "create", c.object = o, NEW d, d.op = "drop", d.name = o.name
  PROVE  /\ Moves(c, S, S \cup {o}) /\ Moves(d, S \cup {o}, S)
         /\ Sound(S \cup {o})
<1> DEFINE T == S \cup {o}
<1>0. "create" # "drop"
  OBVIOUS
<1>1. Moves(c, S, T)
  <2>1. Executable(c, S)
    BY <1>0 DEF Executable, Names, Requires
  <2>2. ~ Cascades(c, S)
    BY <1>0 DEF Cascades
  <2>3. Removed(c, S) = {} /\ Added(c) = {o}
    BY <1>0 DEF Removed, Added
  <2> QED BY <2>1, <2>2, <2>3 DEF Moves, Applied
<1>2. \A p \in T : o.name \notin p.of \cup p.refs
  BY DEF Sound, Requires, Names
<1>3. Moves(d, T, S)
  <2>1. Executable(d, T)
    BY <1>0, <1>2 DEF Executable
  <2>2. ~ Cascades(d, T)
    BY <1>0, <1>2 DEF Cascades
  <2>3. Removed(d, T) = {o}
    BY <1>2 DEF Removed, Names
  <2>4. Added(d) = {} /\ o \notin S
    BY <1>0 DEF Added, Names
  <2>5. S = Applied(d, T)
    BY <2>3, <2>4 DEF Applied
  <2> QED BY <2>1, <2>2, <2>5 DEF Moves
<1>4. Sound(T)
  <2>1. \A p, q \in T : p.name = q.name => p = q
    BY DEF Sound, Names
  <2>2. Names(T) = Names(S) \cup {o.name}
    BY DEF Names
  <2>3. \A p \in T : Requires(p) \subseteq Names(T) \ {p.name}
    <3>1. ASSUME NEW p \in S PROVE Requires(p) \subseteq Names(T) \ {p.name}
      BY <2>2 DEF Sound
    <3>2. Requires(o) \subseteq Names(T) \ {o.name}
      BY <2>2
    <3> QED BY <3>1, <3>2
  <2> QED BY <2>1, <2>3 DEF Sound
<1> QED BY <1>1, <1>3, <1>4

LEMMA WithoutOne ==
  ASSUME NEW T, Sound(T), NEW o \in T, \A p \in T : o.name \notin Requires(p)
  PROVE  /\ Sound(T \ {o}) /\ (T \ {o}) \cup {o} = T
         /\ o.name \notin Names(T \ {o}) /\ Requires(o) \subseteq Names(T \ {o})
<1>1. Names(T \ {o}) = Names(T) \ {o.name}
  BY DEF Sound, Names
<1> QED BY <1>1 DEF Sound

LEMMA DropAndCreate ==
  ASSUME NEW T, Sound(T), NEW o \in T, \A p \in T : o.name \notin Requires(p),
         NEW c, c.op = "create", c.object = o, NEW d, d.op = "drop", d.name = o.name
  PROVE  Moves(d, T, T \ {o}) /\ Moves(c, T \ {o}, T) /\ Sound(T \ {o})
<1> DEFINE S == T \ {o}
<1>1. /\ Sound(S) /\ S \cup {o} = T
      /\ o.name \notin Names(S) /\ Requires(o) \subseteq Names(S)
  BY WithoutOne
<1> HIDE DEF S
<1>2. Moves(c, S, S \cup {o}) /\ Moves(d, S \cup {o}, S)
  BY <1>1, CreateAndDrop
<1> QED BY <1>1, <1>2 DEF S

-----------------------------------------------------------------------------
(* The schemas an upgrade of an empty database goes through.                 *)

\* The indices of what the first i statements of both revisions leave: two indexes of
\* the first revision are dropped by the second.
Old(i) == {j \in 1 .. 13 : j <= i /\ ~ (j = 6 /\ i >= 16) /\ ~ (j = 11 /\ i >= 18)}
Recent(i) == {j \in {1, 2, 4, 6} : 13 + j <= i}
State(i) == {Made(j) : j \in Old(i)} \cup {New(j) : j \in Recent(i)}

\* The statement of a downgrade that takes back the i-th one of the upgrades.
Undo(i) == IF i <= 13 THEN initial_downgrade[14 - i] ELSE scaling_downgrade[20 - i]

LEMMA NeedsTables ==
  /\ \A j \in 1 .. 13 : Name(6) \notin Requires(Made(j)) /\ Name(11) \notin Requires(Made(j))
  /\ \A j \in {1, 2, 4, 6} : Name(6) \notin Requires(New(j)) /\ Name(11) \notin Requires(New(j))
<1>1. ASSUME NEW j \in 1 .. 13, NEW i \in {6, 11}
      PROVE  Name(i) \notin Requires(Made(j))
  <2>1. Requires(Made(j)) \subseteq {Name(2), Name(3), Name(4), Name(5), Name(7), Name(10)}
    BY InitialNeeds DEF Requires
  <2>2. \A k \in {2, 3, 4, 5, 7, 10} : Name(i) # Name(k)
    BY NamesDiffer
  <2> QED BY <2>1, <2>2
<1>2. ASSUME NEW j \in {1, 2, 4, 6}, NEW i \in {6, 11}
      PROVE  Name(i) \notin Requires(New(j))
  <2>1. Requires(New(j)) \subseteq {Name(7), Name(5), Name(10)}
    BY ScalingStatements DEF Requires
  <2>2. \A k \in {5, 7, 10} : Name(i) # Name(k)
    BY NamesDiffer
  <2> QED BY <2>1, <2>2
<1> QED BY <1>1, <1>2

LEMMA FirstStates ==
  /\ State(0) = {}
  /\ \A i \in 0 .. 13 : State(i) = {Made(j) : j \in 1 .. i}
<1>1. ASSUME NEW i \in 0 .. 13
      PROVE  Old(i) = 1 .. i /\ Recent(i) = {}
  BY DEF Old, Recent
<1>2. \A i \in 0 .. 13 : State(i) = {Made(j) : j \in 1 .. i}
  BY <1>1 DEF State
<1>3. 1 .. 0 = {} /\ 0 \in 0 .. 13
  OBVIOUS
<1> QED BY <1>2, <1>3

\* The first revision, one object after the other, each on what the earlier ones made.
LEMMA InitialMoves ==
  ASSUME NEW i \in 1 .. 13, Sound(State(i - 1))
  PROVE  /\ Moves(Whole[i], State(i - 1), State(i)) /\ Moves(Undo(i), State(i), State(i - 1))
         /\ Sound(State(i))
<1> DEFINE S == State(i - 1)
           o == Made(i)
<1>1. S = {Made(j) : j \in 1 .. i - 1} /\ State(i) = S \cup {o}
  <2>1. i - 1 \in 0 .. 13 /\ i \in 0 .. 13 /\ 1 .. i = (1 .. i - 1) \cup {i}
    OBVIOUS
  <2> QED BY <2>1, FirstStates
<1>2. o.name \notin Names(S)
  <2>1. \A j \in 1 .. i - 1 : j \in 1 .. 13 /\ j # i
    OBVIOUS
  <2>2. \A j \in 1 .. i - 1 : Name(j) # Name(i)
    BY <2>1, NamesDiffer
  <2> QED BY <1>1, <2>2 DEF Names, Name
<1>3. Requires(o) \subseteq Names(S)
  BY <1>1, NeedsEarlier DEF Names, Name, Requires
<1>4. Whole[i].op = "create" /\ Whole[i].object = o
  BY WholeIs, InitialStatements DEF Made
<1>5. Undo(i).op = "drop" /\ Undo(i).name = o.name
  <2>1. 14 - i \in 1 .. 13 /\ 14 - (14 - i) = i /\ i <= 13
    OBVIOUS
  <2> QED BY <2>1, DowngradeStatements, DowngradeNames DEF Undo, Name
<1> HIDE DEF S, o
<1>6. /\ Moves(Whole[i], S, S \cup {o}) /\ Moves(Undo(i), S \cup {o}, S)
      /\ Sound(S \cup {o})
  <2>1. Sound(S)
    BY DEF S
  <2> QED BY <1>2, <1>3, <1>4, <1>5, <2>1, CreateAndDrop
<1> QED BY <1>1, <1>6 DEF S

\* The new indexes.
LEMMA IndexMoves ==
  ASSUME NEW j \in {1, 2, 4, 6}, Sound(State(12 + j))
  PROVE  /\ Moves(Whole[13 + j], State(12 + j), State(13 + j))
         /\ Moves(Undo(13 + j), State(13 + j), State(12 + j))
         /\ Sound(State(13 + j))
<1> DEFINE S == State(12 + j)
           o == New(j)
<1>1. State(13 + j) = S \cup {o}
  <2>1. Old(13 + j) = Old(12 + j)
    BY DEF Old
  <2>2. Recent(13 + j) = Recent(12 + j) \cup {j}
    BY DEF Recent
  <2> QED BY <2>1, <2>2 DEF State
<1>2. o.name \notin Names(S)
  <2>1. \A i \in Old(12 + j) : Name(i) # o.name
    <3>1. Old(12 + j) \subseteq 1 .. 13 /\ (j = 6 => 11 \notin Old(12 + j))
      BY DEF Old
    <3> QED BY <3>1, NewNames, ScalingStatements, NamesDiffer
  <2>2. \A i \in Recent(12 + j) : New(i).name # o.name
    <3>1. \A i \in Recent(12 + j) : i \in {1, 2, 4} /\ i # j
      BY DEF Recent
    <3> QED BY <3>1, NewNames, ScalingStatements
  <2> QED BY <2>1, <2>2 DEF State, Names, Name
<1>3. Requires(o) \subseteq Names(S)
  <2>1. {5, 7, 10} \subseteq Old(12 + j)
    BY DEF Old
  <2>2. Requires(o) \subseteq {Name(5), Name(7), Name(10)}
    BY ScalingStatements DEF Requires
  <2>3. Made(5) \in S /\ Made(7) \in S /\ Made(10) \in S
    BY <2>1 DEF State
  <2>4. Name(5) \in Names(S) /\ Name(7) \in Names(S) /\ Name(10) \in Names(S)
    <3> HIDE DEF S
    <3> QED BY <2>3 DEF Names, Name
  <2> QED BY <2>2, <2>4
<1>4. Whole[13 + j].op = "create" /\ Whole[13 + j].object = o
  <2>1. j \in 1 .. 6
    OBVIOUS
  <2>2. Whole[13 + j] = scaling_upgrade[j]
    BY <2>1, NewStatements
  <2> QED BY <2>2, ScalingStatements DEF New
<1>5. Undo(13 + j).op = "drop" /\ Undo(13 + j).name = o.name
  <2>1. ~ (13 + j <= 13) /\ 20 - (13 + j) = 7 - j
    OBVIOUS
  <2>2. Undo(13 + j) = scaling_downgrade[7 - j]
    BY <2>1 DEF Undo
  <2> QED BY <2>2, ScalingDowngrade, ScalingStatements
<1> HIDE DEF S, o
<1>6. /\ Moves(Whole[13 + j], S, S \cup {o}) /\ Moves(Undo(13 + j), S \cup {o}, S)
      /\ Sound(S \cup {o})
  <2>1. Sound(S)
    BY DEF S
  <2> QED BY <1>2, <1>3, <1>4, <1>5, <2>1, CreateAndDrop
<1> QED BY <1>1, <1>6 DEF S

\* The indexes that are replaced: the j-th statement drops what the i-th one made.
LEMMA ReplacedMoves ==
  ASSUME NEW j, NEW i, (j = 3 /\ i = 6) \/ (j = 5 /\ i = 11), Sound(State(12 + j))
  PROVE  /\ Moves(Whole[13 + j], State(12 + j), State(13 + j))
         /\ Moves(Undo(13 + j), State(13 + j), State(12 + j))
         /\ Sound(State(13 + j))
<1> DEFINE T == State(12 + j)
           o == Made(i)
<1>1. o \in T /\ State(13 + j) = T \ {o}
  <2>1. i \in Old(12 + j) /\ Old(13 + j) = Old(12 + j) \ {i} /\ Old(12 + j) \subseteq 1 .. 13
    BY DEF Old
  <2>2. Recent(13 + j) = Recent(12 + j) /\ Recent(12 + j) \subseteq {1, 2, 4}
    BY DEF Recent
  <2>3. \A k \in Old(13 + j) : Made(k) # o
    BY <2>1, NamesDiffer DEF Name
  <2>4. \A k \in Recent(12 + j) : New(k) # o
    BY <2>2, NewNames DEF Name
  <2> QED BY <2>1, <2>2, <2>3, <2>4 DEF State
<1>2. \A p \in T : o.name \notin Requires(p)
  <2>1. Old(12 + j) \subseteq 1 .. 13 /\ Recent(12 + j) \subseteq {1, 2, 4, 6}
    BY DEF Old, Recent
  <2> QED BY <2>1, NeedsTables DEF State, Name
<1>3. Whole[13 + j].op = "drop" /\ Whole[13 + j].name = o.name
  BY WholeIs, ScalingStatements DEF Name
<1>4. Undo(13 + j).op = "create" /\ Undo(13 + j).object = o
  <2>1. ~ (13 + j <= 13) /\ 20 - (13 + j) = 7 - j
    OBVIOUS
  <2>2. Undo(13 + j) = scaling_downgrade[7 - j]
    BY <2>1 DEF Undo
  <2> QED BY <2>2, ScalingDowngrade
<1> HIDE DEF T, o
<1>5. Moves(Whole[13 + j], T, T \ {o}) /\ Moves(Undo(13 + j), T \ {o}, T) /\ Sound(T \ {o})
  <2>1. Sound(T)
    BY DEF T
  <2> QED BY <1>1, <1>2, <1>3, <1>4, <2>1, DropAndCreate
<1> QED BY <1>1, <1>5 DEF T

LEMMA StatesMove ==
  \A i \in 0 .. 18 : /\ Moves(Whole[i + 1], State(i), State(i + 1))
                     /\ Moves(Undo(i + 1), State(i + 1), State(i))
                     /\ Sound(State(i))
<1> DEFINE P == [i \in 0 .. 19 |-> Sound(State(i))]
           M(i) == /\ Moves(Whole[i + 1], State(i), State(i + 1))
                   /\ Moves(Undo(i + 1), State(i + 1), State(i))
<1>1. Sound(State(0))
  BY FirstStates DEF Sound
<1>2. ASSUME NEW i \in 0 .. 18, Sound(State(i))
      PROVE  M(i) /\ Sound(State(i + 1))
  <2>1. CASE i + 1 \in 1 .. 13
    <3> DEFINE k == i + 1
    <3>1. k - 1 = i /\ k \in 1 .. 13
      BY <2>1
    <3> HIDE DEF k
    <3>2. Sound(State(k - 1))
      BY <1>2, <3>1
    <3>3. /\ Moves(Whole[k], State(k - 1), State(k)) /\ Moves(Undo(k), State(k), State(k - 1))
          /\ Sound(State(k))
      BY <3>1, <3>2, InitialMoves
    <3> QED BY <3>1, <3>3 DEF k
  <2>2. CASE i \in {13, 14, 16, 18}
    <3> DEFINE k == i - 12
    <3>1. k \in {1, 2, 4, 6} /\ 12 + k = i /\ 13 + k = i + 1
      BY <2>2
    <3> HIDE DEF k
    <3>2. Sound(State(12 + k))
      BY <1>2, <3>1
    <3>3. /\ Moves(Whole[13 + k], State(12 + k), State(13 + k))
          /\ Moves(Undo(13 + k), State(13 + k), State(12 + k)) /\ Sound(State(13 + k))
      BY <3>1, <3>2, IndexMoves
    <3> QED BY <3>1, <3>3
  <2>3. CASE i \in {15, 17}
    <3> DEFINE k == i - 12
    <3>1. (k = 3 \/ k = 5) /\ 12 + k = i /\ 13 + k = i + 1
      BY <2>3
    <3> HIDE DEF k
    <3>2. Sound(State(12 + k))
      BY <1>2, <3>1
    <3>3. \E j : (k = 3 /\ j = 6) \/ (k = 5 /\ j = 11)
      BY <3>1
    <3>4. /\ Moves(Whole[13 + k], State(12 + k), State(13 + k))
          /\ Moves(Undo(13 + k), State(13 + k), State(12 + k)) /\ Sound(State(13 + k))
      BY <3>2, <3>3, ReplacedMoves
    <3> QED BY <3>1, <3>4
  <2> QED BY <2>1, <2>2, <2>3
<1> HIDE DEF M
<1>3. P[0] /\ \A i \in 0 .. 19 - 1 : P[i] => P[i + 1]
  BY <1>1, <1>2
<1>4. \A i \in 0 .. 19 : P[i]
  <2> HIDE DEF P
  <2> QED BY <1>3, UpTo
<1>5. \A i \in 0 .. 18 : Sound(State(i))
  BY <1>4
<1> QED BY <1>2, <1>5 DEF M

-----------------------------------------------------------------------------
(* What a run makes of the schema.                                           *)

Outcome(t) == FoldLeft(LAMBDA S, s : (S \ Removed(s, S)) \cup Added(s), {}, t)

OutcomeFold(g, t) ==
  g = [s \in SUBSET DOMAIN t |->
         IF s = {} THEN {}
         ELSE LET x == Max(s) IN (g[s \ {x}] \ Removed(t[x], g[s \ {x}])) \cup Added(t[x])]

LEMMA OutcomeFoldExists ==
  ASSUME NEW n \in Nat, NEW t, DOMAIN t = 1 .. n
  PROVE  \E g : OutcomeFold(g, t)
<1> DEFINE I == 1 .. n
           V == SUBSET UNION {Added(t[i]) : i \in I}
           F == [p \in I \X V |-> Applied(t[p[1]], p[2])]
           c == [s \in SUBSET I |-> Max(s)]
<1>1. IsFiniteSet(I) /\ I \subseteq Int
  BY FS_Interval
<1>2. \A x \in I, S \in V : F[<<x, S>>] = Applied(t[x], S)
  OBVIOUS
<1>3. F \in [I \X V -> V]
  <2>1. ASSUME NEW x \in I, NEW S \in V PROVE Applied(t[x], S) \in V
    BY DEF Applied
  <2> HIDE DEF I, V
  <2> QED BY <2>1
<1>4. Chooses(c, I)
  <2> SUFFICES ASSUME NEW s \in SUBSET I, s # {}
               PROVE  Max(s) \in s
    BY DEF Chooses
  <2>1. IsFiniteSet(s) /\ s \subseteq Int
    BY <1>1, FS_Subset
  <2>2. \E x \in s : \A y \in s : x >= y
    BY <2>1, HasGreatest
  <2> QED BY <2>2 DEF Max
<1>5. {} \in V
  OBVIOUS
<1> HIDE DEF V, F
<1>6. PICK g \in [SUBSET I -> V] : IsFold(g, I, {}, F, c)
  <2> HIDE DEF I, c
  <2> QED BY <1>1, <1>3, <1>4, <1>5, TypedFold
<1> DEFINE G(s) == IF s = {} THEN {} ELSE F[<<c[s], g[s \ {c[s]}]>>]
           H(s) == IF s = {} THEN {}
                   ELSE LET x == Max(s) IN (g[s \ {x}] \ Removed(t[x], g[s \ {x}])) \cup Added(t[x])
<1>7. \A s \in SUBSET I : G(s) = H(s)
  <2> SUFFICES ASSUME NEW s \in SUBSET I, s # {}
               PROVE  F[<<c[s], g[s \ {c[s]}]>>] = Applied(t[Max(s)], g[s \ {Max(s)}])
    BY DEF Applied
  <2>1. c[s] = Max(s) /\ c[s] \in I
    BY <1>4 DEF Chooses
  <2> HIDE DEF c
  <2>2. g[s \ {c[s]}] \in V
    BY <1>6
  <2> QED BY <1>2, <2>1, <2>2
<1>8. g = [s \in SUBSET I |-> G(s)]
  BY <1>6 DEF IsFold
<1>9. OutcomeFold(g, t) <=> g = [s \in SUBSET I |-> H(s)]
  BY DEF OutcomeFold
<1> HIDE DEF G, H
<1>10. [s \in SUBSET I |-> G(s)] = [s \in SUBSET I |-> H(s)]
  BY <1>7
<1> QED BY <1>8, <1>9, <1>10

\* The beginning of both revisions, replayed.
LEMMA OutcomeIs ==
  ASSUME NEW n \in 0 .. 19, NEW t, DOMAIN t = 1 .. n, \A i \in 1 .. n : t[i] = Whole[i]
  PROVE  Outcome(t) = State(n)
<1> DEFINE g == CHOOSE h : OutcomeFold(h, t)
           P == [k \in 0 .. n |-> g[1 .. k] = State(k)]
<1>1. Outcome(t) = g[DOMAIN t]
  BY DEF Outcome, FoldLeft, MapThenFoldSet, OutcomeFold
<1>2. OutcomeFold(g, t)
  BY OutcomeFoldExists
<1> HIDE DEF g
<1>3. \A s \in SUBSET (1 .. n) :
        g[s] = IF s = {} THEN {} ELSE Applied(t[Max(s)], g[s \ {Max(s)}])
  BY <1>2 DEF OutcomeFold, Applied
<1>4. g[1 .. 0] = State(0)
  <2>1. 1 .. 0 = {} /\ {} \in SUBSET (1 .. n)
    OBVIOUS
  <2> QED BY <1>3, <2>1, FirstStates
<1>5. ASSUME NEW k \in 0 .. n - 1, g[1 .. k] = State(k)
      PROVE  g[1 .. k + 1] = State(k + 1)
  <2> DEFINE s == 1 .. k + 1
  <2>1. s \in SUBSET (1 .. n) /\ s # {} /\ k + 1 \in s /\ s \ {k + 1} = 1 .. k
    <3>1. k \in Nat /\ k + 1 <= n /\ n \in Nat
      BY <1>5
    <3>2. \A x \in s : x \in 1 .. n
      BY <3>1
    <3>3. k + 1 \in s
      BY <3>1
    <3>4. s \ {k + 1} = 1 .. k
      BY <3>1
    <3> QED BY <3>2, <3>3, <3>4
  <2>2. Max(s) = k + 1
    <3>1. \A x \in s : (\A y \in s : x >= y) => x = k + 1
      BY <2>1
    <3>2. \A y \in s : k + 1 >= y
      OBVIOUS
    <3> HIDE DEF s
    <3> QED BY <2>1, <3>1, <3>2 DEF Max
  <2>3. k \in 0 .. 18 /\ k + 1 \in 1 .. n
    OBVIOUS
  <2> HIDE DEF s
  <2>4. g[s] = Applied(t[k + 1], g[1 .. k])
    BY <1>3, <2>1, <2>2
  <2>5. State(k + 1) = Applied(Whole[k + 1], State(k))
    BY <2>3, StatesMove DEF Moves
  <2> QED BY <1>5, <2>3, <2>4, <2>5 DEF s
<1>6. \A k \in 0 .. n : P[k]
  <2>1. 0 \in 0 .. n /\ \A k \in 0 .. n - 1 : k \in 0 .. n /\ k + 1 \in 0 .. n
    OBVIOUS
  <2>2. P[0]
    BY <1>4, <2>1
  <2>3. \A k \in 0 .. n - 1 : P[k] => P[k + 1]
    BY <1>5, <2>1
  <2> HIDE DEF P
  <2> QED BY <2>2, <2>3, UpTo
<1>7. n \in 0 .. n
  OBVIOUS
<1> QED BY <1>1, <1>6, <1>7

\* How far a version is along both revisions.
Level(v) == IF v = 0 THEN 0 ELSE IF v = 1 THEN 13 ELSE 19

LEMMA ReplayIs == \A v \in 0 .. 2 : Replay[v] = State(Level(v))
<1>1. \A v \in 0 .. 2 : Replay[v] = Outcome(FlattenSeq(SubSeq(upgrade, 1, v)))
  BY Upgrades DEF Replay, Outcome
<1>2. Replay[0] = State(0)
  <2>1. FlattenSeq(SubSeq(upgrade, 1, 0)) = <<>>
    <3>1. 0 \in 0 .. 2 /\ 0 + 1 = 1
      OBVIOUS
    <3> QED BY <3>1, Flattened
  <2> DEFINE t == <<>>
  <2>2. DOMAIN t = 1 .. 0 /\ \A i \in 1 .. 0 : t[i] = Whole[i]
    OBVIOUS
  <2> HIDE DEF t
  <2>3. Outcome(t) = State(0)
    <3>1. 0 \in 0 .. 19
      OBVIOUS
    <3> QED BY <2>2, <3>1, OutcomeIs
  <2> QED BY <1>1, <2>1, <2>3 DEF t
<1>3. Replay[1] = State(13)
  <2> DEFINE t == initial_upgrade
  <2>1. DOMAIN t = 1 .. 13 /\ \A i \in 1 .. 13 : t[i] = Whole[i]
    BY InitialStatements, WholeIs
  <2> HIDE DEF t
  <2>2. Outcome(t) = State(13)
    <3>1. 13 \in 0 .. 19
      OBVIOUS
    <3> QED BY <2>1, <3>1, OutcomeIs
  <2> QED BY <1>1, <2>2, Flattened DEF t
<1>4. Replay[2] = State(19)
  <2>1. Outcome(Whole) = State(19)
    <3>1. 19 \in 0 .. 19 /\ DOMAIN Whole = 1 .. 19 /\ \A i \in 1 .. 19 : Whole[i] = Whole[i]
      BY WholeIs
    <3> QED BY <3>1, OutcomeIs
  <2> QED BY <1>1, <2>1, Flattened
<1> QED BY <1>2, <1>3, <1>4 DEF Level
\* How far a run has come along both revisions, up or down, after k statements.
Place(f, g, k) == IF g < f THEN Level(f) - k ELSE Level(f) + k

LEMMA Places ==
  \A k \in Int : /\ Place(0, 2, k) = k /\ Place(1, 2, k) = 13 + k /\ Place(2, 2, k) = 19 + k
                 /\ Place(2, 1, k) = 19 - k /\ Place(1, 0, k) = 13 - k
BY DEF Place, Level

LEMMA Lengths ==
  /\ Len(Script(0, 2)) = 19 /\ DOMAIN Script(0, 2) = 1 .. 19
  /\ Len(Script(1, 2)) = 6 /\ DOMAIN Script(1, 2) = 1 .. 6
  /\ Len(Script(2, 2)) = 0 /\ DOMAIN Script(2, 2) = 1 .. 0
  /\ Len(Script(2, 1)) = 6 /\ DOMAIN Script(2, 1) = 1 .. 6
  /\ Len(Script(1, 0)) = 13 /\ DOMAIN Script(1, 0) = 1 .. 13
<1> DEFINE e == <<>>
<1>1. Len(e) = 0 /\ DOMAIN e = 1 .. 0
  OBVIOUS
<1> HIDE DEF e
<1>2. Script(2, 2) = e
  BY Scripts DEF e
<1>3. Len(Script(0, 2)) = 19 /\ DOMAIN Script(0, 2) = 1 .. 19
  BY Scripts, WholeIs
<1>4. Len(Script(1, 2)) = 6 /\ DOMAIN Script(1, 2) = 1 .. 6
  BY Scripts, ScalingStatements
<1>5. Len(Script(2, 1)) = 6 /\ DOMAIN Script(2, 1) = 1 .. 6
  BY Scripts, ScalingDowngrade
<1>6. Len(Script(1, 0)) = 13 /\ DOMAIN Script(1, 0) = 1 .. 13
  BY Scripts, DowngradeStatements
<1> QED BY <1>1, <1>2, <1>3, <1>4, <1>5, <1>6

LEMMA WayCases ==
  ASSUME NEW f, NEW g
  PROVE  /\ f = 0 /\ g = 2 => /\ Script(f, g) = Whole
                           /\ Len(Script(f, g)) = 19 /\ DOMAIN Script(f, g) = 1 .. 19
                           /\ \A k \in Int : Place(f, g, k) = k
         /\ f = 1 /\ g = 2 => /\ Script(f, g) = scaling_upgrade
                           /\ Len(Script(f, g)) = 6 /\ DOMAIN Script(f, g) = 1 .. 6
                           /\ \A k \in Int : Place(f, g, k) = 13 + k
         /\ f = 2 /\ g = 2 => /\ Script(f, g) = <<>>
                           /\ Len(Script(f, g)) = 0 /\ DOMAIN Script(f, g) = 1 .. 0
                           /\ \A k \in Int : Place(f, g, k) = 19 + k
         /\ f = 2 /\ g = 1 => /\ Script(f, g) = scaling_downgrade
                           /\ Len(Script(f, g)) = 6 /\ DOMAIN Script(f, g) = 1 .. 6
                           /\ \A k \in Int : Place(f, g, k) = 19 - k
         /\ f = 1 /\ g = 0 => /\ Script(f, g) = initial_downgrade
                           /\ Len(Script(f, g)) = 13 /\ DOMAIN Script(f, g) = 1 .. 13
                           /\ \A k \in Int : Place(f, g, k) = 13 - k
<1>1. ASSUME f = 0, g = 2
      PROVE  /\ Script(f, g) = Whole
             /\ Len(Script(f, g)) = 19 /\ DOMAIN Script(f, g) = 1 .. 19
             /\ \A k \in Int : Place(f, g, k) = k
  BY <1>1, Scripts, Lengths, Places, Zenon
<1>2. ASSUME f = 1, g = 2
      PROVE  /\ Script(f, g) = scaling_upgrade
             /\ Len(Script(f, g)) = 6 /\ DOMAIN Script(f, g) = 1 .. 6
             /\ \A k \in Int : Place(f, g, k) = 13 + k
  BY <1>2, Scripts, Lengths, Places, Zenon
<1>3. ASSUME f = 2, g = 2
      PROVE  /\ Script(f, g) = <<>>
             /\ Len(Script(f, g)) = 0 /\ DOMAIN Script(f, g) = 1 .. 0
             /\ \A k \in Int : Place(f, g, k) = 19 + k
  BY <1>3, Scripts, Lengths, Places, Zenon
<1>4. ASSUME f = 2, g = 1
      PROVE  /\ Script(f, g) = scaling_downgrade
             /\ Len(Script(f, g)) = 6 /\ DOMAIN Script(f, g) = 1 .. 6
             /\ \A k \in Int : Place(f, g, k) = 19 - k
  BY <1>4, Scripts, Lengths, Places, Zenon
<1>5. ASSUME f = 1, g = 0
      PROVE  /\ Script(f, g) = initial_downgrade
             /\ Len(Script(f, g)) = 13 /\ DOMAIN Script(f, g) = 1 .. 13
             /\ \A k \in Int : Place(f, g, k) = 13 - k
  BY <1>5, Scripts, Lengths, Places, Zenon
<1> QED BY <1>1, <1>2, <1>3, <1>4, <1>5, Zenon

LEMMA ScriptLengths ==
  ASSUME NEW f, NEW g, IsWay(f, g)
  PROVE  /\ Len(Script(f, g)) \in Nat /\ DOMAIN Script(f, g) = 1 .. Len(Script(f, g))
         /\ Len(Script(f, g)) = 0 <=> f = g
         /\ Place(f, g, 0) = Level(f) /\ Place(f, g, Len(Script(f, g))) = Level(g)
         /\ \A k \in 0 .. Len(Script(f, g)) : Place(f, g, k) \in 0 .. 19
         /\ f \in 0 .. 2 /\ g \in 0 .. 2
<1>1. Level(0) = 0 /\ Level(1) = 13 /\ Level(2) = 19
  BY DEF Level
<1>2. CASE f = 0 /\ g = 2
  <2>1. /\ Len(Script(f, g)) = 19 /\ DOMAIN Script(f, g) = 1 .. 19
        /\ Level(f) = 0 /\ Level(g) = 19 /\ \A k \in Int : Place(f, g, k) = k
    <3>1. Len(Script(f, g)) = 19 /\ DOMAIN Script(f, g) = 1 .. 19
      BY <1>2, WayCases, Zenon
    <3>2. Level(f) = 0 /\ Level(g) = 19
      BY <1>1, <1>2, Zenon
    <3>3. \A k \in Int : Place(f, g, k) = k
      BY <1>2, Places
    <3> QED BY <3>1, <3>2, <3>3
  <2>2. f # g /\ f \in 0 .. 2 /\ g \in 0 .. 2
    BY <1>2
  <2> QED BY <2>1, <2>2
<1>3. CASE f = 1 /\ g = 2
  <2>1. /\ Len(Script(f, g)) = 6 /\ DOMAIN Script(f, g) = 1 .. 6
        /\ Level(f) = 13 /\ Level(g) = 19 /\ \A k \in Int : Place(f, g, k) = 13 + k
    BY <1>1, <1>3, WayCases, Zenon
  <2>2. f # g /\ f \in 0 .. 2 /\ g \in 0 .. 2
    BY <1>3
  <2> QED BY <2>1, <2>2
<1>4. CASE f = 2 /\ g = 2
  <2>1. /\ Len(Script(f, g)) = 0 /\ DOMAIN Script(f, g) = 1 .. 0
        /\ Level(f) = 19 /\ Level(g) = 19 /\ \A k \in Int : Place(f, g, k) = 19 + k
    BY <1>1, <1>4, WayCases, Zenon
  <2>2. f = g /\ f \in 0 .. 2 /\ g \in 0 .. 2
    BY <1>4
  <2> QED BY <2>1, <2>2
<1>5. CASE f = 2 /\ g = 1
  <2>1. /\ Len(Script(f, g)) = 6 /\ DOMAIN Script(f, g) = 1 .. 6
        /\ Level(f) = 19 /\ Level(g) = 13 /\ \A k \in Int : Place(f, g, k) = 19 - k
    BY <1>1, <1>5, WayCases, Zenon
  <2>2. f # g /\ f \in 0 .. 2 /\ g \in 0 .. 2
    BY <1>5
  <2> QED BY <2>1, <2>2
<1>6. CASE f = 1 /\ g = 0
  <2>1. /\ Len(Script(f, g)) = 13 /\ DOMAIN Script(f, g) = 1 .. 13
        /\ Level(f) = 13 /\ Level(g) = 0 /\ \A k \in Int : Place(f, g, k) = 13 - k
    BY <1>1, <1>6, WayCases, Zenon
  <2>2. f # g /\ f \in 0 .. 2 /\ g \in 0 .. 2
    BY <1>6
  <2> QED BY <2>1, <2>2
<1> QED BY <1>2, <1>3, <1>4, <1>5, <1>6 DEF IsWay

\* Every statement of a script can be executed where the ones before it lead.
LEMMA ScriptMoves ==
  ASSUME NEW f, NEW g, IsWay(f, g), NEW k \in 0 .. Len(Script(f, g)) - 1
  PROVE  Moves(Script(f, g)[k + 1], State(Place(f, g, k)), State(Place(f, g, k + 1)))
<1>1. CASE f = 0 /\ g = 2
  <2>0. /\ Script(f, g) = Whole /\ Len(Script(f, g)) = 19
        /\ \A j \in Int : Place(f, g, j) = j
    <3>1. Script(f, g) = Whole /\ Len(Script(f, g)) = 19
      BY <1>1, WayCases, Zenon
    <3>2. \A j \in Int : Place(f, g, j) = j
      BY <1>1, Places
    <3> QED BY <3>1, <3>2
  <2>1. k \in 0 .. 18 /\ Script(f, g) = Whole /\ Place(f, g, k) = k /\ Place(f, g, k + 1) = k + 1
    BY <2>0
  <2> QED BY <2>1, StatesMove
<1>2. CASE f = 1 /\ g = 2
  <2> DEFINE i == 13 + k
  <2>0. /\ Script(f, g) = scaling_upgrade /\ Len(Script(f, g)) = 6
        /\ \A j \in Int : Place(f, g, j) = 13 + j
    BY <1>2, WayCases, Zenon
  <2>1. /\ k \in 0 .. 5 /\ Script(f, g) = scaling_upgrade
        /\ Place(f, g, k) = i /\ Place(f, g, k + 1) = i + 1
    BY <2>0
  <2>2. i \in 0 .. 18 /\ i + 1 \in 14 .. 19 /\ i + 1 - 13 = k + 1
    BY <2>1
  <2>3. Whole[i + 1] = scaling_upgrade[k + 1]
    <3> DEFINE j == i + 1
    <3>1. j \in 14 .. 19 /\ j - 13 = k + 1
      BY <2>2
    <3> HIDE DEF j
    <3>2. Whole[j] = scaling_upgrade[j - 13]
      BY <3>1, WholeIs
    <3> QED BY <3>1, <3>2 DEF j
  <2> HIDE DEF i
  <2> QED BY <2>1, <2>2, <2>3, StatesMove
<1>3. CASE f = 2 /\ g = 2
  BY <1>3, WayCases
<1>4. CASE f = 2 /\ g = 1
  <2> DEFINE i == 18 - k
  <2>0. /\ Script(f, g) = scaling_downgrade /\ Len(Script(f, g)) = 6
        /\ \A j \in Int : Place(f, g, j) = 19 - j
    BY <1>4, WayCases, Zenon
  <2>1. /\ k \in 0 .. 5 /\ Script(f, g) = scaling_downgrade
        /\ Place(f, g, k) = i + 1 /\ Place(f, g, k + 1) = i
    BY <2>0
  <2>2. i \in 0 .. 18 /\ ~ (i + 1 <= 13) /\ 20 - (i + 1) = k + 1
    BY <2>1
  <2>3. Undo(i + 1) = scaling_downgrade[k + 1]
    BY <2>2 DEF Undo
  <2> HIDE DEF i
  <2> QED BY <2>1, <2>2, <2>3, StatesMove
<1>5. CASE f = 1 /\ g = 0
  <2> DEFINE i == 12 - k
  <2>0. /\ Script(f, g) = initial_downgrade /\ Len(Script(f, g)) = 13
        /\ \A j \in Int : Place(f, g, j) = 13 - j
    BY <1>5, WayCases, Zenon
  <2>1. /\ k \in 0 .. 12 /\ Script(f, g) = initial_downgrade
        /\ Place(f, g, k) = i + 1 /\ Place(f, g, k + 1) = i
    BY <2>0
  <2>2. i \in 0 .. 18 /\ i + 1 <= 13 /\ 14 - (i + 1) = k + 1
    BY <2>1
  <2>3. Undo(i + 1) = initial_downgrade[k + 1]
    BY <2>2 DEF Undo
  <2> HIDE DEF i
  <2> QED BY <2>1, <2>2, <2>3, StatesMove
<1> QED BY <1>1, <1>2, <1>3, <1>4, <1>5 DEF IsWay

\* Indexes and partitions go away with one of these tables, and with nothing else.
LEMMA StateObjects ==
  \A i \in 0 .. 19 : \A o \in State(i) : o.of \subseteq Tables
<1>1. \A j \in {1, 2, 4, 6} : New(j).of \subseteq Tables
  BY ScalingStatements, InitialNames DEF Tables
<1>2. \A i \in 0 .. 19 : Old(i) \subseteq 1 .. 13 /\ Recent(i) \subseteq {1, 2, 4, 6}
  BY DEF Old, Recent
<1> QED BY <1>1, <1>2, OfTables DEF State

LEMMA ScriptObjects ==
  ASSUME NEW f, NEW g, IsWay(f, g), NEW i \in 1 .. Len(Script(f, g)),
         Script(f, g)[i].op = "create"
  PROVE  Script(f, g)[i].object.of \subseteq Tables
<1> DEFINE k == i - 1
<1>1. k \in 0 .. Len(Script(f, g)) - 1 /\ k + 1 = i
  BY ScriptLengths
<1> HIDE DEF k
<1>2. Moves(Script(f, g)[i], State(Place(f, g, k)), State(Place(f, g, i)))
  BY <1>1, ScriptMoves
<1>3. Script(f, g)[i].object \in State(Place(f, g, i))
  BY <1>2 DEF Moves, Applied, Added
<1>4. Place(f, g, i) \in 0 .. 19
  BY <1>1, ScriptLengths
<1> QED BY <1>3, <1>4, StateObjects

\* A table is dropped only by the downgrade of the first revision, which drops the
\* lookup index before.
LEMMA LookupFirst ==
  ASSUME NEW f, NEW g, IsWay(f, g), NEW i \in 1 .. Len(Script(f, g)),
         Script(f, g)[i].op = "drop", Script(f, g)[i].name \in Tables
  PROVE  Name(11) \in DroppedIn(Script(f, g), 1, i - 1)
<1>1. Tables = {Name(5), Name(7), Name(10)}
  BY InitialNames DEF Tables
<1>2. \A j \in {6, 11} : Name(j) \notin Tables
  BY <1>1, NamesDiffer
<1>3. \A j \in {1, 2, 4} : New(j).name \notin Tables
  BY <1>1, NewNames
<1>4. \A j \in 14 .. 19 : Whole[j].op = "drop" => Whole[j].name \notin Tables
  <2>1. \A j \in 1 .. 6 : scaling_upgrade[j].op = "drop" => scaling_upgrade[j].name \notin Tables
    <3>1. ASSUME NEW j \in 1 .. 6 PROVE j \in {1, 2, 4, 6} \/ j = 3 \/ j = 5
      OBVIOUS
    <3> QED BY <3>1, <1>2, ScalingStatements
  <2>2. \A j \in 14 .. 19 : j - 13 \in 1 .. 6
    OBVIOUS
  <2> QED BY <2>1, <2>2, WholeIs
<1>5. CASE f = 0 /\ g = 2
  <2>1. i \in 1 .. 13 \/ i \in 14 .. 19
    <3>1. Len(Script(f, g)) = 19
      BY <1>5, WayCases, Zenon
    <3> QED BY <3>1
  <2>2. \A j \in 1 .. 13 : Whole[j].op # "drop"
    BY InitialStatements, WholeIs
  <2> QED BY <1>4, <1>5, <2>1, <2>2, Scripts
<1>6. CASE f = 1 /\ g = 2
  <2>1. i \in 1 .. 6 /\ Script(f, g) = scaling_upgrade
    BY <1>6, WayCases
  <2>2. 13 + i \in 14 .. 19 /\ Whole[13 + i] = scaling_upgrade[i]
    <3>1. Whole[13 + i] = scaling_upgrade[i]
      BY <2>1, NewStatements
    <3> QED BY <2>1, <3>1
  <2> QED BY <1>4, <2>1, <2>2
<1>7. CASE f = 2 /\ g = 2
  BY <1>7, WayCases
<1>8. CASE f = 2 /\ g = 1
  <2>1. i \in 1 .. 6 /\ Script(f, g) = scaling_downgrade
    BY <1>8, WayCases
  <2>2. i \in {1, 3, 5, 6} \/ i \in {2, 4}
    BY <2>1
  <2> QED BY <1>2, <1>3, <2>1, <2>2, ScalingDowngrade
<1>9. CASE f = 1 /\ g = 0
  <2> DEFINE t == initial_downgrade
  <2>1. i \in 1 .. 13 /\ Script(f, g) = t
    BY <1>9, WayCases
  <2>2. 14 - i \in 1 .. 13 /\ t[i].name = Name(14 - i)
    <3>1. t[i].name = Name(14 - i)
      BY <2>1, DowngradeNames
    <3> QED BY <2>1, <3>1
  <2>3. 14 - i \in {5, 7, 10}
    BY <1>1, <2>1, <2>2, NamesDiffer
  <2>4. 3 \in 1 .. i - 1
    BY <2>1, <2>3
  <2>5. t[3].op = "drop" /\ t[3].name = Name(11)
    <3>1. 3 \in 1 .. 13 /\ 14 - 3 = 11
      OBVIOUS
    <3> QED BY <3>1, DowngradeStatements, DowngradeNames
  <2> HIDE DEF t
  <2> QED BY <2>1, <2>4, <2>5 DEF DroppedIn
<1> QED BY <1>5, <1>6, <1>7, <1>8, <1>9 DEF IsWay

LEMMA LookupDropped ==
  ASSUME NEW f, NEW g, IsWay(f, g), f # g
  PROVE  Name(11) \in DroppedIn(Script(f, g), 1, Len(Script(f, g)))
<1> SUFFICES \E j \in 1 .. Len(Script(f, g)) :
               Script(f, g)[j].op = "drop" /\ Script(f, g)[j].name = Name(11)
  BY DEF DroppedIn
<1>1. CASE f = 0 /\ g = 2
  <2>1. 18 \in 1 .. 19 /\ 18 = 13 + 5 /\ 5 \in 1 .. 6
    OBVIOUS
  <2>2. Whole[18] = scaling_upgrade[5]
    BY <2>1, WholeIs
  <2>3. Whole[18].op = "drop" /\ Whole[18].name = Name(11)
    BY <2>2, ScalingStatements
  <2>4. Script(f, g) = Whole /\ Len(Script(f, g)) = 19
    BY <1>1, WayCases, Zenon
  <2> QED BY <2>1, <2>3, <2>4
<1>2. CASE f = 1 /\ g = 2
  BY <1>2, Scripts, ScalingStatements
<1>3. CASE f = 2 /\ g = 1
  BY <1>3, Scripts, ScalingDowngrade
<1>4. CASE f = 1 /\ g = 0
  <2>1. 3 \in 1 .. 13 /\ 14 - 3 = 11
    OBVIOUS
  <2> QED BY <1>4, <2>1, Scripts, DowngradeStatements, DowngradeNames
<1> QED BY <1>1, <1>2, <1>3, <1>4 DEF IsWay

-----------------------------------------------------------------------------
(* A run, one statement after the other.                                     *)

LEMMA IsSequence ==
  ASSUME NEW n \in Nat, NEW t, t = [i \in 1 .. n |-> t[i]]
  PROVE  t \in Seq({t[i] : i \in 1 .. n})
<1> DEFINE S == {t[i] : i \in 1 .. n}
<1>1. \A i \in 1 .. n : t[i] \in S
  OBVIOUS
<1> HIDE DEF S
<1>2. t \in [1 .. n -> S]
  BY <1>1
<1> QED BY <1>2, SeqDef

LEMMA ScriptSequence ==
  ASSUME NEW f, NEW g, IsWay(f, g)
  PROVE  \E S : Script(f, g) \in Seq(S)
<1>1. \E S : Whole \in Seq(S)
  BY WholeIs
<1>2. scaling_upgrade = [i \in 1 .. 6 |-> scaling_upgrade[i]]
  BY DEF scaling_upgrade
<1>3. scaling_downgrade = [i \in 1 .. 6 |-> scaling_downgrade[i]]
  BY DEF scaling_downgrade
<1>4. initial_downgrade = [i \in 1 .. 13 |-> initial_downgrade[i]]
  BY DEF initial_downgrade
<1>5. <<>> \in Seq({})
  BY EmptySeq
<1>6. \E S : scaling_upgrade \in Seq(S)
  BY <1>2, IsSequence
<1>7. \E S : scaling_downgrade \in Seq(S)
  BY <1>3, IsSequence
<1>8. \E S : initial_downgrade \in Seq(S)
  BY <1>4, IsSequence
<1> QED BY <1>1, <1>5, <1>6, <1>7, <1>8, Scripts DEF IsWay

\* What is left of a script after k statements.
LEMMA Remaining ==
  ASSUME NEW f, NEW g, IsWay(f, g), NEW k \in 0 .. Len(Script(f, g))
  PROVE  LET t == Script(f, g)
         IN /\ SubSeq(t, 1, Len(t)) = t
            /\ SubSeq(t, k + 1, Len(t)) = <<>> <=> k = Len(t)
            /\ k < Len(t) => /\ Head(SubSeq(t, k + 1, Len(t))) = t[k + 1]
                             /\ Tail(SubSeq(t, k + 1, Len(t))) = SubSeq(t, k + 2, Len(t))
<1> DEFINE t == Script(f, g)
           n == Len(t)
<1>1. PICK S : t \in Seq(S)
  BY ScriptSequence
<1>2. n \in Nat /\ k \in 0 .. n
  BY ScriptLengths
<1> HIDE DEF t
<1>3. SubSeq(t, 1, n) = t
  BY <1>1, SubSeqFull
<1>4. ASSUME k = n
      PROVE  SubSeq(t, k + 1, n) = <<>>
  <2>1. k + 1 \in Int /\ n \in Int /\ n < k + 1
    BY <1>2, <1>4
  <2> HIDE DEF n
  <2> QED BY <2>1, SubSeqEmpty
<1>5. ASSUME k < n
      PROVE  /\ SubSeq(t, k + 1, n) # <<>>
             /\ Head(SubSeq(t, k + 1, n)) = t[k + 1]
             /\ Tail(SubSeq(t, k + 1, n)) = SubSeq(t, k + 2, n)
  <2>1. k + 1 \in 1 .. Len(t) /\ n \in k + 1 .. Len(t) /\ (k + 1) + 1 = k + 2
    BY <1>2, <1>5
  <2>2. /\ Head(SubSeq(t, k + 1, n)) = t[k + 1]
        /\ Tail(SubSeq(t, k + 1, n)) = SubSeq(t, (k + 1) + 1, n)
    <3> HIDE DEF n
    <3> QED BY <1>1, <2>1, HeadTailOfSubSeq
  <2>3. Len(SubSeq(t, k + 1, n)) = n - (k + 1) + 1
    <3>1. k + 1 \in Int /\ n \in Int /\ k + 1 <= n
      BY <1>2, <1>5
    <3>2. \A i \in k + 1 .. n : t[i] \in S
      BY <1>1, <1>2, ElementOfSeq
    <3> HIDE DEF n
    <3> QED BY <3>1, <3>2, SubSeqProperties
  <2>4. Len(SubSeq(t, k + 1, n)) # 0
    BY <1>2, <1>5, <2>3
  <2>5. SubSeq(t, k + 1, n) # <<>>
    <3> DEFINE u == SubSeq(t, k + 1, n)
    <3>1. Len(u) # 0
      BY <2>4
    <3> HIDE DEF u
    <3>2. Len(<<>>) = 0
      OBVIOUS
    <3>3. u # <<>>
      BY <3>1, <3>2
    <3> QED BY <3>3 DEF u
  <2> QED BY <2>1, <2>2, <2>5
<1>6. ~ (k < n) <=> k = n
  BY <1>2
<1> QED BY <1>3, <1>4, <1>5, <1>6 DEF t

LEMMA Progress ==
  ASSUME NEW t, NEW k \in Nat
  PROVE  /\ t[k + 1].op = "create" =>
              /\ DroppedIn(t, 1, k + 1) = DroppedIn(t, 1, k)
              /\ MadeBy(t, k + 1) = MadeBy(t, k) \cup {t[k + 1].object}
         /\ t[k + 1].op = "drop" =>
              /\ DroppedIn(t, 1, k + 1) = DroppedIn(t, 1, k) \cup {t[k + 1].name}
              /\ MadeBy(t, k + 1) = {o \in MadeBy(t, k) : o.name # t[k + 1].name}
<1>0. "create" # "drop"
  OBVIOUS
<1>1. \A i \in 1 .. k + 1 : i .. k + 1 = (i .. k) \cup {k + 1}
  OBVIOUS
<1>2. 1 \in 1 .. k + 1 /\ 1 .. k + 1 = (1 .. k) \cup {k + 1} /\ k + 1 \in 1 .. k + 1
  OBVIOUS
<1>3. CASE t[k + 1].op = "create"
  <2>1. \A i \in 1 .. k + 1 : DroppedIn(t, i, k + 1) = DroppedIn(t, i, k)
    BY <1>0, <1>1, <1>3 DEF DroppedIn
  <2>2. DroppedIn(t, k + 1, k + 1) = {}
    <3>1. k + 1 .. k + 1 = {k + 1}
      OBVIOUS
    <3> QED BY <1>0, <1>3, <3>1 DEF DroppedIn
  <2>3. MadeBy(t, k + 1) = MadeBy(t, k) \cup {t[k + 1].object}
    <3>1. \A i \in 1 .. k : DroppedIn(t, i, k + 1) = DroppedIn(t, i, k)
      BY <1>2, <2>1
    <3> QED BY <1>2, <1>3, <2>2, <3>1 DEF MadeBy
  <2> QED BY <1>0, <1>2, <1>3, <2>1, <2>3
<1>4. CASE t[k + 1].op = "drop"
  <2>1. \A i \in 1 .. k + 1 : DroppedIn(t, i, k + 1) = DroppedIn(t, i, k) \cup {t[k + 1].name}
    BY <1>1, <1>4 DEF DroppedIn
  <2>2. MadeBy(t, k + 1) = {o \in MadeBy(t, k) : o.name # t[k + 1].name}
    <3>1. \A i \in 1 .. k : DroppedIn(t, i, k + 1) = DroppedIn(t, i, k) \cup {t[k + 1].name}
      BY <1>2, <2>1
    <3> QED BY <1>0, <1>2, <1>4, <3>1 DEF MadeBy
  <2> QED BY <1>0, <1>2, <1>4, <2>1, <2>2
<1> QED BY <1>3, <1>4

\* S as a run sees it that has executed the first k statements of t.
View(S, t, k) == {o \in S : o.name \notin DroppedIn(t, 1, k)} \cup MadeBy(t, k)

LEMMA ViewStep ==
  ASSUME NEW S, NEW t, NEW k \in Nat, t[k + 1].op \in {"create", "drop"},
         ~ Cascades(t[k + 1], View(S, t, k))
  PROVE  View(S, t, k + 1) = Applied(t[k + 1], View(S, t, k))
<1>0. "create" # "drop"
  OBVIOUS
<1>1. CASE t[k + 1].op = "create"
  BY <1>0, <1>1, Progress DEF View, Applied, Removed, Added
<1>2. CASE t[k + 1].op = "drop"
  <2>1. Removed(t[k + 1], View(S, t, k)) = {o \in View(S, t, k) : o.name = t[k + 1].name}
    BY <1>2 DEF Removed, Cascades
  <2>2. Added(t[k + 1]) = {}
    BY <1>0, <1>2 DEF Added
  <2> QED BY <1>2, <2>1, <2>2, Progress DEF View, Applied
<1> QED BY <1>1, <1>2

LEMMA ViewIs ==
  ASSUME NEW f, NEW g, IsWay(f, g)
  PROVE  \A k \in 0 .. Len(Script(f, g)) : View(Replay[f], Script(f, g), k) = State(Place(f, g, k))
<1> DEFINE t == Script(f, g)
           n == Len(t)
           V(k) == View(Replay[f], t, k)
           P == [k \in 0 .. n |-> V(k) = State(Place(f, g, k))]
<1>1. n \in Nat /\ Replay[f] = State(Level(f)) /\ Place(f, g, 0) = Level(f)
  BY ScriptLengths, ReplayIs
<1>2. V(0) = Replay[f]
  <2>1. 1 .. 0 = {}
    OBVIOUS
  <2> QED BY <2>1 DEF View, DroppedIn, MadeBy
<1>3. ASSUME NEW k \in 0 .. n - 1, V(k) = State(Place(f, g, k))
      PROVE  V(k + 1) = State(Place(f, g, k + 1))
  <2>1. Moves(t[k + 1], V(k), State(Place(f, g, k + 1)))
    BY <1>3, ScriptMoves
  <2>2. k \in Nat
    BY <1>1
  <2> HIDE DEF t
  <2>3. V(k + 1) = Applied(t[k + 1], V(k))
    BY <2>1, <2>2, ViewStep DEF Moves
  <2> QED BY <2>1, <2>3 DEF Moves
<1>4. P[0] /\ \A k \in 0 .. n - 1 : P[k] => P[k + 1]
  <2> HIDE DEF V, n
  <2>1. 0 \in 0 .. n /\ \A k \in 0 .. n - 1 : k \in 0 .. n /\ k + 1 \in 0 .. n
    BY <1>1
  <2>2. P[0]
    BY <1>1, <1>2, <2>1
  <2>3. \A k \in 0 .. n - 1 : P[k] => P[k + 1]
    BY <1>3, <2>1
  <2> QED BY <2>2, <2>3
<1>5. \A k \in 0 .. n : P[k]
  <2> HIDE DEF P, n
  <2> QED BY <1>1, <1>4, UpTo
<1> QED BY <1>5

-----------------------------------------------------------------------------
(* The invariant of the runs.                                                *)

LEMMA RunningWays ==
  ASSUME MigrationsTypeOK, RunsInv, NEW m \in Migrators, run[m] = "running"
  PROVE  IsWay(from[m], goal[m])
<1>1. from[m] \in 0 .. 2 /\ goal[m] \in 0 .. 2 /\ goal[m] \in {2, from[m] - 1}
  BY Upgrades DEF MigrationsTypeOK, RunsInv, RunInv
<1>2. \/ (from[m] = 0 /\ goal[m] = 2) \/ (from[m] = 1 /\ goal[m] = 2)
      \/ (from[m] = 2 /\ goal[m] = 2) \/ (from[m] = 2 /\ goal[m] = 1)
      \/ (from[m] = 1 /\ goal[m] = 0)
  BY <1>1
<1> QED BY <1>2 DEF IsWay

LEMMA SeenIsView ==
  ASSUME NEW m, NEW k, RunIsAt(m, k)
  PROVE  Seen(m) = View(schema, Script(from[m], goal[m]), k)
BY DEF Seen, View, RunIsAt

\* A run that was not overtaken sees what its script makes of the version it read.
LEMMA SeenOnTrack ==
  ASSUME MigrationsTypeOK, RunsInv, NEW m \in Migrators, run[m] = "running", version = from[m],
         NEW k \in 0 .. Len(Script(from[m], goal[m])), RunIsAt(m, k)
  PROVE  Seen(m) = State(Place(from[m], goal[m], k))
<1> DEFINE f == from[m]
           g == goal[m]
<1>1. IsWay(f, g)
  BY RunningWays
<1>2. Seen(m) = View(Replay[f], Script(f, g), k)
  BY SeenIsView DEF RunsInv
<1> HIDE DEF f, g
<1>3. k \in 0 .. Len(Script(f, g))
  BY DEF f, g
<1>4. View(Replay[f], Script(f, g), k) = State(Place(f, g, k))
  BY <1>1, <1>3, ViewIs
<1> QED BY <1>2, <1>4 DEF f, g

\* The next statement can be executed, and takes nothing along.
LEMMA NextMoves ==
  ASSUME MigrationsTypeOK, RunsInv, NEW m \in Migrators, run[m] = "running", version = from[m],
         NEW k \in 0 .. Len(Script(from[m], goal[m])), RunIsAt(m, k),
         k < Len(Script(from[m], goal[m]))
  PROVE  \E T : Moves(Script(from[m], goal[m])[k + 1], Seen(m), T)
<1> DEFINE f == from[m]
           g == goal[m]
<1>1. IsWay(f, g)
  BY RunningWays
<1>2. Seen(m) = State(Place(f, g, k))
  BY SeenOnTrack
<1>3. k < Len(Script(f, g)) /\ k \in 0 .. Len(Script(f, g))
  OBVIOUS
<1> HIDE DEF f, g
<1>4. k \in 0 .. Len(Script(f, g)) - 1
  BY <1>1, <1>3, ScriptLengths
<1>5. Moves(Script(f, g)[k + 1], State(Place(f, g, k)), State(Place(f, g, k + 1)))
  BY <1>1, <1>4, ScriptMoves
<1> QED BY <1>2, <1>5 DEF f, g

LEMMA SeenObjects ==
  ASSUME MigrationsTypeOK, RunsInv, NEW m \in Migrators, run[m] = "running",
         NEW k \in 0 .. Len(Script(from[m], goal[m])), RunIsAt(m, k)
  PROVE  \A o \in Seen(m) : o.of \subseteq Tables
<1> DEFINE f == from[m]
           g == goal[m]
           t == Script(f, g)
<1>1. IsWay(f, g)
  BY RunningWays
<1>2. \A o \in schema : o.of \subseteq Tables
  <2>1. version \in 0 .. 2 /\ schema = State(Level(version))
    BY Upgrades, ReplayIs DEF MigrationsTypeOK, RunsInv
  <2>2. Level(version) \in 0 .. 19
    BY DEF Level
  <2> QED BY <2>1, <2>2, StateObjects
<1>3. \A o \in MadeBy(t, k) : o.of \subseteq Tables
  <2>1. k \in 0 .. Len(t) /\ Len(t) \in Nat
    BY <1>1, ScriptLengths
  <2> HIDE DEF f, g
  <2>2. \A i \in 1 .. Len(t) : t[i].op = "create" => t[i].object.of \subseteq Tables
    BY <1>1, ScriptObjects
  <2> HIDE DEF t
  <2>3. \A i \in 1 .. k : i \in 1 .. Len(t)
    BY <2>1
  <2> QED BY <2>2, <2>3 DEF MadeBy
<1>4. made[m] = MadeBy(t, k)
  BY DEF RunIsAt
<1> QED BY <1>2, <1>3, <1>4 DEF Seen

\* A run whose DROP takes something along was overtaken, and holds the index.
LEMMA CascadeIsLate ==
  ASSUME MigrationsTypeOK, RunsInv, NEW m \in Migrators, run[m] = "running",
         NEW k \in 0 .. Len(Script(from[m], goal[m])), RunIsAt(m, k),
         k < Len(Script(from[m], goal[m])),
         Cascades(Script(from[m], goal[m])[k + 1], Seen(m))
  PROVE  version # from[m] /\ Holds(m)
<1> DEFINE f == from[m]
           g == goal[m]
           t == Script(f, g)
<1>1. IsWay(f, g)
  BY RunningWays
<1>2. version # from[m]
  BY NextMoves DEF Moves
<1>3. t[k + 1].op = "drop" /\ t[k + 1].name \in Tables
  BY SeenObjects DEF Cascades
<1>4. k < Len(t) /\ k \in 0 .. Len(t) /\ gone[m] = DroppedIn(t, 1, k)
  BY DEF RunIsAt
<1> HIDE DEF f, g
<1>5. k + 1 \in 1 .. Len(t) /\ (k + 1) - 1 = k
  BY <1>1, <1>4, ScriptLengths
<1>6. Name(11) \in DroppedIn(t, 1, (k + 1) - 1)
  BY <1>1, <1>3, <1>5, LookupFirst
<1>7. Name(11) \in gone[m]
  BY <1>4, <1>5, <1>6
<1> QED BY <1>2, <1>7, InitialNames DEF Holds

\* Which statement a DROP waits for the others with.
LEMMA DropNames ==
  ASSUME NEW f, NEW g, IsWay(f, g), NEW i \in 1 .. Len(Script(f, g)),
         Script(f, g)[i].op = "drop"
  PROVE  Script(f, g)[i].name \in Script(f, g)[i].names
<1>1. \A j \in 1 .. 13 : initial_downgrade[j].name \in initial_downgrade[j].names
  <2>1. /\ initial_downgrade[1].name \in initial_downgrade[1].names
        /\ initial_downgrade[2].name \in initial_downgrade[2].names
        /\ initial_downgrade[3].name \in initial_downgrade[3].names
        /\ initial_downgrade[4].name \in initial_downgrade[4].names
        /\ initial_downgrade[5].name \in initial_downgrade[5].names
        /\ initial_downgrade[6].name \in initial_downgrade[6].names
        /\ initial_downgrade[7].name \in initial_downgrade[7].names
        /\ initial_downgrade[8].name \in initial_downgrade[8].names
        /\ initial_downgrade[9].name \in initial_downgrade[9].names
        /\ initial_downgrade[10].name \in initial_downgrade[10].names
        /\ initial_downgrade[11].name \in initial_downgrade[11].names
        /\ initial_downgrade[12].name \in initial_downgrade[12].names
        /\ initial_downgrade[13].name \in initial_downgrade[13].names
    BY DEF initial_downgrade, Drop
  <2> QED BY <2>1
<1>2. \A j \in 1 .. 6 : scaling_upgrade[j].op = "drop" => scaling_upgrade[j].name \in scaling_upgrade[j].names
  <2>1. /\ scaling_upgrade[3].name \in scaling_upgrade[3].names
        /\ scaling_upgrade[5].name \in scaling_upgrade[5].names
    BY DEF scaling_upgrade, Drop
  <2>2. \A j \in 1 .. 6 : j \in {1, 2, 4, 6} \/ j = 3 \/ j = 5
    OBVIOUS
  <2> QED BY <2>1, <2>2, ScalingStatements
<1>3. \A j \in 1 .. 6 :
        scaling_downgrade[j].op = "drop" => scaling_downgrade[j].name \in scaling_downgrade[j].names
  <2>1. /\ scaling_downgrade[1].name \in scaling_downgrade[1].names
        /\ scaling_downgrade[3].name \in scaling_downgrade[3].names
        /\ scaling_downgrade[5].name \in scaling_downgrade[5].names
        /\ scaling_downgrade[6].name \in scaling_downgrade[6].names
    BY DEF scaling_downgrade, Drop
  <2>2. \A j \in 1 .. 6 : j = 1 \/ j = 3 \/ j = 5 \/ j = 6 \/ j \in {2, 4}
    OBVIOUS
  <2> QED BY <2>1, <2>2, ScalingDowngrade
<1>4. \A j \in 1 .. 19 : Whole[j].op = "drop" => Whole[j].name \in Whole[j].names
  <2>1. \A j \in 14 .. 19 : j - 13 \in 1 .. 6
    OBVIOUS
  <2>2. \A j \in 1 .. 19 : j \in 1 .. 13 \/ j \in 14 .. 19
    OBVIOUS
  <2>3. \A j \in 14 .. 19 : Whole[j].op = "drop" => Whole[j].name \in Whole[j].names
    BY <1>2, <2>1, WholeIs
  <2>4. \A j \in 1 .. 13 : Whole[j].op # "drop"
    BY WholeIs, InitialStatements
  <2> QED BY <2>2, <2>3, <2>4
<1>5. CASE f = 0 /\ g = 2
  BY <1>4, <1>5, WayCases
<1>6. CASE f = 1 /\ g = 2
  BY <1>2, <1>6, WayCases
<1>7. CASE f = 2 /\ g = 2
  BY <1>7, WayCases
<1>8. CASE f = 2 /\ g = 1
  BY <1>3, <1>8, WayCases
<1>9. CASE f = 1 /\ g = 0
  BY <1>1, <1>9, WayCases
<1> QED BY <1>5, <1>6, <1>7, <1>8, <1>9 DEF IsWay
\* A run whose variables stay as they are follows its script, or holds, as before.
LEMMA RunUntouched ==
  ASSUME NEW m, RunInv(m), run'[m] = run[m], from'[m] = from[m], goal'[m] = goal[m],
         todo'[m] = todo[m], made'[m] = made[m], gone'[m] = gone[m], version' = version
  PROVE  RunInv(m)'
BY DEF RunInv, RunIsAt, Holds

LEMMA ScriptStatements ==
  ASSUME NEW f, NEW g, IsWay(f, g), NEW i \in 1 .. Len(Script(f, g))
  PROVE  Script(f, g)[i].op \in {"create", "drop"}
<1> DEFINE k == i - 1
<1>1. k \in 0 .. Len(Script(f, g)) - 1 /\ k + 1 = i
  BY ScriptLengths
<1> HIDE DEF k
<1> QED BY <1>1, ScriptMoves DEF Moves

LEMMA ExecuteRun ==
  ASSUME MigrationsTypeOK, RunsInv, NEW m \in Migrators, Execute(m)
  PROVE  /\ RunInv(m)'
         /\ Holds(m)' => \/ Holds(m)
                         \/ Head(todo[m]).op = "drop" /\ Name(11) \in Head(todo[m]).names
<1> DEFINE s == Head(todo[m])
           lost == Removed(s, Seen(m))
           f == from[m]
           g == goal[m]
           t == Script(f, g)
<1>1. /\ run[m] = "running" /\ todo[m] # <<>> /\ Executable(s, Seen(m))
      /\ made'[m] = (made[m] \ lost) \cup Added(s)
      /\ gone'[m] = gone[m] \cup {o.name : o \in lost}
      /\ todo'[m] = Tail(todo[m])
      /\ version' = version /\ run' = run /\ from' = from /\ goal' = goal
  BY DEF Execute, RunsInv
<1>2. goal[m] \in {LastRevision, from[m] - 1} /\ IsWay(f, g)
  BY <1>1, RunningWays DEF RunsInv, RunInv
<1>3. CASE \E k \in 0 .. Len(t) : RunIsAt(m, k)
  <2>1. PICK k \in 0 .. Len(t) : RunIsAt(m, k)
    BY <1>3
  <2>2. todo[m] = SubSeq(t, k + 1, Len(t)) /\ gone[m] = DroppedIn(t, 1, k) /\ made[m] = MadeBy(t, k)
    BY <2>1 DEF RunIsAt
  <2>3. Len(t) \in Nat /\ k \in Nat /\ k \in 0 .. Len(t)
    <3> HIDE DEF f, g
    <3> QED BY <1>2, ScriptLengths
  <2>4. /\ SubSeq(t, k + 1, Len(t)) = <<>> <=> k = Len(t)
        /\ k < Len(t) => /\ Head(SubSeq(t, k + 1, Len(t))) = t[k + 1]
                         /\ Tail(SubSeq(t, k + 1, Len(t))) = SubSeq(t, k + 2, Len(t))
    <3> HIDE DEF f, g
    <3> QED BY <1>2, <2>3, Remaining
  <2>5. k < Len(t)
    <3> HIDE DEF t
    <3> QED BY <1>1, <2>2, <2>3, <2>4
  <2>6. s = t[k + 1] /\ todo'[m] = SubSeq(t, k + 2, Len(t))
    BY <1>1, <2>2, <2>4, <2>5
  <2>7. k + 1 \in 1 .. Len(t) /\ k + 1 \in 0 .. Len(t) /\ (k + 1) + 1 = k + 2
    BY <2>3, <2>5
  <2>8. s.op \in {"create", "drop"}
    <3> HIDE DEF f, g, s
    <3> QED BY <1>2, <2>6, <2>7, ScriptStatements
  <2>9. CASE Cascades(s, Seen(m))
    <3>1. version # from[m] /\ Holds(m)
      BY <1>1, <2>1, <2>5, <2>6, <2>9, CascadeIsLate
    <3>2. Holds(m)'
      BY <1>1, <3>1 DEF Holds
    <3>3. RunInv(m)'
      BY <1>1, <1>2, <3>1, <3>2 DEF RunInv
    <3> QED BY <3>1, <3>3
  <2>10. CASE ~ Cascades(s, Seen(m))
    <3>1. /\ (made[m] \ lost) \cup Added(s) = MadeBy(t, k + 1)
          /\ gone[m] \cup {o.name : o \in lost} = DroppedIn(t, 1, k + 1)
      <4>1. lost = Removed(s, Seen(m)) /\ (s.op = "create" \/ s.op = "drop")
        BY <2>8
      <4>2. /\ k \in Nat /\ s = t[k + 1]
            /\ Executable(s, Seen(m)) /\ ~ Cascades(s, Seen(m))
            /\ gone[m] = DroppedIn(t, 1, k) /\ made[m] = MadeBy(t, k)
        BY <1>1, <2>2, <2>3, <2>6, <2>10
      <4> HIDE DEF s, t, lost
      <4>3. "create" # "drop"
        OBVIOUS
      <4>4. CASE s.op = "create"
        <5>1. lost = {} /\ Added(s) = {s.object}
          BY <4>1, <4>3, <4>4 DEF Removed, Added
        <5>2. {o.name : o \in lost} = {}
          BY <5>1
        <5>3. /\ DroppedIn(t, 1, k + 1) = DroppedIn(t, 1, k)
              /\ MadeBy(t, k + 1) = MadeBy(t, k) \cup {s.object}
          BY <4>2, <4>4, Progress
        <5>4. MadeBy(t, k) = made[m] /\ DroppedIn(t, 1, k) = gone[m]
          BY <4>2
        <5> QED BY <5>1, <5>2, <5>3, <5>4
      <4>5. CASE s.op = "drop"
        <5>1. lost = {o \in Seen(m) : o.name = s.name} /\ Added(s) = {}
          BY <4>1, <4>2, <4>3, <4>5 DEF Removed, Added, Cascades
        <5>2. s.name \in {o.name : o \in Seen(m)}
          BY <4>2, <4>3, <4>5 DEF Executable
        <5>3. {o.name : o \in lost} = {s.name}
          BY <5>1, <5>2
        <5>4. made[m] \ lost = {o \in made[m] : o.name # s.name}
          BY <5>1 DEF Seen
        <5>5. /\ DroppedIn(t, 1, k + 1) = DroppedIn(t, 1, k) \cup {s.name}
              /\ MadeBy(t, k + 1) = {o \in MadeBy(t, k) : o.name # s.name}
          BY <4>2, <4>5, Progress
        <5>6. (made[m] \ lost) \cup Added(s) = made[m] \ lost
          BY <5>1
        <5>7. MadeBy(t, k) = made[m] /\ DroppedIn(t, 1, k) = gone[m]
          BY <4>2
        <5> QED BY <5>3, <5>4, <5>5, <5>6, <5>7
      <4> QED BY <4>1, <4>4, <4>5
    <3>2. /\ todo'[m] = SubSeq(t, (k + 1) + 1, Len(t)) /\ gone'[m] = DroppedIn(t, 1, k + 1)
          /\ made'[m] = MadeBy(t, k + 1) /\ t = Script(from'[m], goal'[m])
      BY <1>1, <2>6, <2>7, <3>1
    <3>3. RunIsAt(m, k + 1)'
      <4> HIDE DEF t
      <4> QED BY <3>2 DEF RunIsAt
    <3>4. \E j \in 0 .. Len(Script(from'[m], goal'[m])) : RunIsAt(m, j)'
      BY <1>1, <2>7, <3>3
    <3>5. RunInv(m)'
      BY <1>1, <1>2, <3>4 DEF RunInv
    <3>6. ASSUME Holds(m)', ~ Holds(m)
          PROVE  s.op = "drop" /\ Name(11) \in s.names
      <4>1. Name(11) \in DroppedIn(t, 1, k + 1) /\ Name(11) \notin DroppedIn(t, 1, k)
        BY <2>2, <3>2, <3>6, InitialNames DEF Holds
      <4>2. s.op = "drop" /\ s.name = Name(11)
        <5> HIDE DEF t, s
        <5>1. t[k + 1].op # "create"
          BY <2>3, <4>1, Progress
        <5>2. t[k + 1].op = "drop"
          BY <2>6, <2>8, <5>1
        <5>3. DroppedIn(t, 1, k + 1) = DroppedIn(t, 1, k) \cup {t[k + 1].name}
          BY <2>3, <5>2, Progress
        <5> QED BY <2>6, <4>1, <5>2, <5>3
      <4>3. s.name \in s.names
        <5> HIDE DEF f, g, s
        <5> QED BY <1>2, <2>6, <2>7, <4>2, DropNames
      <4> QED BY <4>2, <4>3
    <3> QED BY <3>5, <3>6
  <2> QED BY <2>9, <2>10
<1>4. CASE version # from[m] /\ Holds(m)
  <2>1. Holds(m)'
    BY <1>1, <1>4 DEF Holds
  <2> QED BY <1>1, <1>2, <1>4, <2>1 DEF RunInv
<1> QED BY <1>1, <1>3, <1>4 DEF RunsInv, RunInv

\* A DROP locks what it names against everyone.
LEMMA DropLocks ==
  ASSUME NEW m, NEW n, Head(todo[m]).op = "drop", n \in Head(todo[m]).names
  PROVE  [on |-> n, how |-> "exclusive"] \in Needs(m)
BY DEF Needs, LocksOf

LEMMA ExecuteKeeps ==
  ASSUME MigrationsTypeOK, RunsInv, NEW m \in Migrators, Execute(m)
  PROVE  RunsInv'
<1> DEFINE lock == [on |-> Name(11), how |-> "exclusive"]
<1>0. \A o \in Migrators : HasLock(o) <=> lock \in locks[o]
  BY InitialNames DEF HasLock
<1>1. /\ Free(m)
      /\ \A o \in Migrators \ {m} : todo'[o] = todo[o] /\ made'[o] = made[o] /\ gone'[o] = gone[o]
      /\ DOMAIN todo' = Migrators /\ DOMAIN made' = Migrators /\ DOMAIN gone' = Migrators
      /\ schema' = schema /\ version' = version /\ run' = run /\ from' = from /\ goal' = goal
      /\ DOMAIN locks' = Migrators /\ locks'[m] = locks[m] \cup Needs(m)
      /\ \A o \in Migrators \ {m} : locks'[o] = locks[o]
  BY DEF Execute, RunsInv
<1>2. RunInv(m)' /\ (Holds(m)' => Holds(m) \/ lock \in Needs(m))
  <2>1. Head(todo[m]).op = "drop" /\ Name(11) \in Head(todo[m]).names => lock \in Needs(m)
    BY DropLocks
  <2> QED BY ExecuteRun, <2>1
<1>3. \A o \in Migrators : RunInv(o)'
  <2>1. \A o \in Migrators : RunInv(o)
    BY DEF RunsInv
  <2>2. \A o \in Migrators \ {m} : RunInv(o)'
    BY <1>1, <2>1, RunUntouched
  <2> QED BY <1>2, <2>2
<1>4. \A o \in Migrators \ {m} : Holds(o)' <=> Holds(o)
  BY <1>1 DEF Holds
<1>5. ASSUME Holds(m)', NEW o \in Migrators \ {m}, Holds(o)
      PROVE  FALSE
  <2>1. ~ Holds(m)
    BY <1>5 DEF RunsInv
  <2>2. lock \in Needs(m)
    BY <1>2, <1>5, <2>1
  <2>3. lock \in locks[o]
    BY <1>0, <1>5 DEF RunsInv
  <2>4. Conflict(lock, lock)
    BY DEF Conflict
  <2> QED BY <1>1, <2>2, <2>3, <2>4 DEF Free, Grantable
<1>6. \A o, p \in Migrators : Holds(o)' /\ Holds(p)' => o = p
  <2>1. \A o, p \in Migrators \ {m} : Holds(o) /\ Holds(p) => o = p
    BY DEF RunsInv
  <2> QED BY <1>4, <1>5, <2>1
<1>7. \A o \in Migrators : Holds(o)' => HasLock(o)'
  <2>1. \A o \in Migrators : HasLock(o)' <=> lock \in locks'[o]
    BY InitialNames DEF HasLock
  <2>2. \A o \in Migrators : Holds(o) => lock \in locks[o]
    BY <1>0 DEF RunsInv
  <2>3. Holds(m)' => lock \in locks'[m]
    BY <1>1, <1>2, <2>2
  <2>4. \A o \in Migrators \ {m} : Holds(o)' => lock \in locks'[o]
    BY <1>1, <1>4, <2>2
  <2> QED BY <2>1, <2>3, <2>4
<1> QED BY <1>1, <1>3, <1>6, <1>7 DEF RunsInv

\* While a statement waits its run only gets more locks.
LEMMA TakeLockKeeps ==
  ASSUME RunsInv, NEW m \in Migrators, TakeLock(m)
  PROVE  RunsInv'
<1>1. /\ schema' = schema /\ version' = version /\ run' = run /\ from' = from /\ goal' = goal
      /\ todo' = todo /\ made' = made /\ gone' = gone
  BY DEF TakeLock
<1>2. PICK l : locks' = [locks EXCEPT ![m] = @ \cup {l}]
  BY DEF TakeLock
<1>3. DOMAIN locks' = Migrators /\ \A o \in Migrators : locks[o] \subseteq locks'[o]
  BY <1>2 DEF RunsInv
<1>4. \A o \in Migrators : RunInv(o)'
  BY <1>1, RunUntouched DEF RunsInv
<1>5. \A o \in Migrators : Holds(o)' <=> Holds(o)
  BY <1>1 DEF Holds
<1>6. \A o \in Migrators : HasLock(o) => HasLock(o)'
  BY <1>3 DEF HasLock
<1> QED BY <1>1, <1>3, <1>4, <1>5, <1>6 DEF RunsInv

\* The runs of M are over; what the others are at has to be shown.
LEMMA EndRunsKeeps ==
  ASSUME RunsInv, NEW M, NEW outcome, outcome # "running", EndRuns(M, outcome),
         schema' = Replay[version'], \A o \in Migrators \ M : RunInv(o)'
  PROVE  RunsInv'
<1>1. /\ DOMAIN todo' = Migrators /\ DOMAIN made' = Migrators /\ DOMAIN gone' = Migrators
      /\ \A m \in Migrators : gone'[m] = IF m \in M THEN {} ELSE gone[m]
      /\ DOMAIN locks' = Migrators
      /\ \A m \in Migrators : locks'[m] = IF m \in M THEN {} ELSE locks[m]
  BY DEF EndRuns
<1>2. \A m \in Migrators \cap M : run'[m] = outcome /\ todo'[m] = <<>> /\ made'[m] = {} /\ gone'[m] = {}
  BY DEF EndRuns
<1>3. \A m \in Migrators \cap M : RunInv(m)'
  BY <1>2 DEF RunInv
<1>4. \A m \in Migrators : Holds(m)' => Holds(m) /\ m \notin M
  BY <1>1 DEF Holds
<1>5. \A m \in Migrators : Holds(m)' => HasLock(m)'
  <2>1. \A m \in Migrators : Holds(m) => HasLock(m)
    BY DEF RunsInv
  <2> QED BY <1>1, <1>4, <2>1 DEF HasLock
<1> QED BY <1>1, <1>3, <1>4, <1>5 DEF RunsInv

LEMMA EndRunsLeaves ==
  ASSUME RunsInv, NEW M, NEW outcome, EndRuns(M, outcome), version' = version
  PROVE  \A o \in Migrators \ M : RunInv(o)'
<1>1. \A o \in Migrators \ M : /\ run'[o] = run[o] /\ from'[o] = from[o] /\ goal'[o] = goal[o]
                               /\ todo'[o] = todo[o] /\ made'[o] = made[o] /\ gone'[o] = gone[o]
  BY DEF EndRuns
<1>2. \A o \in Migrators : RunInv(o)
  BY DEF RunsInv
<1> QED BY <1>1, <1>2, RunUntouched

LEMMA FailKeeps ==
  ASSUME RunsInv, NEW M, EndRuns(M, "failed"), schema' = schema, version' = version
  PROVE  RunsInv'
<1>1. \A o \in Migrators \ M : RunInv(o)'
  BY EndRunsLeaves
<1>2. schema' = Replay[version']
  BY DEF RunsInv
<1>3. "failed" # "running"
  OBVIOUS
<1> QED BY <1>1, <1>2, <1>3, EndRunsKeeps

LEMMA CommitKeeps ==
  ASSUME MigrationsTypeOK, RunsInv, NEW m \in Migrators, CommitMigration(m)
  PROVE  RunsInv'
<1> DEFINE f == from[m]
           g == goal[m]
           t == Script(f, g)
<1>1. /\ run[m] = "running" /\ todo[m] = <<>> /\ version = f
      /\ schema' = Seen(m) /\ version' = g /\ EndRuns({m}, "succeeded")
  BY DEF CommitMigration
<1>2. IsWay(f, g)
  BY <1>1, RunningWays
<1>3. Len(t) \in Nat /\ Place(f, g, Len(t)) = Level(g) /\ g \in 0 .. 2
  <2> HIDE DEF f, g
  <2> QED BY <1>2, ScriptLengths
<1>4. PICK k \in 0 .. Len(t) : RunIsAt(m, k)
  BY <1>1 DEF RunsInv, RunInv
<1>5. k = Len(t) /\ gone[m] = DroppedIn(t, 1, Len(t))
  <2>1. SubSeq(t, k + 1, Len(t)) = <<>> /\ gone[m] = DroppedIn(t, 1, k)
    BY <1>1, <1>4 DEF RunIsAt
  <2>2. k \in 0 .. Len(t)
    OBVIOUS
  <2>3. SubSeq(t, k + 1, Len(t)) = <<>> <=> k = Len(t)
    <3> HIDE DEF f, g
    <3> QED BY <1>2, <2>2, Remaining
  <2> QED BY <2>1, <2>3
<1>6. schema' = Replay[version']
  <2>1. Seen(m) = State(Place(f, g, k))
    BY <1>1, <1>4, SeenOnTrack
  <2>2. Replay[g] = State(Level(g))
    <3> HIDE DEF g
    <3> QED BY <1>3, ReplayIs
  <2> QED BY <1>1, <1>3, <1>5, <2>1, <2>2
<1>7. ASSUME NEW o \in Migrators \ {m}
      PROVE  RunInv(o)'
  <2>1. /\ run'[o] = run[o] /\ from'[o] = from[o] /\ goal'[o] = goal[o]
        /\ todo'[o] = todo[o] /\ made'[o] = made[o] /\ gone'[o] = gone[o]
    BY <1>1 DEF EndRuns
  <2>2. RunInv(o)
    BY DEF RunsInv
  <2>3. CASE version' = version
    BY <2>1, <2>2, <2>3, RunUntouched
  <2>4. CASE version' # version
    <3>1. Name(11) \in gone[m]
      <4>1. f # g
        BY <1>1, <2>4
      <4> HIDE DEF f, g
      <4> QED BY <1>2, <1>5, <4>1, LookupDropped
    <3>2. ~ Holds(o)
      BY <3>1, InitialNames DEF RunsInv, Holds
    <3> QED BY <2>1, <2>2, <3>2 DEF RunInv, RunIsAt
  <2> QED BY <2>3, <2>4
<1>8. "succeeded" # "running"
  OBVIOUS
<1> QED BY <1>1, <1>6, <1>7, <1>8, EndRunsKeeps

\* A run that starts is at the first statement of its script.
LEMMA StartKeeps ==
  ASSUME RunsInv, NEW m \in Migrators, run[m] # "running", DOMAIN run = Migrators,
         DOMAIN from = Migrators, DOMAIN goal = Migrators, NEW g, IsWay(version, g),
         g = LastRevision \/ g = version - 1,
         run' = [run EXCEPT ![m] = "running"], from' = [from EXCEPT ![m] = version],
         goal' = [goal EXCEPT ![m] = g], todo' = [todo EXCEPT ![m] = Script(version, g)],
         schema' = schema, version' = version, made' = made, gone' = gone, locks' = locks
  PROVE  RunsInv'
<1> DEFINE t == Script(version, g)
<1>1. Len(t) \in Nat /\ SubSeq(t, 1, Len(t)) = t
  <2>1. Len(t) \in Nat
    BY ScriptLengths
  <2>2. 0 \in 0 .. Len(t)
    BY <2>1
  <2>3. SubSeq(t, 1, Len(t)) = t
    BY <2>2, Remaining
  <2> QED BY <2>1, <2>3
<1>2. DroppedIn(t, 1, 0) = {} /\ MadeBy(t, 0) = {}
  <2>1. 1 .. 0 = {}
    OBVIOUS
  <2> QED BY <2>1 DEF DroppedIn, MadeBy
<1>3. RunInv(m)'
  <2>1. /\ run'[m] = "running" /\ from'[m] = version /\ goal'[m] = g /\ todo'[m] = t
        /\ made'[m] = {} /\ gone'[m] = {}
    BY DEF RunsInv, RunInv
  <2>2. RunIsAt(m, 0)'
    <3>1. t = Script(from'[m], goal'[m]) /\ todo'[m] = SubSeq(t, 0 + 1, Len(t))
      BY <1>1, <2>1
    <3> HIDE DEF t
    <3> QED BY <1>2, <2>1, <3>1 DEF RunIsAt
  <2>3. 0 \in 0 .. Len(Script(from'[m], goal'[m]))
    BY <1>1, <2>1
  <2>4. \E k \in 0 .. Len(Script(from'[m], goal'[m])) : RunIsAt(m, k)'
    BY <2>2, <2>3
  <2>5. goal'[m] \in {LastRevision, from'[m] - 1}
    BY <2>1
  <2> QED BY <2>1, <2>4, <2>5 DEF RunInv
<1>4. ASSUME NEW o \in Migrators \ {m}
      PROVE  RunInv(o)'
  <2>1. /\ run'[o] = run[o] /\ from'[o] = from[o] /\ goal'[o] = goal[o]
        /\ todo'[o] = todo[o] /\ made'[o] = made[o] /\ gone'[o] = gone[o]
    BY DEF RunsInv
  <2>2. RunInv(o)
    BY DEF RunsInv
  <2> QED BY <2>1, <2>2, RunUntouched
<1>5. DOMAIN todo' = Migrators /\ DOMAIN made' = Migrators /\ DOMAIN gone' = Migrators
  BY DEF RunsInv
<1>6. \A o \in Migrators : (Holds(o)' <=> Holds(o)) /\ (HasLock(o)' <=> HasLock(o))
  BY DEF Holds, HasLock
<1> QED BY <1>3, <1>4, <1>5, <1>6 DEF RunsInv

LEMMA UpgradeKeeps ==
  ASSUME MigrationsTypeOK, RunsInv, NEW m \in Migrators, Upgrade(m)
  PROVE  RunsInv'
<1>1. version \in 0 .. 2 /\ LastRevision = 2
  BY Upgrades DEF MigrationsTypeOK
<1>2. IsWay(version, 2)
  BY <1>1 DEF IsWay
<1>3. FlattenSeq(SubSeq(upgrade, version + 1, LastRevision)) = Script(version, 2)
  <2>1. ~ (2 < version)
    BY <1>1
  <2> QED BY <1>1, <2>1 DEF Script
<1>4. DOMAIN run = Migrators /\ DOMAIN from = Migrators /\ DOMAIN goal = Migrators
  BY DEF MigrationsTypeOK
<1> QED BY <1>1, <1>2, <1>3, <1>4, StartKeeps DEF Upgrade

LEMMA DowngradeKeeps ==
  ASSUME MigrationsTypeOK, RunsInv, NEW m \in Migrators, Downgrade(m)
  PROVE  RunsInv'
<1> DEFINE g == version - 1
<1>1. version \in 1 .. 2 /\ g \in 0 .. 1 /\ g < version
  BY Upgrades DEF MigrationsTypeOK, Downgrade
<1>2. IsWay(version, g)
  BY <1>1 DEF IsWay
<1>3. downgrade[version] = Script(version, g)
  BY <1>1 DEF Script
<1>4. DOMAIN run = Migrators /\ DOMAIN from = Migrators /\ DOMAIN goal = Migrators
  BY DEF MigrationsTypeOK
<1>5. /\ run[m] # "running"
      /\ run' = [run EXCEPT ![m] = "running"] /\ from' = [from EXCEPT ![m] = version]
      /\ goal' = [goal EXCEPT ![m] = g] /\ todo' = [todo EXCEPT ![m] = Script(version, g)]
      /\ schema' = schema /\ version' = version /\ made' = made /\ gone' = gone
      /\ locks' = locks
  BY <1>3 DEF Downgrade
<1>6. g = LastRevision \/ g = version - 1
  OBVIOUS
<1> HIDE DEF g
<1> QED BY <1>2, <1>4, <1>5, <1>6, StartKeeps

LEMMA StepKeeps ==
  ASSUME MigrationsTypeOK, RunsInv, NEW m \in Migrators, MigrationStep(m)
  PROVE  RunsInv'
<1>1. CASE StatementFails(m)
  BY <1>1, FailKeeps DEF StatementFails
<1>2. CASE DeadlockVictim(m)
  BY <1>2, FailKeeps DEF DeadlockVictim
<1> QED BY <1>1, <1>2, TakeLockKeeps, ExecuteKeeps, CommitKeeps DEF MigrationStep

LEMMA StutterKeeps ==
  ASSUME RunsInv, UNCHANGED schemaVars
  PROVE  RunsInv'
BY DEF RunsInv, RunInv, RunIsAt, Holds, HasLock, schemaVars

LEMMA InitRuns ==
  ASSUME MigrationsInit
  PROVE  RunsInv
<1>1. Replay[0] = {}
  <2>1. 0 \in 0 .. 2 /\ Level(0) = 0
    BY DEF Level
  <2> QED BY <2>1, ReplayIs, FirstStates
<1> QED BY <1>1 DEF MigrationsInit, RunsInv, RunInv, Holds

-----------------------------------------------------------------------------
(* The last revision is the one the models declare.                          *)

LEMMA LastIsMetadata == {o \in State(19) : o.is # "partition"} = metadata
<1>1. Old(19) = {1, 2, 3, 4, 5, 7, 8, 9, 10, 12, 13} /\ Recent(19) = {1, 2, 4, 6}
  BY DEF Old, Recent
<1>2. State(19) = {Made(1), Made(2), Made(3), Made(4), Made(5), Made(7), Made(8), Made(9), Made(10),
                   Made(12), Made(13), New(1), New(2), New(4), New(6)}
  BY <1>1 DEF State
<1>3. Made(12).is = "partition" /\ Made(13).is = "partition"
  BY DEF Made, initial_upgrade, Create, Partition
<1>4. /\ Made(1).is # "partition" /\ Made(2).is # "partition" /\ Made(3).is # "partition"
      /\ Made(4).is # "partition" /\ Made(5).is # "partition" /\ Made(7).is # "partition"
      /\ Made(8).is # "partition" /\ Made(9).is # "partition" /\ Made(10).is # "partition"
  BY DEF Made, initial_upgrade, Create, Table, Index
<1>5. New(1).is # "partition" /\ New(2).is # "partition" /\ New(4).is # "partition" /\ New(6).is # "partition"
  BY DEF New, scaling_upgrade, Create, Index
<1>6. ExchangeRate = {Made(1)} /\ Shop = {Made(2)} /\ User = {Made(3)} /\ Product = {Made(4)}
  BY DEF ExchangeRate, Shop, User, Product, Made, initial_upgrade, Create
<1>7. UserProduct = {Made(9)}
  BY DEF UserProduct, Made, initial_upgrade, Create, Table
<1>8. ProductShop = {Made(7), Made(8), New(1)}
  BY DEF ProductShop, Made, New, initial_upgrade, scaling_upgrade, Create
<1>9. PriceAlert = {Made(5), New(2), New(4)}
  BY DEF PriceAlert, Made, New, initial_upgrade, scaling_upgrade, Create, Table
<1>10. PriceHistory = {Made(10), New(6)}
  BY DEF PriceHistory, Made, New, initial_upgrade, scaling_upgrade, Create
<1>11. metadata = {Made(1), Made(2), Made(3), Made(4), Made(9), Made(7), Made(8), New(1),
                   Made(5), New(2), New(4), Made(10), New(6)}
  BY <1>6, <1>7, <1>8, <1>9, <1>10 DEF metadata
<1> QED BY <1>2, <1>3, <1>4, <1>5, <1>11

LEMMA RunsSchema ==
  ASSUME MigrationsTypeOK, RunsInv
  PROVE  SchemaIsRevision
<1>1. version = LastRevision => schema = State(19)
  <2>1. 2 \in 0 .. 2 /\ Level(2) = 19 /\ LastRevision = 2
    BY Upgrades DEF Level
  <2> QED BY <2>1, ReplayIs DEF RunsInv
<1> QED BY <1>1, LastIsMetadata DEF RunsInv, SchemaIsRevision

LEMMA FailsLate ==
  ASSUME MigrationsTypeOK, RunsInv, NEW m \in Migrators, StatementFails(m)
  PROVE  version # from[m]
<1> SUFFICES ASSUME version = from[m] PROVE FALSE
  OBVIOUS
<1> DEFINE f == from[m]
           g == goal[m]
           t == Script(f, g)
<1>1. run[m] = "running" /\ todo[m] # <<>> /\ ~ Executable(Head(todo[m]), Seen(m))
  BY DEF StatementFails
<1>2. IsWay(f, g)
  BY <1>1, RunningWays
<1>3. PICK k \in 0 .. Len(t) : RunIsAt(m, k)
  BY <1>1 DEF RunsInv, RunInv
<1>4. todo[m] = SubSeq(t, k + 1, Len(t))
  BY <1>3 DEF RunIsAt
<1>5. k < Len(t) /\ Head(todo[m]) = t[k + 1]
  <2>1. Len(t) \in Nat /\ k \in 0 .. Len(t)
    <3>1. k \in 0 .. Len(t)
      OBVIOUS
    <3> HIDE DEF f, g
    <3> QED BY <1>2, <3>1, ScriptLengths
  <2>2. /\ SubSeq(t, k + 1, Len(t)) = <<>> <=> k = Len(t)
        /\ k < Len(t) => Head(SubSeq(t, k + 1, Len(t))) = t[k + 1]
    <3> HIDE DEF f, g
    <3> QED BY <1>2, <2>1, Remaining
  <2> HIDE DEF t
  <2> QED BY <1>1, <1>4, <2>1, <2>2
<1>6. \E T : Moves(t[k + 1], Seen(m), T)
  BY <1>1, <1>3, <1>5, NextMoves
<1> QED BY <1>1, <1>5, <1>6 DEF Moves

-----------------------------------------------------------------------------
(* The steps of the deployment.                                              *)

LEMMA RunsNext == DeploymentInv /\ RunsInv /\ [Next]_vars => RunsInv'
<1> SUFFICES ASSUME MigrationsTypeOK, RunsInv, [Next]_vars PROVE RunsInv'
  BY DEF DeploymentInv
<1>1. ASSUME NEW m \in Migrators, Upgrade(m) \/ Downgrade(m) \/ MigrationStep(m) PROVE RunsInv'
  BY <1>1, UpgradeKeeps, DowngradeKeeps, StepKeeps
<1>2. ASSUME NEW M, Rollback(M) PROVE RunsInv'
  BY <1>2, FailKeeps DEF Rollback
<1>3. ASSUME UNCHANGED schemaVars PROVE RunsInv'
  BY <1>3, StutterKeeps
<1>4. CASE ComposeUp \/ ComposeEnds \/ ComposeDown \/ Lifespan \/ Recover \/ UNCHANGED vars
  <2>1. UNCHANGED schemaVars
    BY <1>4 DEF ComposeUp, ComposeEnds, ComposeDown, Lifespan, Recover, vars
  <2> QED BY <1>3, <2>1
<1>5. ASSUME NEW m \in Migrators, RunAlembic(m) \/ MigrateByHand(m) PROVE RunsInv'
  BY <1>1, <1>5 DEF RunAlembic, MigrateByHand
<1>6. ASSUME NEW s \in Services, ContainerStep(s) \/ Crash(s) PROVE RunsInv'
  <2>1. CASE Crash(s)
    BY <1>2, <2>1 DEF Crash
  <2>2. CASE StartContainer(s) \/ Restart(s)
    <3>1. UNCHANGED schemaVars
      BY <2>2 DEF StartContainer, Restart
    <3> QED BY <1>3, <3>1
  <2>3. CASE wait_for_db(s)
    <3>1. UNCHANGED schemaVars \/ (s = "migrate" /\ Upgrade(s))
      BY <2>3 DEF wait_for_db
    <3> QED BY <1>1, <1>3, <3>1, DeploymentAssumption
  <2> QED BY <1>6, <2>1, <2>2, <2>3 DEF ContainerStep
<1>7. CASE Migrate
  BY <1>1, <1>7, DeploymentAssumption DEF Migrate
<1>8. ASSUME NEW startup, Outage(startup) PROVE RunsInv'
  BY <1>2, <1>8 DEF Outage
<1>9. CASE Reboot
  BY <1>2, <1>9 DEF Reboot
<1> QED BY <1>4, <1>5, <1>6, <1>7, <1>8, <1>9 DEF Next

LEMMA RunsAlways == Spec => [](DeploymentInv /\ RunsInv)
<1>1. Init => RunsInv
  BY InitRuns DEF Init
<1> QED BY <1>1, RunsNext, DeploymentInit, DeploymentNext, PTL DEF Spec

-----------------------------------------------------------------------------
(* The theorems.                                                             *)

\* Containers, migrations and counters keep their types.
THEOREM TypeCorrect == Spec => []TypeOK
<1>1. Init => FlagsTypeOK
  BY DEF Init, FlagsTypeOK
<1>2. FlagsTypeOK /\ [Next]_vars => FlagsTypeOK'
  BY DEF FlagsTypeOK, Next, vars, ComposeUp, ComposeEnds, ComposeDown, RunAlembic, MigrateByHand,
         ContainerStep, StartContainer, Restart, wait_for_db, Crash, Migrate, Lifespan, Outage,
         Recover, Reboot
<1>3. DeploymentInv /\ FlagsTypeOK => TypeOK
  BY DEF DeploymentInv, TypeOK
<1> QED BY <1>1, <1>2, <1>3, DeploymentInit, DeploymentNext, PTL DEF Spec

\* Neither the API nor the worker runs before the schema is that of the last revision.
THEOREM NothingRunsUnmigrated == Spec => []MigratedFirst
<1>1. DeploymentInv => MigratedFirst
  BY DEF DeploymentInv, StartedOnLast, MigratedFirst, Alive
<1> QED BY <1>1, DeploymentInit, DeploymentNext, PTL DEF Spec

\* Whatever runs overlap, fail or are undone, what is committed is what the revisions
\* up to alembic_version make of an empty database, and the last of them is what the
\* models declare.
THEOREM SchemaFollowsVersion == Spec => []SchemaIsRevision
<1>1. DeploymentInv /\ RunsInv => SchemaIsRevision
  BY RunsSchema DEF DeploymentInv
<1> QED BY <1>1, RunsAlways, PTL

\* A statement of a migration fails only after another run has moved the version.
THEOREM OnlyOvertaken == Spec => OnlyOvertakenFail
<1> DEFINE A == \A m \in Migrators : StatementFails(m) => version # from[m]
<1>1. DeploymentInv /\ RunsInv => [A]_schemaVars
  BY FailsLate DEF DeploymentInv
<1> HIDE DEF A
<1>2. Spec => [][A]_schemaVars
  BY <1>1, RunsAlways, PTL
<1> QED BY <1>2 DEF A, OnlyOvertakenFail
=============================================================================
