----------------------------- MODULE Deployment -----------------------------
(* docker compose: in which order the containers of the application come up,  *)
(* what each does before it works (wait_for_db, migrations, seed), and what   *)
(* Docker does when one exits, PostgreSQL restarts or the host reboots.       *)
(* Redis and pgAdmin are left out.                                            *)
EXTENDS Migrations

CONSTANTS Retries,     \* attempts of wait_for_db
          MaxCrashes,  \* bound: crashes, outages and reboots
          MaxUps       \* bound: commands of the operator

ASSUME DeploymentAssumption ==
  /\ "migrate" \in Migrators
  /\ Retries \in Nat \ {0} /\ MaxCrashes \in Nat /\ MaxUps \in Nat

Services == {"migrate", "api", "worker", "beat"}
Kept == {"api", "worker", "beat"}   \* restart: unless-stopped
App == {"api", "worker"}            \* wait for migrate; use the models

VARIABLES
  postgres,   \* "up" (healthy) or "down"
  compose,    \* `docker compose up` is under way
  container,  \* [Services -> its state]
  attempt,    \* the attempt of wait_for_db in each
  undisturbed, \* history: nothing went wrong, and no other command was given, since
               \* a `docker compose up` on a healthy host
  crashes, commands

bounds == <<crashes, commands>>
vars == <<schemaVars, postgres, compose, container, attempt, undisturbed, bounds>>

States == {"created", "waiting", "starting", "working", "stuck", "exited", "succeeded", "failed"}

ContainersTypeOK ==
  /\ postgres \in {"up", "down"}
  /\ container \in [Services -> States]
  /\ attempt \in [Services -> 0 .. Retries]
  /\ crashes \in 0 .. MaxCrashes /\ commands \in 0 .. MaxUps

FlagsTypeOK == compose \in BOOLEAN /\ undisturbed \in BOOLEAN

TypeOK == MigrationsTypeOK /\ ContainersTypeOK /\ FlagsTypeOK

Init ==
  /\ MigrationsInit
  /\ postgres = "up"
  /\ compose = FALSE /\ undisturbed = FALSE
  /\ container = [s \in Services |-> "created"]
  /\ attempt = [s \in Services |-> 0]
  /\ crashes = 0 /\ commands = 0

-----------------------------------------------------------------------------
(* docker compose up and down.                                               *)

Become(s, state) ==
  /\ container' = [container EXCEPT ![s] = state]
  /\ attempt' = [attempt EXCEPT ![s] = 0]

ByHand == Migrators \ {"migrate"}

\* The migrate container is started anew by every `up`; the others, if they run, are
\* left.  The operator does not do this while taking a revision back.
ComposeUp ==
  /\ ~ compose /\ commands < MaxUps
  /\ container["migrate"] \in {"created", "succeeded", "failed"}
  /\ \A m \in ByHand : run[m] = "running" => goal[m] = LastRevision
  /\ compose' = TRUE
  /\ commands' = commands + 1
  /\ Become("migrate", "created")
  /\ undisturbed' = /\ postgres = "up" /\ container["api"] # "stuck"
                    /\ \A m \in ByHand : run[m] # "running"
  /\ UNCHANGED <<schemaVars, postgres, crashes>>

\* service_started in place of service_completed_successfully.
ReadyOnceStarted(s) ==
  \/ s = "migrate" /\ postgres = "up"
  \/ s \in App /\ postgres = "up" /\ container["migrate"] # "created"
  \/ s = "beat" /\ container["worker"] # "created"

\* depends_on of each service.
Ready(s) ==
  \/ s = "migrate" /\ postgres = "up"
  \/ s \in App /\ postgres = "up" /\ container["migrate"] = "succeeded"
  \/ s = "beat" /\ container["worker"] # "created"

StartContainer(s) ==
  /\ compose
  /\ container[s] = "created" /\ Ready(s)
  /\ Become(s, IF s = "beat" THEN "working" ELSE "waiting")
  /\ UNCHANGED <<schemaVars, postgres, compose, undisturbed, bounds>>

\* All are started, or migrate exited with an error and compose gives up.
ComposeEnds ==
  /\ compose
  /\ \/ container["migrate"] = "failed"
     \/ \A s \in Services : container[s] # "created"
  /\ compose' = FALSE
  /\ UNCHANGED <<schemaVars, postgres, container, attempt, undisturbed, bounds>>

\* `docker compose down`: the containers are removed, the volumes stay.
ComposeDown ==
  /\ ~ compose /\ commands < MaxUps
  /\ \E s \in Services : container[s] # "created"
  /\ run["migrate"] # "running"
  /\ commands' = commands + 1
  /\ container' = [s \in Services |-> "created"]
  /\ attempt' = [s \in Services |-> 0]
  /\ undisturbed' = FALSE
  /\ UNCHANGED <<schemaVars, postgres, compose, crashes>>

\* Alembic by hand (`docker compose run migrate` in CI, or locally); a revision is
\* taken back only while the application is down.
RunAlembic(m) ==
  /\ m \in ByHand /\ postgres = "up" /\ commands < MaxUps
  /\ \/ Upgrade(m)
     \/ Downgrade(m) /\ ~ compose /\ \A s \in Services : container[s] = "created"
  /\ commands' = commands + 1
  /\ undisturbed' = FALSE
  /\ UNCHANGED <<postgres, compose, container, attempt, crashes>>

-----------------------------------------------------------------------------
(* The containers.                                                           *)

\* The loop has no last attempt.
WaitForever(s) ==
  /\ container[s] = "waiting"
  /\ IF postgres = "up"
     THEN /\ IF s = "migrate" THEN Upgrade(s) ELSE UNCHANGED schemaVars
          /\ Become(s, IF s = "worker" THEN "working" ELSE "starting")
     ELSE /\ UNCHANGED <<schemaVars, container>>
          /\ attempt' = [attempt EXCEPT ![s] = @ + 1]
  /\ UNCHANGED <<postgres, compose, undisturbed, bounds>>

\* One attempt of wait_for_db; after the last one the command exits with 1, which
\* leaves migrate failed and is followed by a restart of the others.
wait_for_db(s) ==
  /\ container[s] = "waiting"
  /\ IF postgres = "up"
     THEN /\ IF s = "migrate" THEN Upgrade(s) ELSE UNCHANGED schemaVars
          /\ Become(s, IF s = "worker" THEN "working" ELSE "starting")
     ELSE /\ UNCHANGED schemaVars
          /\ IF attempt[s] + 1 < Retries
             THEN attempt' = [attempt EXCEPT ![s] = @ + 1] /\ UNCHANGED container
             ELSE Become(s, IF s = "migrate" THEN "failed" ELSE "exited")
  /\ UNCHANGED <<postgres, compose, undisturbed, bounds>>

Migrate ==
  /\ MigrationStep("migrate")
  /\ container' = [container EXCEPT !["migrate"] =
                     IF run'["migrate"] = "running" THEN @ ELSE run'["migrate"]]
  /\ UNCHANGED <<postgres, compose, attempt, undisturbed, bounds>>

MigrateByHand(m) ==
  /\ m \in ByHand /\ MigrationStep(m)
  /\ UNCHANGED <<postgres, compose, container, attempt, undisturbed, bounds>>

\* lifespan returns from the seed, whose later steps swallow their errors.
Lifespan ==
  /\ container["api"] = "starting"
  /\ Become("api", "working")
  /\ UNCHANGED <<schemaVars, postgres, compose, undisturbed, bounds>>

\* The other services have no restart policy.
RestartsApiOnly(s) ==
  /\ s = "api" /\ container[s] = "exited"
  /\ Become(s, "waiting")
  /\ UNCHANGED <<schemaVars, postgres, compose, undisturbed, bounds>>

\* Docker starts a container again that has exited, whatever it depends on.
Restart(s) ==
  /\ s \in Kept /\ container[s] = "exited"
  /\ Become(s, IF s = "beat" THEN "working" ELSE "waiting")
  /\ UNCHANGED <<schemaVars, postgres, compose, undisturbed, bounds>>

-----------------------------------------------------------------------------
(* What goes wrong.                                                          *)

Alive == {"waiting", "starting", "working", "stuck"}

\* The state in which the end of its process leaves a container.
Killed(s) == IF container[s] \notin Alive THEN container[s]
             ELSE IF s = "migrate" THEN "failed" ELSE "exited"

Crash(s) ==
  /\ container[s] \in Alive
  /\ crashes < MaxCrashes
  /\ crashes' = crashes + 1
  /\ undisturbed' = FALSE
  /\ Rollback({s} \cap Migrators)
  /\ Become(s, Killed(s))
  /\ UNCHANGED <<postgres, compose, commands>>

\* PostgreSQL goes down, and a migration that was running fails with it.  An error in
\* the first steps of the seed ends the startup of the API: the reloader of uvicorn
\* stays up, without a server.
Outage(startup) ==
  /\ postgres = "up"
  /\ crashes < MaxCrashes
  /\ crashes' = crashes + 1
  /\ undisturbed' = FALSE
  /\ postgres' = "down"
  /\ Rollback(Migrators)
  /\ container' = [container EXCEPT !["migrate"] = IF @ = "starting" THEN "failed" ELSE @,
                                   !["api"] = IF @ = "starting" THEN startup ELSE @]
  /\ UNCHANGED <<compose, attempt, commands>>

Recover ==
  /\ postgres = "down"
  /\ postgres' = "up"
  /\ UNCHANGED <<schemaVars, compose, container, attempt, undisturbed, bounds>>

\* The host reboots, and with it every process; compose is not started again.
Reboot ==
  /\ crashes < MaxCrashes
  /\ crashes' = crashes + 1
  /\ undisturbed' = FALSE
  /\ postgres' = "down"
  /\ compose' = FALSE
  /\ Rollback(Migrators)
  /\ container' = [s \in Services |-> Killed(s)]
  /\ attempt' = [s \in Services |-> 0]
  /\ UNCHANGED commands

-----------------------------------------------------------------------------
ContainerStep(s) == StartContainer(s) \/ Restart(s) \/ wait_for_db(s)

Next ==
  \/ ComposeUp \/ ComposeEnds \/ ComposeDown
  \/ \E m \in Migrators : RunAlembic(m) \/ MigrateByHand(m)
  \/ \E s \in Services : ContainerStep(s) \/ Crash(s)
  \/ Migrate \/ Lifespan
  \/ \E startup \in {"starting", "stuck"} : Outage(startup)
  \/ Recover \/ Reboot

Spec == Init /\ [][Next]_vars

\* Docker restarts what has exited and PostgreSQL with it; compose and every process
\* go on with what they can do.
Fairness ==
  /\ WF_vars(Recover) /\ WF_vars(ComposeEnds)
  /\ WF_vars(Migrate) /\ WF_vars(Lifespan)
  /\ \A m \in Migrators : WF_vars(MigrateByHand(m))
  /\ \A s \in Services : WF_vars(ContainerStep(s))

FairSpec == Spec /\ Fairness

-----------------------------------------------------------------------------
(* The inductive invariant of the proofs.                                    *)

\* What has been started was started on the last revision, the run of migrate ends
\* with its container, and a revision is taken back only while nothing is started.
StartedOnLast ==
  /\ run["migrate"] = "running" => container["migrate"] = "starting"
  /\ container["migrate"] = "succeeded" => version = LastRevision
  /\ \A s \in App : container[s] # "created" => version = LastRevision

TakenBackAlone ==
  \A m \in Migrators : run[m] = "running" /\ goal[m] # LastRevision =>
    m \in ByHand /\ ~ compose /\ \A s \in Services : container[s] = "created"

DeploymentInv == MigrationsTypeOK /\ ContainersTypeOK /\ StartedOnLast /\ TakenBackAlone

-----------------------------------------------------------------------------
(* Properties.                                                               *)

\* The seed, the API and the tasks run on the schema of the last revision: in the
\* first start, after an `up` whose migration failed, and after crashes, outages and
\* reboots, which restart them without the migrate container.
MigratedFirst == \A s \in App : container[s] \in Alive => version = LastRevision

\* Once started, the worker is at work again after every outage, reboot or crash,
\* though wait_for_db gives up each time PostgreSQL takes too long.
WorkerRecovers ==
  [](container["worker"] # "created" => <>(container["worker"] \in {"created", "working"}))

\* `docker compose up` alone brings up the whole stack: if nothing goes wrong and no
\* other command is given meanwhile, all its services come to work.
UpBringsUp ==
  undisturbed ~> (~ undisturbed \/ \A s \in Kept : container[s] = "working")
=============================================================================
