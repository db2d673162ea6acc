SPECIFICATION FairSpec
CONSTANTS
  Migrators = {"migrate", "byHand", "another"}
  Retries = 2
  MaxCrashes = 2
  MaxUps = 4
INVARIANTS TypeOK SchemaIsRevision MigratedFirst
PROPERTIES OnlyOvertakenFail WorkerRecovers UpBringsUp
CHECK_DEADLOCK FALSE
