CONSTANTS
  parent = parent
  child = child
  Tables <- MCTables
  Fk <- MCFk
  Configs <- MCConfigs
  Parallel = 2
  MaxFaults = 2
SPECIFICATION Spec
INVARIANTS DoneIsMigrated CompletedIsExported NoPhaseLeftRunning ParentsFirst
PROPERTIES NoProgressLost EventuallyMigrated
\* A migration that has succeeded is not run again.
CHECK_DEADLOCK FALSE
