CONSTANTS
  parent = parent
  child = child
  Tables <- MCTables
  Fk <- MCFk
  Configs <- MCConfigs
  Parallel = 2
  MaxFaults = 2
SPECIFICATION Spec
INVARIANTS ForcedFresh
CHECK_DEADLOCK FALSE
