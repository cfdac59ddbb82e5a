SPECIFICATION Spec
CONSTANTS
  Keys = {"a", "b"}
  Strategies = {"replace", "skip"}
  MaxOps = 3
  MaxRewinds = 1
  Tables = {"a", "b"}
  MaxRestarts = 1
  Binlog <- Log
  EventRows = 2
  Cap = 2
  MaxEnds = 2
  Loaded = {"a"}
  LoadSlots = {"chain"}
  MaxWrites = 3
  MaxLoads = 2
  MaxStarts = 2
  JobRows = {"a", "b", "c"}
  MaxWm = 3
  Setups <- Jobs
  JobWrites = 2
  MaxRuns = 2
  Sole = {"a"}
  Few = {"a", "b"}
  FewWrites = 1
INVARIANTS
  RowsConverge
  DdlFollows
  BinlogSound
  ChainLossless
  IncrementalComplete
  CompareHonest
\* A part may have nothing left to do within the bounds.
CHECK_DEADLOCK FALSE
