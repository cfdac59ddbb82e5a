\* A chain may be down for good.
CHECK_DEADLOCK FALSE
SPECIFICATION FairSpec
CONSTANTS
  a = a
  Tables = {a}
  N <- MCN
  Lsn <- MCLsn
  Commit <- MCCommit
  Kind <- MCNoKey
  TableOf <- MCTableOf
  Seed = 1
  MaxRestarts = 1
  BatchSize = 3
  Parallel = 1
  ChanCap = 1
  Route <- MCRoute
  SkipTables = {}
  Absent = {}
INVARIANTS
  CleanEndsLoseNothing
PROPERTIES
  ComesDown
  EventuallySettled
  ImplementsSource
