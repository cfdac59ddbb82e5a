\* A standstill is what ShutsDown is about: Start must return.
CHECK_DEADLOCK FALSE
SPECIFICATION FairSpec
CONSTANTS
  a = a
  b = b
  Tables = {a, b}
  N <- MCN
  Lsn <- MCLsn
  Commit <- MCCommit
  Kind <- MCNoKey
  TableOf <- MCTableOf
  BatchSize = 2
  Parallel = 2
  ChanCap = 1
  Route <- MCRoute
  SkipTables = {}
  Absent = {a}
PROPERTIES
  ShutsDown
INVARIANTS
  TableOrder
  HaltStopsTable
  CountersAddUp
  CleanReturnSettlesAll
