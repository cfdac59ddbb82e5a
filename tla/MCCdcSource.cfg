SPECIFICATION Spec
CONSTANTS
  a = a
  b = b
  Tables = {a, b}
  N <- MCN
  Lsn <- MCLsn
  Commit <- MCCommit
  Kind <- MCKind
  TableOf <- MCTableOf
  Seed = 1
  MaxRestarts = 3
INVARIANTS
  NoGap
  RefusedIsRetained
PROPERTIES
  ImplementsReplay
CHECK_DEADLOCK FALSE
