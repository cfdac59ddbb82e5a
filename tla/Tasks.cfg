\* One start or resume at a time beside a pause, cancel or delete; for the race
\* of two starts, Starting = {r1, r2} and Others = {}.
CONSTANTS
  Starting = {r1}
  Others = {r2}
  MaxRuns = 2
SPECIFICATION Spec
INVARIANTS OneWanted RunningIsLive NothingStale
PROPERTIES NeverStuck
