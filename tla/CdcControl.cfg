\* One operator and a web restart, at quiet moments; crashes at any moment.
\* The server may idle for ever.
SPECIFICATION FairSpec
CHECK_DEADLOCK FALSE
CONSTANTS
  Clients = {c1}
  MaxRestarts = 1
  MaxProcs = 4
  MaxRequests = 3
  MaxFails = 1
  WebRestarts = 1
  Watchdog = TRUE
  QuietLoops = TRUE
  QuietWatchdog = TRUE
  QuietWeb = TRUE
PROPERTY RequestsEnd
PROPERTY Revived
INVARIANT OneWanted
INVARIANT StopWins
