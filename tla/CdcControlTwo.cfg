\* A start request is accepted while a stop waits.
\* The server may idle for ever.
SPECIFICATION Spec
CHECK_DEADLOCK FALSE
CONSTANTS
  Clients = {c1, c2}
  MaxRestarts = 1
  MaxProcs = 3
  MaxRequests = 3
  MaxFails = 0
  WebRestarts = 0
  Watchdog = FALSE
  QuietLoops = TRUE
  QuietWatchdog = TRUE
  QuietWeb = TRUE
INVARIANT SingleChild
