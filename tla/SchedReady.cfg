SPECIFICATION TSpec
CONSTANTS
  NPROC = 2
  NCPU = 2
  INTERV = 1
  P1TO2 = 1
  P2TO3 = 1
  QueueMax = 1
  MaxPid = 3
  Requests = {3}
  MaxTurns = 5
PROPERTIES ReadyIsRunnable
CHECK_DEADLOCK FALSE
