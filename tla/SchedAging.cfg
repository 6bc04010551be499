SPECIFICATION FairSpec
CONSTANTS
  NPROC = 2
  NCPU = 1
  INTERV = 1
  P1TO2 = 2
  P2TO3 = 1
  QueueMax = 2
  MaxPid = 2
  Requests = {1, 3}
PROPERTIES WaitingIsPromoted
