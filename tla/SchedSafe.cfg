SPECIFICATION TSpec
CONSTANTS
  NPROC = 2
  NCPU = 2
  INTERV = 1
  P1TO2 = 2
  P2TO3 = 1
  QueueMax = 2
  MaxPid = 3
  Requests = {1, 3}
  MaxTurns = 4
INVARIANTS SliceCharged NoMissedPromotion BooksBalance
PROPERTY OnlySelfDemotes
CHECK_DEADLOCK FALSE
