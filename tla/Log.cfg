SPECIFICATION FairSpec
CONSTANTS
  Procs = {p1, p2, p3}
  NBlocks = 2
  Vals = {old, new}
  NotCached = none
  LOGSIZE = 6
  MAXOPBLOCKS = 3
  size = 6
  Writers = {p1, p2}
  OpWrites = 2
INVARIANTS LogFits Durable
PROPERTIES AllOrNothing SleeperWoken
