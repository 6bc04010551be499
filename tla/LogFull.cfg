SPECIFICATION Spec
CONSTANTS
  Procs = {p1, p2}
  NBlocks = 4
  Vals = {old, new}
  NotCached = none
  LOGSIZE = 4
  MAXOPBLOCKS = 2
  size = 4
  Writers = {p1, p2}
  OpWrites = 2
INVARIANTS NotExhausted
