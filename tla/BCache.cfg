SPECIFICATION FairSpec
CONSTANTS
  Procs = {p1, p2}
  Bufs = {b1, b2, b3}
  Blocks = {n1, n2, n3, n4}
  Vals = {x, y}
  NoProc = NoProc
  NoBuf = NoBuf
  NoBlock = NoBlock
  BadBlocks = {n4}
  Writable = {n1}
  MaxPinned = 1
INVARIANTS BufferIsBlock QueueOwned CacheKept
PROPERTIES Coherent RequestAnswered
