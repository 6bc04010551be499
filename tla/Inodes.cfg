SPECIFICATION Spec
CONSTANTS
  Procs = {p1, p2}
  NoProc = NoProc
  NINODE = 5
  NInums = 5
  Names <- MCNames
  Calls <- AllCalls
  MaxCalls = 2
  FSSIZE = 20
  BSIZE = 3
  NDIRECT = 2
  nlog = 1
  MAXOPBLOCKS = 6
  ImageFiles <- MCImageFiles
  FileOps <- MCFileOps
  MaxOps = 5
INVARIANTS RefsExact CacheCoherent InUseNotFreed NamesExact DiskExact OpsFitLog
SYMMETRY Symmetry
CHECK_DEADLOCK FALSE
