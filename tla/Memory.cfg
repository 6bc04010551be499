SPECIFICATION Spec
CONSTANTS
  NPROC = 2
  NPAGES = 17
  PGSIZE = 2
  PTN = 2
  NTAB = 3
  AddrMod = 24
  Images <- MCImages
  Sbrks <- MCSbrks
  ArgLens <- MCArgLens
  MaxCalls = 4
  NALLOC = 4
  HeapMax = 14
  NBytes = {0, 9, 32}
  MaxMallocs = 6
INVARIANTS PagesOnce SpacesExact ArgsFitStack HeapSound
PROPERTY FailureHarmless
CHECK_DEADLOCK FALSE
