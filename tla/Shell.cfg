SPECIFICATION FairSpec
CONSTANTS
  WordChars = {"e", "c", "w"}
  MAXARGS = 4
  NPROC = 7
  NFILE = 5
  NPAGES = 2
  NOFILES = {4, 5}
  PIPESIZE = 2
  CtrMod = 4
  Inputs <- TypedLines
  FaultyInputs <- Faulty
  INPUTBUF = 3
  IndexMod = 6
  ReadSizes = {1, 3}
  MaxKeys = 8
INVARIANTS FilesExact PipeSleepsForReason OutputMeant ParserRight ConsoleRight
PROPERTY LinesEnd
CHECK_DEADLOCK FALSE
