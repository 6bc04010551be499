SPECIFICATION Spec
CONSTANTS
  Procs = {p1, p2}
  NoProc = NoProc
  NINODE = 5
  NInums = 5
  Names <- MCNames
  Calls <- AllCalls
  MaxCalls = 2
INVARIANT NamelessIsFree
SYMMETRY Symmetry
CHECK_DEADLOCK FALSE
