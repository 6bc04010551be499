SPECIFICATION Spec
CONSTANTS
  NPROC = 4
  NCPU = 1
  TickMod = 1
  MaxPid = 4
  KillPids = {}
  SleepTicks = {}
  Program <- TreeProgram
INVARIANTS ProcessTree NoLostExit
PROPERTIES ReapedByParent
