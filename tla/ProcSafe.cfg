SPECIFICATION Spec
CONSTANTS
  NPROC = 2
  NCPU = 2
  TickMod = 3
  MaxPid = 3
  KillPids = {1, 2, 3}
  SleepTicks = {0, 1, 2}
  Program <- SleepProgram
INVARIANTS LockHandover RunsOnOneCpu NoLostTick
