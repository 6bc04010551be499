SPECIFICATION Spec
CONSTANTS
  NPROC = 3
  NCPU = 1
  TickMod = 2
  MaxPid = 4
  KillPids = {0, 2}
  SleepTicks = {1}
  Program <- KillProgram
PROPERTIES FreshNotKilled
