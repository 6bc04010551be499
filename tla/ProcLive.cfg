SPECIFICATION FairSpec
CONSTANTS
  NPROC = 2
  NCPU = 1
  TickMod = 2
  MaxPid = 2
  KillPids = {}
  SleepTicks = {1}
  Program <- TimerProgram
PROPERTY KernelGoesOn
