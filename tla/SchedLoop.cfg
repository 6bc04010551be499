SPECIFICATION FairSpec
CONSTANTS
  NPROC = 4
  Priorities = {1, 2, 3}
INVARIANT LoopsChoose
PROPERTY LoopsEnd
