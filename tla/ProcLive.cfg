\* init, its children and their orphans compete for one CPU.
SPECIFICATION FairSpec
CONSTANTS
  NPROC = 3
  NCPU = 1
  KillPid = {}
  MaxPid = 3
PROPERTIES
  RunnableRuns
  InitReapsZombies
