\* A program passes 0, the pid of every free slot, to kill().
SPECIFICATION Spec
CONSTANTS
  NPROC = 3
  NCPU = 2
  KillPid = {0, 3}
  MaxPid = 3
INVARIANTS
  KillHitsProcess
