\* A process is killed between the killed() check of wait() and its sleep().
SPECIFICATION Spec
CONSTANTS
  NPROC = 3
  NCPU = 2
  KillPid = {2}
  MaxPid = 3
INVARIANTS
  KillWakesSleeper
