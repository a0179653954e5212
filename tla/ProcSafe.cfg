\* init and two slots for its descendants on two CPUs; pid 3 may be killed.
SPECIFICATION Spec
CONSTANTS
  NPROC = 3
  NCPU = 2
  KillPid = {3}
  MaxPid = 3
CONSTRAINT KillNotPreempted
INVARIANTS
  TableSound
  OneCpuPerStack
  FreedIsOffCpu
  NoLostWakeup
