\* The inductive invariant of ProcProofs on the instance of ProcSafe.cfg.
SPECIFICATION Spec
CONSTANTS
  NPROC = 3
  NCPU = 2
  KillPid = {3}
  MaxPid = 3
INVARIANT ProcInv
