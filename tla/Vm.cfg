SPECIFICATION Spec
CONSTANTS
  Proc = {p1, p2}
  initproc = p1
  Frames <- MCFrames
  PGSIZE = 2
  ENT = 3
  Programs <- MCPrograms
  Sbrks <- MCSbrks
  Masks = {0, 1}
  MaxArgs = 1
  MaxCalls = 3
INVARIANTS MemorySound
PROPERTY ImplementsImages
CHECK_DEADLOCK FALSE
