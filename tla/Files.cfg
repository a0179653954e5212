SPECIFICATION Spec
CONSTANTS
  Proc = {p1, p2}
  Inode = {i1, i2}
  File = {1, 2}
  Page = {1}
  Blocks = 5
  BSIZE = 2
  NDIRECT = 1
  NINDIRECT = 2
  NOFILE = 2
  MAXOPBLOCKS = 6
  BPB = 1
  Modes = {"rw"}
  MaxWrite = 4
  MaxCalls = 5
SYMMETRY Symmetry
INVARIANTS NothingLeaks OpFits
PROPERTIES ReadsAllocateNothing ImplementsAtomicFile
CHECK_DEADLOCK FALSE
