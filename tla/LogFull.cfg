\* The sizes of param.h and mkfs.c scaled down: LOGSIZE = 3 * MAXOPBLOCKS,
\* sb.nlog = LOGSIZE, and calls that log the MAXOPBLOCKS blocks they may.
SPECIFICATION Spec
CONSTANTS
  Proc = {p1, p2, p3}
  Block = {b1, b2, b3, b4, b5, b6}
  Val = {x}
  NotCached = NotCached
  LOGSIZE = 6
  MAXOPBLOCKS = 2
  LogBlocks = 6
  OpBlocks = 2
SYMMETRY Symmetry
INVARIANTS
  NeverPanics
