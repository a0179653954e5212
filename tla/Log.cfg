\* Two processes compete for a log with room for two calls: they share group
\* commits, fill the log up to the reservation, and the machine crashes anywhere.
\* As in param.h and mkfs.c the log area, header included, has LOGSIZE blocks;
\* calls log one block less than their share.  Without the reservation the three
\* blocks would fill the log area.
SPECIFICATION FairSpec
CONSTANTS
  Proc = {p1, p2}
  Block = {b1, b2, b3}
  Val = {x, y}
  NotCached = NotCached
  LOGSIZE = 4
  MAXOPBLOCKS = 2
  LogBlocks = 4
  OpBlocks = 1
INVARIANTS
  LogSound
  NeverPanics
PROPERTIES
  AtomicCommit
  SleepersWake
