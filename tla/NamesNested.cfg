SPECIFICATION Spec
CONSTANTS
  p1 = p1
  p2 = p2
  Proc = {p1}
  Name = {"a", "b"}
  Inums = 3
  NINODE = 3
  Paths <- DeepPaths
  DirPaths <- DeepDirs
  Kinds <- DeepKinds
  MaxCalls = 5
  MaxCrash = 0
INVARIANT IlockFindsInode
CHECK_DEADLOCK FALSE
