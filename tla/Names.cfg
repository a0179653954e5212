SPECIFICATION Spec
CONSTANTS
  p1 = p1
  p2 = p2
  Proc = {p1, p2}
  Name = {"a", "b"}
  Inums = 4
  NINODE = 3
  Paths <- FlatPaths
  DirPaths <- FlatDirs
  Kinds <- FlatKinds
  MaxCalls = 2
  MaxCrash = 1
INVARIANTS PanicsOnlyWhenFull RefsSound NoDanglingNames NoLockCycle
CHECK_DEADLOCK FALSE
