SPECIFICATION Spec
CONSTANTS
  p1 = p1
  p2 = p2
  Proc = {p1, p2}
  Name = {"a", "b"}
  Inums = 3
  NINODE = 3
  Paths <- FlatPaths
  DirPaths <- FlatDirs
  Kinds <- RaceKinds
  MaxCalls = 2
  MaxCrash = 0
INVARIANT LastPutFrees
CHECK_DEADLOCK FALSE
