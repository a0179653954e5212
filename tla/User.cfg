SPECIFICATION Spec
CONSTANTS
  Patterns <- MCPatterns
  Texts <- MCTexts
  Contents <- MCContents
  Lines_ <- MCLines
  Moves <- MCMoves
  PathNames <- MCPaths
  UserStrings <- MCStrings
  Numbers <- MCNumbers
  FileSizes <- MCSizes
  Trees <- MCTrees
  MAXARGS = 3
  DIRSIZ = 2
  PGSIZE = 2
  WIDTH = 256
  BSIZE = 2
  NDIRECT = 2
  NINDIRECT = 3
  DirentSize = 1
  nmeta = 3
  NALLOC = 4
  MaxBrk = 12
  Sizes = {2, 3, 5}
INVARIANTS ProgramsRight ParseIsGrammar LibraryRight ImageIsSound HeapSound
CHECK_DEADLOCK FALSE
