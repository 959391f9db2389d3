SPECIFICATION Spec
CONSTANTS
  a1 = a1
  a2 = a2
  a3 = a3
  a4 = a4
  a5 = a5
  a6 = a6
  NULL = NULL
  Cell <- Cells
  Names = {"clkdev", "tsc", "long"}
  LongNames = {"long"}
  MaxPath = 4
SYMMETRY Symmetry
CHECK_DEADLOCK FALSE
INVARIANTS TypeOK StoreConsistent ResolveFollowsPath
PROPERTY ImplementsDirectories
