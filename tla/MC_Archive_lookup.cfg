SPECIFICATION Spec
CONSTANTS
  Trees <- MCTrees
  Olds <- MCOlds
  Paths <- MCPaths
  InputDir <- MCInputDir
  FILE_NAME_MAX = 5
  FILE_ALIGN = 2
  MAGIC = 256
INVARIANT EveryFileFound
