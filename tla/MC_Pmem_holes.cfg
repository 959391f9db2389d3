SPECIFICATION Spec
CONSTANTS
  p1 = p1
  p2 = p2
  nobody = nobody
  CPU <- MCCPU
  NoCPU <- MCNoCPU
  MemMaps <- HoleMaps
  Counts = {1}
  PAGESIZE = 1
  Limit = 11
SYMMETRY Symmetry
INVARIANTS OnlyUsable
