SPECIFICATION Spec
CONSTANTS
  p1 = p1
  p2 = p2
  nobody = nobody
  CPU <- MCCPU
  NoCPU <- MCNoCPU
  MemMaps <- OneRange
  Counts = {1}
  PAGESIZE = 1
  Limit = 8
SYMMETRY Symmetry
INVARIANTS RegionsDisjoint
