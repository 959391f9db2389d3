SPECIFICATION RoomSpec
CONSTANTS
  p1 = p1
  p2 = p2
  nobody = nobody
  CPU <- MCCPU
  NoCPU <- MCNoCPU
  MemMaps <- CoveredMaps
  Counts = {0, 1, 2, 3}
  PAGESIZE = 1
  Limit = 6
SYMMETRY Symmetry
CONSTRAINT Unscribbled
INVARIANTS TypeOK FramesSafe FramesAccounted FailsOnlyWhenExhausted
