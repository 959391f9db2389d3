SPECIFICATION Spec
CONSTANTS
  SL_INDEX_COUNT_LOG2 = 1
  ALIGN_SIZE_LOG2 = 1
  FL_INDEX_MAX = 6
  SIZE_BITS = 8
  Pools <- TwoPools
  Top = 60
  Sizes = {1, 8, 10, 19, 60}
  Aligns = {8}
INVARIANTS TypeOK HeapConsistent RequestsServed
PROPERTIES ImplementsAllocator
