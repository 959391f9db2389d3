SPECIFICATION FairSpec
CONSTANTS
  c1 = c1
  c2 = c2
  c3 = c3
  CPU <- Processors
  NoCPU = NoCPU
  Space = {1, 2, 3}
  Sizes = {1, 2}
  NULL = NULL
INVARIANTS TypeOK HeapMatchesOwners
PROPERTIES ImplementsAllocator SomeCallReturns
