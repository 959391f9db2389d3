SPECIFICATION FairSpec
CONSTANTS
  c1 = c1
  c2 = c2
  c3 = c3
  nobody = nobody
  CPU <- MCCPU
  NoCPU <- MCNoCPU
INVARIANTS TypeOK MutualExclusion IrqDiscipline
PROPERTIES ImplementsLock SomebodyGetsIt
