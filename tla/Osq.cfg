SPECIFICATION FairSpec
CONSTANTS
  c1 = c1
  c2 = c2
  c3 = c3
  Cpus = {c1, c2, c3}
  NULL = NULL
INVARIANTS
  TypeOK
  NoWriteToIdleNode
  NeighboursStable
PROPERTIES
  ImplementsQueueLock
  EveryCallReturns
