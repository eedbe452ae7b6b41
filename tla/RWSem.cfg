SPECIFICATION FairSpec
CONSTANTS
  t1 = t1
  t2 = t2
  t3 = t3
  Tasks = {t1, t2, t3}
  NULL = NULL
  RWSEM_ACTIVE_MASK = 7
  MaxCalls = 4
INVARIANTS
  CountDecodes
  NoLostWakeup
PROPERTIES
  IsRWLock
  NoBarging
  EveryCallReturns
CHECK_DEADLOCK FALSE
