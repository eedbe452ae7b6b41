SPECIFICATION FairSpec
CONSTANTS
  LIST_POISON1 = LIST_POISON1
  LIST_POISON2 = LIST_POISON2
  t1 = t1
  t2 = t2
  t3 = t3
  Tasks = {t1, t2, t3}
  q = q
  NULL = NULL
  Kinds <- MCKinds
  MaxCalls = 3
INVARIANTS
  EntriesLive
  QueueSound
PROPERTY EveryWaitReturns
CHECK_DEADLOCK FALSE
