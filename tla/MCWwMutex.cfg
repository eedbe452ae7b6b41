SPECIFICATION FairSpec
CONSTANTS
  a = a
  b = b
  t1 = t1
  t2 = t2
  t3 = t3
  t4 = t4
  NULL = NULL
  Gone = Gone
  Tasks <- SmallTasks
  Locks = {a, b}
  Plans <- SmallPlans
  Plain = {t3}
  Intr = {t2}
  ULONG_MAX = 7
  FirstStamp = 6
  MaxCalls = 3
INVARIANTS
  ContextsRight
  SleepersMayWait
PROPERTIES
  OldestStays
  EveryPlanEnds
CHECK_DEADLOCK FALSE
