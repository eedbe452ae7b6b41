SPECIFICATION Spec
CONSTANTS
  a = a
  b = b
  t1 = t1
  t2 = t2
  t3 = t3
  t4 = t4
  NULL = NULL
  Gone = Gone
  Tasks <- QueueTasks
  Locks = {a, b}
  Plans <- QueuePlans
  Plain = {}
  Intr = {}
  ULONG_MAX = 7
  FirstStamp = 0
  MaxCalls = 4
SYMMETRY QueueSymmetry
INVARIANT NoDeadlock
CHECK_DEADLOCK FALSE
