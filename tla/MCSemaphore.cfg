SPECIFICATION SemFairSpec
CONSTANTS
  t1 = t1
  t2 = t2
  t3 = t3
  Tasks = {t1, t2, t3}
  InitCount = 1
  MaxTimeout = 1
  MaxExtra = 1
INVARIANTS
  PermitsConserved
  NoPermitPastWaiters
  WaitListExact
PROPERTIES
  NoOvertaking
  EveryWaiterServed
