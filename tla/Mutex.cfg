SPECIFICATION FairSpec
CONSTANTS
  t1 = t1
  t2 = t2
  t3 = t3
  Tasks = {t1, t2, t3}
  NULL = NULL
  WaitStates = {"KILLABLE"}
  SentSignals = {"fatal"}
  MaxCalls = 3
INVARIANTS
  TypeOK
  MutualExclusion
  CountMeaning
  NoLostWakeup
  OwnerHolds
  WaitListExact
PROPERTY EveryCallReturns
CHECK_DEADLOCK FALSE
