CONSTANTS
  Tasks = {t1, t2}
  NoTask = NoTask
  MinThr = 2
  MaxThr = 2
  QueueMax = 1
  MinWaitTask = 5
  Vary = 1
  MaxTid = 2
  ProbeSeesExit = FALSE
  CreateMayFail = FALSE
  AddDuringDestroy = FALSE
SPECIFICATION FairSpec


INVARIANTS NoUseAfterFree NotStranded
PROPERTIES AcceptedRuns BlockedAddReturns
