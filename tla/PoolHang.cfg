CONSTANTS
  Tasks = {t1}
  NoTask = NoTask
  MinThr = 1
  MaxThr = 1
  QueueMax = 1
  MinWaitTask = 5
  Vary = 1
  MaxTid = 1
  ProbeSeesExit = FALSE
  CreateMayFail = FALSE
  AddDuringDestroy = FALSE
SPECIFICATION FairSpec


PROPERTIES DestroyReturns
