CONSTANTS
  Tasks = {t1,t2}
  NoTask = NoTask
  MinThr = 1
  MaxThr = 2
  QueueMax = 1
  MinWaitTask = 1
  Vary = 1
  MaxTid = 3
  ProbeSeesExit = FALSE
  CreateMayFail = FALSE
  AddDuringDestroy = FALSE
SPECIFICATION Spec

INVARIANTS NoUseAfterFree

