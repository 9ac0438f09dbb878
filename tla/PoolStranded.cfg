CONSTANTS
  Tasks = {t1, t2, t3}
  NoTask = NoTask
  MinThr = 1
  MaxThr = 2
  QueueMax = 2
  MinWaitTask = 2
  Vary = 1
  MaxTid = 2
  ProbeSeesExit = FALSE
  CreateMayFail = FALSE
  AddDuringDestroy = FALSE
SPECIFICATION FairSpec
PROPERTIES AcceptedRuns
