CONSTANTS
  Tasks = {t1, t2, t3}
  NoTask = NoTask
  MinThr = 1
  MaxThr = 3
  QueueMax = 2
  MinWaitTask = 1
  Vary = 2
  MaxTid = 3
  ProbeSeesExit = FALSE
  CreateMayFail = FALSE
  AddDuringDestroy = TRUE
SPECIFICATION Spec
SYMMETRY TaskSymmetry
INVARIANTS TypeOK LiveWithinBounds LiveCountsThreads BusyCountsWorkers RingAgrees NoTaskLostOrDuplicated OneHolder JoinsOnlyCreated
PROPERTIES ImplementsTaskPool
