CONSTANTS
  Tasks = {t1, t2}
  NoTask = NoTask
  MinThr = 1
  MaxThr = 2
  QueueMax = 1
  MinWaitTask = 1
  Vary = 2
  MaxTid = 3
  ProbeSeesExit = TRUE
  CreateMayFail = TRUE
  AddDuringDestroy = FALSE
SPECIFICATION ManagerSpec
\* pthread_join of a slot that was never filled ends the program
CHECK_DEADLOCK FALSE
INVARIANTS ThreadsCounted NoTaskLostOrDuplicated GrowHasASlot
PROPERTIES ManagerStops
