CONSTANTS
  Tasks = {t1, t2, t3}
  None = None
  TriggerDelay = 2
  MaxDelay = 5
  CallerHabits = {"callWhileBusy"}
SPECIFICATION FairSpec
PROPERTY EveryTaskProcessed
CHECK_DEADLOCK FALSE
