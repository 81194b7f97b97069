CONSTANTS
  Tasks = {t1, t2, t3}
  None = None
  TriggerDelay = 2
  MaxDelay = 5
  CallerHabits = {"callWhileBusy", "skipTrigger", "callTrigger"}
SPECIFICATION FairSpec
INVARIANTS
  TypeOK
  NothingLostOrReordered
  TimerWithinThreshold
  DeafOnlyAfterOverrun
PROPERTIES
  RefinesSerialQueue
  ProcessedUnlessOverrun
CHECK_DEADLOCK FALSE
