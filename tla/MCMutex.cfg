CONSTANTS
  LockCalls = {l1, l2, l3}
  WaitCalls = {w1, w2}
  Unlocked = TRUE
SPECIFICATION FairSpec
INVARIANTS
  MutualExclusion
  NobodyLeftBehind
PROPERTIES
  RefinesFifoLock
  EveryCallServed
CHECK_DEADLOCK FALSE
