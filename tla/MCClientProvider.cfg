CONSTANTS
  Callers = {c1, c2, c3}
  None = None
  Seeded = {}
  MaxCalls = 5
  MaxFailures = 2
SPECIFICATION FairSpec
INVARIANTS
  TypeOK
  CreatedOnce
  LocksMatchFrames
PROPERTY EveryCallReturns
CHECK_DEADLOCK FALSE
