CONSTANTS
  None = None
  Interval = 60
  Timeout = 122
  MaxRtt = 1
  MaxMissed = 3
SPECIFICATION Spec
INVARIANTS
  MissingOneIsAllowed
  SilenceIsNoticed
CHECK_DEADLOCK FALSE
