CONSTANTS
  None = None
  Channels = {}
  EnableHeartbeat = TRUE
  Habits = {}
  Faults = {}
  MaxConnects = 2
  MaxRequests = 0
  MaxFrames = 1
SPECIFICATION Spec
PROPERTIES
  ClosesOnlyItself
CHECK_DEADLOCK FALSE
