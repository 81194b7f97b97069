CONSTANTS
  None = None
  Channels = {c1}
  EnableHeartbeat = TRUE
  Habits = {"connectWhilePending", "sendDisconnected"}
  Faults = {"serverCloses", "socketErrors", "endpointInvalid"}
  MaxConnects = 3
  MaxRequests = 1
  MaxFrames = 2
SPECIFICATION FairSpec
INVARIANTS
  OneLiveSocket
  StatusIsTrue
  HeartbeatOnlyWhileConnected
  RequestsHaveHandlers
  SubscriptionsHonoured
PROPERTIES
  EveryConnectSettles
CHECK_DEADLOCK FALSE
