CONSTANTS
  Callers = {c1, c2}
  None = None
  MaxCalls = 6
  MaxChanges = 1
SPECIFICATION Spec
INVARIANTS
  OneTransport
  CheckedUnlessTold
  HealthyDeviceServes
CHECK_DEADLOCK FALSE
