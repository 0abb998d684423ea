SPECIFICATION Spec
CONSTANTS
  d1 = d1
  d2 = d2
  p1 = p1
  p2 = p2
  Devices = {d1, d2}
  Home = d1
  Polls = {p1, p2}
  DeviceOf <- MCOnePollEach
CHECK_DEADLOCK FALSE
INVARIANTS HonestOutcome NeverLost
PROPERTIES OutcomeFinal
