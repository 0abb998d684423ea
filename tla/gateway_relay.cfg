SPECIFICATION Spec
CONSTANTS
  r1 = r1
  r2 = r2
  r3 = r3
  m1 = m1
  m2 = m2
  None = None
  Requests = {r1, r2, r3}
  Markers = {m1, m2}
  MarkerOf <- MCMarkerOf
  MaxQueueDepth = 1
  Retries = 1
  MaxRestarts = 1
SYMMETRY MCSymmetry
CHECK_DEADLOCK FALSE
INVARIANTS SingleFlight NoFalseSuccess QueueBounded
PROPERTIES NeverAcceptAndDrop ImplementsIntentRelay
