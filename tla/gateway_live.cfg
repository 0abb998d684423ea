SPECIFICATION FairSpec
CONSTANTS
  r1 = r1
  r2 = r2
  r3 = r3
  m1 = m1
  m2 = m2
  None = None
  Requests = {r1, r2}
  Markers = {m1}
  MarkerOf <- MCMarkerOf
  MaxQueueDepth = 1
  Retries = 2
  MaxRestarts = 1
CHECK_DEADLOCK FALSE
PROPERTIES InFlightEnds
