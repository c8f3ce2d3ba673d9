CONSTANTS
  s1 = s1
  s2 = s2
  t1 = t1
  f1 = f1
  Starts <- MCStarts
  Stops <- MCStops
  Foregrounds = {}
  MaxCrashes = 0
  Nobody = Nobody
SPECIFICATION Spec
INVARIANT StartedCanBeStopped
CHECK_DEADLOCK FALSE
