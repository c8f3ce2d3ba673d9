CONSTANTS
  s1 = s1
  s2 = s2
  t1 = t1
  f1 = f1
  Starts <- MCStarts
  Stops <- MCStops
  Foregrounds = {f1}
  MaxCrashes = 1
  Nobody = Nobody
SPECIFICATION FairSpec
INVARIANT TypeOK
PROPERTIES KeepsListening FailedStartEnds TakenStopEnds
CHECK_DEADLOCK FALSE
