CONSTANTS
  p1 = p1
  p2 = p2
  p3 = p3
  Procs <- MCProcs
  MaxSerial <- MCSerial
  NoToken = NoToken
SPECIFICATION FairSpec
INVARIANTS TypeOK ExclusiveUnlessOvertaken DelayedReclaimersAreHarmless
PROPERTIES HolderKeepsLock OrphanIsRecovered
CHECK_DEADLOCK FALSE
