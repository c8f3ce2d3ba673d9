CONSTANTS
  Procs = {p1, p2, p3}
  Window = 2
  MaxClock = 4
  Nothing = Nothing
SPECIFICATION FairSpec
INVARIANTS TypeOK ExclusiveWhileGuarded
PROPERTIES FreshOwnerStays OrphanIsTakenOver
CHECK_DEADLOCK FALSE
