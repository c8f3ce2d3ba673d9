CONSTANTS
  MaxRounds = 3
  MaxRuns = 3
SPECIFICATION FairSpec
INVARIANTS TypeOK BoundsHold LineageIsTrue
PROPERTIES LoopEnds
CHECK_DEADLOCK FALSE
