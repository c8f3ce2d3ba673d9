SPECIFICATION FairSpec
CONSTANTS
    a = a
    b = b
    NRuns = 2
    Issues <- MCIssues
    Deps <- MCDeps
    BodyRuns = {1}
    MaxCrashes = 2
    MaxFaults = 2
    MaxMoves = 2
INVARIANTS TypeOK NothingTwice OneDecomposition
PROPERTIES CommitIsDurable ChangesUnderIntent StartupDrains PlannedIsServed
CHECK_DEADLOCK FALSE
