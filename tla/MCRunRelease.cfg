SPECIFICATION Spec
CONSTANTS
    a = a
    b = b
    NRuns = 2
    Issues <- MCIssues
    Deps <- MCDeps
    BodyRuns = {1}
    MaxCrashes = 0
    MaxFaults = 0
    MaxMoves = 1
PROPERTIES
    ReleaseIsRespected
CHECK_DEADLOCK FALSE
