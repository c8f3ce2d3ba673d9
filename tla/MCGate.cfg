SPECIFICATION FairSpec
CONSTANTS
    MaxHeads = 2
    HumanRoles <- MCRoles
    MaxMoves = 2
    MaxFaults = 1
    MaxCrashes = 1
INVARIANTS TypeOK GateMergesAccepted OutcomeIsTrue
PROPERTIES GreenIsDecided AcceptanceLands RecordSettles
CHECK_DEADLOCK FALSE
