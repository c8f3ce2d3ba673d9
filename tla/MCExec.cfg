CONSTANTS
  MaxRuns = 3
  MaxCommits = 4
  MaxRounds = 2
  MaxFaults = 2
  MaxEdits = 2
  Nothing = Nothing
SPECIFICATION FairSpec
INVARIANTS TypeOK CompletedIsPushed PushedIsRecorded
PROPERTIES BranchIsKept BuildsOnItsOwn IssueIsAnswered
CHECK_DEADLOCK FALSE
