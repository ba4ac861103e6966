SPECIFICATION FairSpec
CONSTANTS
  Page = {b1}
  Process = {p1, p2}
  Taking = {p1}
  Task = {t1, t2}
  Older = {}
  NoTask = NoTask
  NoProcess = NoProcess
  PauseForReview = {TRUE, FALSE}
  MaxFetch = 1
  MaxRestart = 1
INVARIANTS TypeOK AllOrNothing FailureLeavesNothing SuccessIsSaved KnownAtHome
PROPERTIES KeepsRuns PollingEnds

