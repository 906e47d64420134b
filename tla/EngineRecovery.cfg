CONSTANTS
  None = None
  Steps <- FirstKeys
  Workers = {w1}
  Jobs = {j1, j2}
  Retries <- NoRetry
  OrchAttempts = 1
  ClaimKinds = {TRUE}
  QueueMayFail = TRUE
  RpcMayBeMissing = TRUE
  MaxCrashes = 0
  MaxRedeliveries = 0
  Program <- LocalFirst
  Kind <- LocalThenQueued
  Together = {}
  OnError <- NoHandler
  Passes = {p1, p2}
  Processes = {p1, p2}
  ProcessOf <- OwnProcess
  RunLock = TRUE
  MaxSweeps = 1
  MaxResumes = 0
  MaxDeaths = 1
  SubWorkflows = {}
  Children = {}
  MaxChildResumes = 0
  MaxChildDeaths = 0
SPECIFICATION FamilySteps
SYMMETRY Symmetry
INVARIANTS StepsRunInOrder CompletedMeansDone NeverParkedForGood
CHECK_DEADLOCK FALSE
