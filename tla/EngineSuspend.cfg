CONSTANTS
  None = None
  Steps <- FirstKeys
  Workers = {w1}
  Jobs = {j1, j2}
  Retries <- NoRetry
  OrchAttempts = 2
  ClaimKinds = {TRUE}
  QueueMayFail = FALSE
  RpcMayBeMissing = FALSE
  MaxCrashes = 0
  MaxRedeliveries = 0
  Program <- HoldFirst
  Kind <- HoldThenQueued
  Together = {}
  OnError <- NoHandler
  Passes = {p1}
  Processes = {p1}
  ProcessOf <- OwnProcess
  RunLock = TRUE
  MaxSweeps = 0
  MaxResumes = 1
  MaxDeaths = 1
SPECIFICATION Spec
SYMMETRY Symmetry
INVARIANTS HeldUntilResumed
CHECK_DEADLOCK FALSE
