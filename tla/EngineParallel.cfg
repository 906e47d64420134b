CONSTANTS
  None = None
  Steps <- FirstKeys
  Workers = {w1, w2}
  Jobs = {j1, j2, j3}
  Retries <- NoRetry
  OrchAttempts = 2
  ClaimKinds = {TRUE}
  QueueMayFail = FALSE
  RpcMayBeMissing = FALSE
  MaxCrashes = 0
  MaxRedeliveries = 0
  Program <- TwoCalls
  Kind <- QueuedAB
  Together = {1}
  OnError <- NoHandler
  Passes = {p1}
  Processes = {p1}
  ProcessOf <- OwnProcess
  RunLock = TRUE
  MaxSweeps = 0
  MaxResumes = 0
  MaxDeaths = 0
SPECIFICATION Spec
SYMMETRY Symmetry
INVARIANTS EffectsAtMostOnce
CHECK_DEADLOCK FALSE
