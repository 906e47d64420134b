CONSTANTS
  None = None
  Steps <- FirstKeys
  Workers = {w1, w2}
  Jobs = {j1, j2}
  Retries <- OneRetry
  OrchAttempts = 2
  ClaimKinds = {TRUE}
  QueueMayFail = TRUE
  RpcMayBeMissing = FALSE
  MaxCrashes = 0
  MaxRedeliveries = 0
  Program <- TwoCalls
  Kind <- QueuedAB
  Together = {}
  OnError <- NoHandler
  Passes = {p1}
  Processes = {p1}
  ProcessOf <- OwnProcess
  RunLock = TRUE
  MaxSweeps = 0
  MaxResumes = 0
  MaxDeaths = 0
SPECIFICATION Spec
SYMMETRY Symmetry
PROPERTIES DispatchFailureIsTransient
CHECK_DEADLOCK FALSE
