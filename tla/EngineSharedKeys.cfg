CONSTANTS
  None = None
  Steps <- AllKeys
  Workers = {w1, w2}
  Jobs = {j1, j2}
  Retries <- NoRetry
  OrchAttempts = 2
  ClaimKinds = {TRUE}
  QueueMayFail = FALSE
  RpcMayBeMissing = FALSE
  MaxCrashes = 0
  MaxRedeliveries = 0
  Program <- TwoCalls
  Kind <- QueuedAB
  Together = {}
  OnError <- NoHandler
  Passes = {p1, p2}
  Processes = {c1}
  ProcessOf <- OneProcess
  RunLock = TRUE
  MaxSweeps = 1
  MaxResumes = 0
  MaxDeaths = 0
SPECIFICATION Spec
INVARIANTS ReplaysAgreeOnKeys
CHECK_DEADLOCK FALSE
