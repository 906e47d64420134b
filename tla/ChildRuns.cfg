CONSTANTS
  None = None
  Steps <- AllKeys
  Workers = {w1, w2}
  Jobs = {j1, j2}
  Retries <- TwoAttempts
  OrchAttempts = 2
  ClaimKinds = {TRUE}
  QueueMayFail = FALSE
  RpcMayBeMissing = FALSE
  MaxCrashes = 1
  MaxRedeliveries = 0
  Program <- EveryKind
  Kind <- KindByName
  Together = {}
  OnError <- RefundB
  Passes = {p1, p2}
  Processes = {p1, p2}
  ProcessOf <- OwnProcess
  RunLock = TRUE
  MaxSweeps = 0
  MaxResumes = 1
  MaxDeaths = 0
  SubWorkflows = {"sub"}
  Children = {c1, c2}
  MaxChildResumes = 1
  MaxChildDeaths = 1
SPECIFICATION FamilySpec
INVARIANTS FamilyTypeOK StepsRunInOrder ReplaysAgreeOnKeys HeldUntilResumed NoOrphans FailureIsEarned CompensationAfterLastRetry RetryPolicyHonoured EffectsOnceInOrder
PROPERTIES SucceededIsFinal TerminalIsFinal FamilySettles
CONSTRAINT Orderly
CHECK_DEADLOCK FALSE
