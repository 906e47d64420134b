CONSTANTS
  None = None
  Steps = {s1}
  Workers = {w1, w2}
  Jobs = {j1, j2}
  Retries <- NoRetry
  OrchAttempts = 1
  ClaimKinds = {TRUE, FALSE}
  QueueMayFail = TRUE
  RpcMayBeMissing = TRUE
  MaxCrashes = 1
  MaxRedeliveries = 1
SPECIFICATION Spec
SYMMETRY Symmetry
INVARIANTS TypeOK ClaimExcludes AttemptsCoverStarts EffectsAtMostOnce
PROPERTIES OwnershipSpec
CHECK_DEADLOCK FALSE
