CONSTANTS
  Nodes <- MCNodes
  MaxOrdinal = 1
  None = None
  Trigger = Trigger
  Start = Start
  NoBranch = NoBranch
  Graphs <- OneBranch
  Passes = {p1}
  OrchAttempts = 2
  RpcMayBeMissing = FALSE
  MaxFaults = 1
SPECIFICATION Spec
INVARIANTS CompletedIsComplete
CHECK_DEADLOCK FALSE
