CONSTANTS
  Nodes <- MCNodes
  MaxOrdinal = 1
  None = None
  Trigger = Trigger
  Start = Start
  NoBranch = NoBranch
  Graphs <- Shapes
  Passes = {p1, p2}
  OrchAttempts = 2
  RpcMayBeMissing = TRUE
  MaxFaults = 1
SPECIFICATION FairSpec
INVARIANTS TypeOK JoinsWait OnlyTakenEdges NodeOncePerForwardEdge ItemsInTurn FailureIsEarned CompletedMeansDone
PROPERTIES RunSettles CompletesWhenDone
CHECK_DEADLOCK FALSE
