CONSTANTS
  None = None
  ann = ann
  ben = ben
  eve = eve
  mal = mal
  Approvers <- OneOfEach
  Forbidden <- Outsiders
  Invalid <- Malformers
  HasExpiry = TRUE
  Passes = {p1, p2}
  MaxFaults = 1
SPECIFICATION FairSpec
INVARIANTS TypeOK OnlyTheEntitledDecide ExpiredOnlyPastDeadline
PROPERTIES OutcomeIsFinal GateSettles
CHECK_DEADLOCK FALSE
