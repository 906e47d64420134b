CONSTANTS
  None = None
  ann = ann
  ben = ben
  eve = eve
  mal = mal
  Approvers <- OneOfEach
  Forbidden <- Outsiders
  Invalid <- Malformers
  HasExpiry = TRUE
  Passes = {p1, p2}
  MaxFaults = 0
SPECIFICATION Spec
INVARIANTS NoAnswerVanishes

CHECK_DEADLOCK FALSE
