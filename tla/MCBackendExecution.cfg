CONSTANTS
  Logs = {l1, l2}
  ForcedEmpty = {}
  Joined = TRUE
SPECIFICATION Spec
INVARIANTS SuccessMeansAllRan ErrorsToldAreReal
PROPERTIES LogsFinish
CHECK_DEADLOCK FALSE
