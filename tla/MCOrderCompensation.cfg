SPECIFICATION Spec
CONSTANTS
  Orders = {1, 2, 3}
  LastDay = 3
  RegisterDays = {0, 1}
  Points = {0, 1, 2, 3}
INVARIANTS
  BilledOnce
  CompensatedOnce
  CreditsAreReal
PROPERTIES
  CancelledIsNotCharged
CHECK_DEADLOCK FALSE
