SPECIFICATION Spec
CONSTANTS
  Orders = {1, 2, 3, 4}
  LastDay = 3
  RegisterDays = {0}
  Points = {2, 3}
INVARIANTS
  CreditUsedOnce
CHECK_DEADLOCK FALSE
