CONSTANTS
  Requests = {r1}
  Billings = {b1}
  Values = {1, 3}
  Error = 0
  Period = 4
  Cuts = TRUE
  Delta = 4
  MaxDay = 3
  MaxOrders = 1
  MaxSaves = 3
  MaxBills = 3
  None = None
SPECIFICATION Spec
INVARIANTS NothingLeftToCharge
CHECK_DEADLOCK FALSE
