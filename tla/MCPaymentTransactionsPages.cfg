CONSTANTS
  Bills = {b1, b2}
  Transactions = {t1, t2, t3}
  Processes = {p1, p2}
  Users = {u1}
  Worth = 2
  Credits = {b2}
  Free = {}
  Manual = {}
  Amounts <- SomeAmounts
  Used = {"process", "execute", "secure", "reject", "process_abort", "process_commit", "process_delete", "add"}
  Bulk = FALSE
  None = None
SPECIFICATION Spec
SYMMETRY Symmetry
INVARIANTS SentBeforeCharged
PROPERTIES CoveredIsDone RejectedIsFinal
CHECK_DEADLOCK FALSE
