CONSTANTS
  Bills = {b1, b2}
  Transactions = {t1, t2, t3}
  Processes = {p1, p2}
  Users = {u1}
  Worth = 1
  Credits = {b2}
  Free = {}
  Manual = {}
  Amounts = {1}
  Used = {"process", "execute", "secure", "reject", "process_execute", "process_abort", "process_commit", "process_delete", "add"}
  Bulk = TRUE
  None = None
SPECIFICATION Spec
SYMMETRY Symmetry
INVARIANTS FilesMatchProcesses
