CONSTANTS
  Bills = {b1, b2}
  Users = {u1, u2}
  MaxTotal = 1
  MaxYear = 2
  MaxCharges = 2
  Limit = 2
  Mails = {"none", "list"}
SPECIFICATION Spec
SYMMETRY Symmetry
INVARIANTS ChargedItsTotal SpoiltByOverlap
PROPERTIES LedgerSpec
