CONSTANTS
  Bills = {b1}
  Users = {u1}
  MaxTotal = 1
  MaxYear = 1
  MaxCharges = 1
  Limit = 2
  Mails = {"none", "list", "page"}
SPECIFICATION Spec
SYMMETRY Symmetry
INVARIANTS SentAsClosed
