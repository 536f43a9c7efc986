CONSTANTS
  Mains = {d1, d2, d3}
  Routed = {d1, d2}
  FKs = {rec1, rec2}
  M2Ms = {box}
  StaleReads = FALSE
SPECIFICATION Spec
INVARIANTS NoSaveOfDeleted PendingSaveIsLastState ChangesCollected
