SPECIFICATION Spec
CONSTANTS
  w1 = w1
  w2 = w2
  NoRow = NoRow
  Writers = {w1, w2}
  Events = {"posting_receipt"}
  RowIds = {1, 2, 3}
  PageLimit = 1
  MaxTime = 3
  MaxPasses = 2
SYMMETRY WriterSymmetry
INVARIANTS
  DrainLeavesNothingBehind
  AuditMissesNothing
PROPERTIES
  PublicationIsFinal
CHECK_DEADLOCK FALSE
