CONSTANTS
  Client = {c1, c2}
  Detector = detector
  Main = main
  None = None
  SpNames = {s}
  RelockOutcomes <- OnBoth
  Expiry = TRUE
  MaxTransactions = 2
  MaxCompleted = 2
  MaxId = 3
  MaxLog = 5
  MaxSavepoints = 1
SPECIFICATION Spec
SYMMETRY Symmetry
INVARIANTS ActiveAgrees  CheckpointExact
CHECK_DEADLOCK FALSE
