SPECIFICATION Spec
CONSTANTS
  Tx = {1, 2}
  Pages = {p1}
  None = none
  RelockOutcomes = {"blocks", "throws"}
  MaxLog = 5
INVARIANTS RedoneCommitted RedoneByBoth UndoNewestFirst
CHECK_DEADLOCK FALSE
