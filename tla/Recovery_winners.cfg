SPECIFICATION Spec
CONSTANTS
  Tx = {1, 2}
  Pages = {p1}
  None = none
  RelockOutcomes = {"blocks", "throws"}
  MaxLog = 5
INVARIANT WinnersRedone
CHECK_DEADLOCK FALSE
