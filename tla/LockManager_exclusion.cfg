CONSTANTS
  Tx = {t1, t2, t3}
  Resource = {r1}
  None = None
  RequestModes <- SharedExclusive
  RelockOutcomes <- OnLinux
  MaxEntries = 2
  MaxQueue = 3
  MaxPolls = 1
SPECIFICATION Spec
SYMMETRY Symmetry
INVARIANT ExclusiveAnswers
CHECK_DEADLOCK FALSE
