CONSTANTS
  Tx = {t1, t2}
  Resource = {r1, r2}
  None = None
  RequestModes <- SharedExclusive
  RelockOutcomes <- OnLinux
  MaxEntries = 2
  MaxQueue = 1
  MaxPolls = 1
SPECIFICATION Spec
SYMMETRY Symmetry
INVARIANTS GrantedCompatible BackedGrants WaitEdgesLive LiveReferenceHasOwner
CHECK_DEADLOCK FALSE
