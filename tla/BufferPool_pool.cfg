SPECIFICATION MCSpec
CONSTANTS
  Absent = absent
  ZeroPage <- Zero
  MaxOpen = 1
  Table = {t1, t2}
  User = {u1, u2}
  None = none
  ZeroTable = zero
  PoolSizes = {0, 1, 2}
  Modes <- Pin
  UnpinModes <- AllModes
  InitialDisk <- SomeFiles
  MaxPage = 3
  MaxVersion = 1
  MaxRestarts = 1
  MaxLru = 3
SYMMETRY Symmetry
INVARIANTS PoolBounded DiskPlaced
  
CHECK_DEADLOCK FALSE
