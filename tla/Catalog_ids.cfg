SPECIFICATION MCSpec
CONSTANTS
  TableNames = {t1, t2}
  IndexNames = {i1, i2}
  ColumnNames = {c1}
  ConstraintNames = {k1}
  ViewNames = {v1}
  SequenceNames = {s1}
  SequenceInfos <- SomeSequences
  Clients = {p, q}
  RelockOutcomes = {"throw", "block"}
  MaxInt = 5
  MaxTableId = 3
  MaxIndexId = 2
  MaxListed = 2
  Absent = Absent
  Torn = Torn
INVARIANTS IdMapsInverse  ListedOnce ConstraintsListed SequencesInLimits
SYMMETRY Renamings
