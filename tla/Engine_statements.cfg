SPECIFICATION MCSpec
CONSTANTS
  User = {u1, u2}
  PageSize = 4096
  HeaderSize = 64
  SlotSize = 8
  Word = 65536
  NoPage = NoPage
  ZeroFiles = {2}
  Detector = Detector
  Main = Main
  None = None
  RelockOutcomes = {"throws", "blocks"}
  Limits = {1, 2}
  MaxId = 3
  MaxLog = 6
  TableNames = {"t", "v"}
  Column = c
  MaxTableId = 4
  MaxIndexId = 3
  Absent = Absent
  Torn = Torn
  FirstTables <- MCFirstTables
  Statements <- MCStatements
  InvalidRow = InvalidRow
  MaxRows = 1
  MaxStatements = 3
INVARIANTS  ListsApart  EndsByLimitOrTimeout
PROPERTIES StatementsReturn 
CHECK_DEADLOCK FALSE
