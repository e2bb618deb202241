SPECIFICATION BankSpec
CONSTANTS
  Calls = {p1, p2}
  Files = {"f", "g"}
  BankLines = {1, 2, 3}
  FileOf <- File
  JLines = {1, 2}
  Amount <- Amounts
  Day <- Days
  RefSim <- Similar
  Tolerance = 3
  MinScore = 60
  NoLine = NoLine
SYMMETRY Interchangeable
INVARIANTS
  LinesImportedOnce
  MatchesAreGood
PROPERTIES
  MarkStays
CHECK_DEADLOCK FALSE
