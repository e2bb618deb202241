SPECIFICATION Spec
CONSTANTS
  Procs = {p1, p2}
  Sessions = {s1, s2}
  Registers = {r1}
  Carts <- Sales
  PerUnit = 2
  Raw = 1
  Given = {2}
  Moves <- Signed
  MaxNumber = 3
  MaxSales = 2
  MaxSupply = 1
  MaxMoves = 1
SYMMETRY Interchangeable
INVARIANTS
  PreparedAccounts
  ReceiptsFollowEntry
  ExpectedAccounts
  OneOpenSession
PROPERTIES
  ClosedIsStill
CHECK_DEADLOCK FALSE
