SPECIFICATION Spec
CONSTANTS
  Procs = {p1}
  Assets = {a1, a2}
  LastMonth = 3
  Methods = {"STRAIGHT_LINE", "DECLINING_BALANCE"}
  Costs = {10}
  Residuals = {0, 2}
  Lives = {2, 3}
  Rates = {9000}
  Amounts = {5}
  Extensions = {0, 1}
  Increases = {0}
  MaxCost = 15
  MaxLife = 4
  MaxRuns = 2
  Repeats = {TRUE, FALSE}
  Posts = {TRUE}
SYMMETRY Interchangeable
INVARIANTS
  NeverBelowResidual
  LedgerAgrees
  AccumulatedIsMovements
  PreviewForesees
PROPERTIES
  DisposedIsFinal
CHECK_DEADLOCK FALSE
