SPECIFICATION Spec
CONSTANTS
  Procs = {p1, p2}
  Items = {leaf, product}
  leaf = leaf
  product = product
  NoItem = NoItem
  Warehouses = {w1, w2}
  MaxLayers = 3
  MaxStale = 1
  Recipe <- OneLeaf
  Intakes <- LeafIntakes
  Quantities = {2}
  Negatives = {TRUE, FALSE}
SYMMETRY Interchangeable
INVARIANTS
  ConsumptionsExplain
  StockAgrees
  AmountsAreValue
PROPERTIES
  FefoRespected
  TransferKeepsLayers
CHECK_DEADLOCK FALSE
