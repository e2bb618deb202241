SPECIFICATION FormSpec
CONSTANTS
  Items = {a}
  Warehouses = {w1, w2}
  None = None
  Slots = {c1, c2}
  MaxLines = 2
INVARIANTS OwnStock
PROPERTIES StopsLoading
