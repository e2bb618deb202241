SPECIFICATION Spec
CONSTANTS
  Procs = {p1, p2}
  Invoices = {i1, i2}
  Lines = {l1, l2}
  Terms <- Deals
  Payments = {2}
  MaxCuotas = 2
  MaxPaid = 4
SYMMETRY Interchangeable
INVARIANTS
  PayableAgrees
  PlanAccounts
  VoidIsUnpaid
  ConsumedLayersStay
CHECK_DEADLOCK FALSE
