SPECIFICATION Spec
CONSTANTS
  Procs = {p1, p2}
  Invoices = {i1, i2}
  Terms <- Deals
  Editions <- NewDeals
  Payments = {2}
  MaxCuotas = 2
  MaxReceived = 6
SYMMETRY Interchangeable
INVARIANTS
  BalanceIsUnpaid
  PlanFollowsBalance
  OldestFirst
  SubledgerAgrees
CHECK_DEADLOCK FALSE
