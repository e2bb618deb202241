SPECIFICATION Spec
CONSTANTS
  Procs = {p1}
  Invoices = {i1}
  Terms <- Deals
  Editions <- NoDeals
  Payments = {2}
  MaxCuotas = 2
  MaxReceived = 4
SYMMETRY Interchangeable
PROPERTIES
  VoidHasNoPayments
CHECK_DEADLOCK FALSE
