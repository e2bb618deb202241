SPECIFICATION Spec
CONSTANTS
  Procs = {p1, p2, p3}
  Employees = {e1}
  Profiled = {e1}
  Months = {m1, m2}
  Slips <- Payslips
  Amounts = {4}
SYMMETRY Interchangeable
INVARIANTS
  RunsFollowEntries
  EntriesReachRuns
CHECK_DEADLOCK FALSE
