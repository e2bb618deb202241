----------------------------- MODULE MCPayroll -----------------------------
(* Instances of Payroll for TLC.                                           *)
EXTENDS Payroll, TLC

\* With contributions and provisions, the payable left to the program; one that
\* says what is payable; one that does not balance and is refused.
Payslips ==
  {[earned |-> 9, deducted |-> 2, employer |-> 3, provided |-> 1, payable |-> 0],
   [earned |-> 5, deducted |-> 0, employer |-> 0, provided |-> 0, payable |-> 5],
   [earned |-> 1, deducted |-> 2, employer |-> 0, provided |-> 0, payable |-> 0]}

Interchangeable == Permutations(Procs) \union Permutations(Months)
=============================================================================
