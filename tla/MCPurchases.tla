---------------------------- MODULE MCPurchases ----------------------------
(* Instances of Purchases for TLC.                                         *)
EXTENDS Purchases, TLC

\* On credit in two uneven installments, with withholdings and stock; on credit
\* without a plan; in cash, with stock.
Deals == {[total |-> 5, withheld |-> 1, cash |-> FALSE, cuotas |-> 2, units |-> 1],
          [total |-> 2, withheld |-> 3, cash |-> FALSE, cuotas |-> 0, units |-> 0],
          [total |-> 3, withheld |-> 0, cash |-> TRUE, cuotas |-> 0, units |-> 1]}

Interchangeable ==
  Permutations(Invoices) \union Permutations(Procs) \union Permutations(Lines)
=============================================================================
