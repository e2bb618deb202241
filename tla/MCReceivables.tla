--------------------------- MODULE MCReceivables ---------------------------
(* Instances of Receivables for TLC.                                       *)
EXTENDS Receivables, TLC

Deal(total, withheld, down, cuotas) ==
  [total |-> total, withheld |-> withheld, down |-> down, cuotas |-> cuotas]

\* After a down payment, two uneven installments that a payment of 2 covers in
\* part, across, and beyond; without a plan, a down payment beyond the total.
Deals == {Deal(6, 0, 1, 2), Deal(2, 1, 2, 0)}
NewDeals == {Deal(2, 1, 2, 0)}
NoDeals == {}

Interchangeable == Permutations(Invoices) \union Permutations(Procs)
=============================================================================
