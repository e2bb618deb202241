--------------------------- MODULE MCCounterSale ---------------------------
(* Instances of CounterSale for TLC.                                       *)
EXTENDS CounterSale, TLC

Pay(m, a) == [by |-> m, amount |-> a]

\* Paid by two methods, two units on two lines; with withholdings, paid its net:
\* that one is refused after its commit.  Credit sales are checked in Receivables.
Sales ==
  {[lines |-> 2, units |-> 1, total |-> 5, withheld |-> 0, credit |-> FALSE,
    pays |-> <<Pay("cash", 3), Pay("bank", 2)>>],
   [lines |-> 1, units |-> 2, total |-> 4, withheld |-> 1, credit |-> FALSE,
    pays |-> <<Pay("cash", 3)>>]}

Signed == {-2}

Interchangeable ==
  Permutations(Procs) \union Permutations(Sessions) \union Permutations(Registers)
=============================================================================
