------------------------------ MODULE MCBooks ------------------------------
(***************************************************************************)
(* A year of two months.  Every document and draft has the same lines: a   *)
(* sale of 3, with 2 of expenses, for cash.                                *)
(***************************************************************************)
EXTENDS Books, TLC

MonthIsDate == [d \in Dates |-> d]
AllInOneJournal == [doc \in PostDocs |-> CHOOSE j \in Journals : TRUE]

CONSTANTS cash, income, expense, outcome, profit, loss

Chart == {cash, income, expense, outcome, profit, loss}
NatureOf == [a \in Chart |-> IF a \in {cash, expense, loss} THEN "D" ELSE "C"]
IncomeAndExpense == {income, expense}
SaleAndExpense == [a \in Chart |->
  CASE a = cash -> 1 [] a = income -> -3 [] a = expense -> 2 [] OTHER -> 0]

Interchangeable == Permutations(EntryIds) \union Permutations(Batches)
=============================================================================
