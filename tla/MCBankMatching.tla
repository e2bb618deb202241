--------------------------- MODULE MCBankMatching ---------------------------
(* Instances of BankMatching for TLC.                                      *)
EXTENDS BankMatching, TLC

\* Two lines of one file want the same journal line and a third of another file
\* wants it too; the second has the reference of all of them and the other sign.
File == [b \in BankLines |-> IF b = 3 THEN "g" ELSE "f"]
Amounts == [bank |-> [b \in BankLines |-> 2], journal |-> [j \in JLines |->
             IF j = 1 THEN 2 ELSE -1]]
Days == [bank |-> [b \in BankLines |-> b], journal |-> [j \in JLines |-> j + 1]]
Similar == [x \in BankLines \X JLines |-> IF x[2] = 2 THEN 100 ELSE IF x[1] = 2 THEN 0 ELSE 50]

Interchangeable == Permutations(Calls)
=============================================================================
