---------------------------- MODULE MCInventory ----------------------------
(* Instances of Inventory for TLC: one product made of one leaf item.      *)
(* The leaf, its own leaf for want of a recipe, is not produced here.       *)
EXTENDS Inventory, TLC

CONSTANTS leaf, product

OneLeaf ==
  [i \in Items |->
     [k \in Items |-> IF i = product /\ k = leaf THEN 1 ELSE 0]]

Intake(i, n, c, e) == [item |-> i, qty |-> n, cost |-> c, expiry |-> e]

\* A dear layer that expires first, a cheap one after it, one without a date: the
\* average of the first two is not a whole number of last decimals.
LeafIntakes == {Intake(leaf, 1, 5, 1), Intake(leaf, 2, 2, 2), Intake(leaf, 1, 2, 0)}

Interchangeable == Permutations(Warehouses) \union Permutations(Procs)
=============================================================================
