--------------------------- MODULE MCFixedAssets ---------------------------
(* Instances of FixedAssets for TLC. *)
EXTENDS FixedAssets, TLC

Interchangeable == Permutations(Assets) \union Permutations(Procs)
=============================================================================
