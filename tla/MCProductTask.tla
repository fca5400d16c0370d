--------------------------- MODULE MCProductTask ----------------------------
(* Instances of ProductTask for TLC. *)
EXTENDS ProductTask, TLC
Symmetry == Permutations(Users)
=============================================================================
