---------------------------- MODULE MCAlloyCart ----------------------------
(* Instances of AlloyCart for TLC. *)
EXTENDS AlloyCart, TLC

Symmetry == Permutations(Users) \cup Permutations(Products) \cup Permutations(Calls)
=============================================================================
