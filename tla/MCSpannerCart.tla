--------------------------- MODULE MCSpannerCart ---------------------------
(* Instances of SpannerCart for TLC. *)
EXTENDS SpannerCart, TLC

Symmetry == Permutations(Users) \cup Permutations(Products) \cup Permutations(Calls)
=============================================================================
