---------------------------- MODULE MCRedisCart ----------------------------
(* Instances of RedisCart for TLC. *)
EXTENDS RedisCart, TLC

Symmetry == Permutations(Products) \cup Permutations(Calls)
=============================================================================
