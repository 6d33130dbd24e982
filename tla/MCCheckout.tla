----------------------------- MODULE MCCheckout -----------------------------
(* Instances of Checkout for TLC.  Their liveness property rules symmetry out. *)
EXTENDS Checkout
=============================================================================
