----------------------------- MODULE MCCheckout -----------------------------
(* Checkout on small instances: the orders are interchangeable. *)
EXTENDS Checkout, TLC

Symmetry == Permutations(Orders)
=============================================================================
