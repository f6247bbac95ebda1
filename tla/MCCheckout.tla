----------------------------- MODULE MCCheckout -----------------------------
(* Checkout with two interchangeable customer requests. *)
EXTENDS StatusPage, TLC

CONSTANTS r1, r2
MCRequests == {r1, r2}
Symmetry == Permutations(MCRequests)
=============================================================================
