----------------------------- MODULE MCCheckout -----------------------------
(* Instances of Checkout for TLC. *)
EXTENDS Checkout, TLC

(* Requests are interchangeable, and so are shops. *)
ClientSymmetry == Permutations(Clients) \cup Permutations(Origins)
=============================================================================
