----------------------------- MODULE MCGateway ------------------------------
(* Instances of Gateway for TLC. *)
EXTENDS Gateway, TLC

ShopSymmetry == Permutations(Origins)
=============================================================================
