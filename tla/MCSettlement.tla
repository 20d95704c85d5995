---------------------------- MODULE MCSettlement ----------------------------
(* Instances of Settlement for TLC. *)
EXTENDS SettlementInv, TLC

(* Handlers are interchangeable. *)
HandlerSymmetry == Permutations(Handlers)
=============================================================================
