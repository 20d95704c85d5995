----------------------------- MODULE MCDispatch -----------------------------
(* Instances of Dispatch for TLC. *)
EXTENDS Dispatch, TLC

CallSymmetry == Permutations(Calls)

MCCriteria == [asset : {"BTC", "USD"}, sound : {TRUE}, n : {1}]
              \cup {[asset |-> "USD", sound |-> TRUE, n |-> 2],
                    [asset |-> "USD", sound |-> FALSE, n |-> 1]}
=============================================================================
