------------------------------ MODULE MCParts ------------------------------
(***************************************************************************)
(* The parts of the process that keep no correlation: the rate limiter,    *)
(* the PayPal client and its amounts, and the dispatch of the Lock         *)
(* Server's calls.  They share no state, so a behaviour is one of one of   *)
(* them: `part` is chosen at the start.                                    *)
(***************************************************************************)
EXTENDS RateLimiter, PaypalClient, Dispatch

CONSTANT MaxInstant

MCCriteria ==
  [asset : {"BTC", "USD"}, sound : {TRUE}, n : {1}]
  \cup {[asset |-> "USD", sound |-> TRUE, n |-> 2],
        [asset |-> "USD", sound |-> FALSE, n |-> 1]}

(* Decimals on both sides of every limit of decimal_to_minor. *)
MCValues ==
  [whole : {0, 1, 2, 29, 299, 300},
   frac : {<<>>} \cup UNION {[1..n -> {0, 1, 5, 9}] : n \in 1..3}]

VARIABLE part

vars == <<part, lvars, pvars, avars, dvars>>

Init ==
  /\ part \in {"limiter", "client", "amounts", "dispatch"}
  /\ LimiterInit
  /\ ClientInit
  /\ AmountsInit
  /\ DispatchInit
  \* Any one state of a part that stays put.
  /\ part # "amounts" => due = [asset |-> "USD", minor |-> 1]
  /\ part # "dispatch" =>
       /\ \A i \in Ids : lock[i] = Nil
       /\ conf = [processors |-> {}, default |-> "stripe", assets |-> {}]

LimiterStep ==
  /\ part = "limiter"
  /\ TryTake \/ (instant < MaxInstant /\ LimiterTick)
  /\ UNCHANGED <<part, pvars, avars, dvars>>

ClientPartStep ==
  /\ part = "client" /\ ClientNext
  /\ UNCHANGED <<part, lvars, avars, dvars>>

AmountsStep ==
  /\ part = "amounts" /\ AmountsNext
  /\ UNCHANGED <<part, lvars, pvars, dvars>>

DispatchPartStep ==
  /\ part = "dispatch" /\ DispatchNext
  /\ UNCHANGED <<part, lvars, pvars, avars>>

Next == LimiterStep \/ ClientPartStep \/ AmountsStep \/ DispatchPartStep

Spec ==
  /\ Init /\ [][Next]_vars
  /\ \A c \in Callers :
       WF_vars(part = "client" /\ Proceed(c) /\ UNCHANGED <<part, lvars, avars, dvars>>)
=============================================================================
