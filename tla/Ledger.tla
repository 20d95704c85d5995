------------------------------- MODULE Ledger -------------------------------
(***************************************************************************)
(* What the verifier promises about one payment, whatever handlers,        *)
(* webhooks and polls it took to get there (README, fiat state mapping):   *)
(* a payment is detected only after the processor took the buyer's money,  *)
(* confirmed only once it rested for the settlement delay and only if the  *)
(* right amount was taken, reversed only if the processor gave it back or  *)
(* contests it; confirmed and reversed are final.                          *)
(***************************************************************************)
EXTENDS Naturals

CONSTANTS Ids,   \* the correlations
          Rest   \* the settlement delay

VARIABLES
  phase,   \* the state of each correlation
  since,   \* the detection time of a payment
  time,
  taken,   \* correlations for which a processor took money,
  exact,   \*   ... took the amount and currency of the terms,
  back     \*   ... gave it back, contests it, or declined it

money == <<taken, exact, back>>
vars == <<phase, since, time, taken, exact, back>>

Init ==
  /\ phase = [i \in Ids |-> "created"]
  /\ since \in [Ids -> {0}]
  /\ time = 0
  /\ taken = {} /\ exact = {} /\ back = {}

(* The processor's books only grow. *)
MoneyMoves ==
  /\ taken \subseteq taken' /\ exact \subseteq exact' /\ back \subseteq back'
  /\ exact' \subseteq taken'
  /\ UNCHANGED <<phase, since, time>>

Elapse == time' = time + 1 /\ UNCHANGED <<phase, since, money>>

Move(i, from, to) ==
  /\ phase[i] \in from
  /\ phase' = [phase EXCEPT ![i] = to]
  /\ UNCHANGED <<time, money>>

Detect(i) ==
  /\ i \in taken
  /\ Move(i, {"created"}, "paid")
  /\ \E t \in 0..time : since' = [since EXCEPT ![i] = t]

Confirm(i) ==
  /\ i \in exact
  /\ time >= since[i] + Rest
  /\ Move(i, {"paid"}, "confirmed")
  /\ UNCHANGED since

Reverse(i) ==
  /\ i \in back
  /\ Move(i, {"created", "paid"}, "reversed")
  /\ UNCHANGED since

Next == MoneyMoves \/ Elapse \/ \E i \in Ids : Detect(i) \/ Confirm(i) \/ Reverse(i)

Spec == Init /\ [][Next]_vars
=============================================================================
