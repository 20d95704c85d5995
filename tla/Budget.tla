------------------------------- MODULE Budget -------------------------------
(***************************************************************************)
(* What the rate limiter promises, without tokens and remainders: credit   *)
(* accrues continuously at Rate per second, up to Burst; a request is      *)
(* admitted exactly if there is credit for one, and uses it up.  Credit    *)
(* and time are counted in units of 1/Unit, so that nothing is rounded.    *)
(***************************************************************************)
EXTENDS Naturals, Sequences

CONSTANTS
  Rate,     \* requests admitted per second in the long run
  Burst,    \* requests admitted at once
  Unit      \* clock ticks in a second

VARIABLES
  instant,      \* the monotonic clock, in ticks
  last,     \* when the credit was last brought up to date
  credit,   \* admissions left, in 1/Unit
  grants    \* the times of the requests admitted so far

bvars == <<instant, last, credit, grants>>

Full == Burst * Unit

AtMost(a, b) == IF a <= b THEN a ELSE b

Accrued == AtMost(credit + Rate * (instant - last), Full)

BudgetInit == instant = 0 /\ last = 0 /\ credit = Full /\ grants = <<>>

Admit ==
  /\ Accrued >= Unit
  /\ credit' = Accrued - Unit
  /\ grants' = Append(grants, instant)

Refuse ==
  /\ Accrued < Unit
  /\ credit' = Accrued
  /\ UNCHANGED grants

BudgetNext ==
  \/ (Admit \/ Refuse) /\ last' = instant /\ UNCHANGED instant
  \/ instant' = instant + 1 /\ UNCHANGED <<last, credit, grants>>

BudgetSpec == BudgetInit /\ [][BudgetNext]_bvars
=============================================================================
