---------------------------- MODULE RateLimiter ----------------------------
(***************************************************************************)
(* The token bucket in front of POST /checkout-sessions (rate_limit.rs):   *)
(* one bucket for all buyers, whole tokens plus the remainder of a token.  *)
(* TokenBucket::try_take runs under a mutex and reads the clock inside it, *)
(* so it is one step, and the clock never runs backwards between two.      *)
(*                                                                         *)
(* The saturating arithmetic is left out: u128 holds the nanoseconds of    *)
(* centuries times any u64 rate, and a sum that saturates is above the     *)
(* burst, to which it is cut anyway.                                       *)
(***************************************************************************)
EXTENDS Naturals, Sequences

CONSTANTS
  Rate,     \* FIAT_CHECKOUT_RATE_PER_SECOND
  Burst,    \* FIAT_CHECKOUT_RATE_BURST
  Unit      \* clock ticks in a second (1_000_000_000)

ASSUME RateAssumption == Rate \in Nat
ASSUME BurstAssumption == Burst \in Nat
ASSUME UnitAssumption == Unit \in Nat \ {0}

VARIABLES
  instant,        \* the monotonic clock, in ticks
  tokens,     \* Bucket::tokens
  remainder,  \* Bucket::remainder, in 1/Unit of a token
  last,       \* Bucket::last
  grants      \* the times of the requests admitted so far

lvars == <<instant, tokens, remainder, last, grants>>

(* TokenBucket::new *)
LimiterInit ==
  /\ instant = 0
  /\ tokens = Burst
  /\ remainder = 0
  /\ last = 0
  /\ grants = <<>>

-----------------------------------------------------------------------------
(* What the time since the last call is worth, with the remainder. *)
Accrual == Rate * (instant - last) + remainder

(* Slip: what accrues during a pause is not cut at the burst. *)
RefilledUncapped == tokens + (Accrual \div Unit)

(* The tokens there are at this call.  A bucket found full at the previous *)
(* call gains nothing, and one that overflows keeps no remainder.          *)
Refilled ==
  IF tokens = Burst \/ tokens + (Accrual \div Unit) >= Burst THEN Burst
  ELSE tokens + (Accrual \div Unit)

(* Slip: the fraction of a token is forgotten at every call. *)
LeftOverForgotten == 0

LeftOver == IF Refilled = Burst THEN 0 ELSE Accrual % Unit

(* Slip: a refused call does not move `last`, so its time counts twice. *)
TryTakeUndated ==
  /\ remainder' = LeftOver
  /\ \/ Refilled > 0 /\ tokens' = Refilled - 1 /\ grants' = Append(grants, instant) /\ last' = instant
     \/ Refilled = 0 /\ tokens' = 0 /\ UNCHANGED <<grants, last>>
  /\ UNCHANGED instant

(* TokenBucket::try_take: admitted with a token, refused without. *)
TryTake ==
  /\ last' = instant
  /\ remainder' = LeftOver
  /\ \/ /\ Refilled > 0
        /\ tokens' = Refilled - 1
        /\ grants' = Append(grants, instant)
     \/ /\ Refilled = 0
        /\ tokens' = 0
        /\ UNCHANGED grants
  /\ UNCHANGED instant

LimiterTick ==
  /\ instant' = instant + 1
  /\ UNCHANGED <<tokens, remainder, last, grants>>

LimiterNext == TryTake \/ LimiterTick

LimiterSpec == LimiterInit /\ [][LimiterNext]_lvars

-----------------------------------------------------------------------------
(* Types; and a bucket that is full has no remainder (try_take resets it), *)
(* nor does a remainder ever make up a token.                              *)
LimiterTypeOK ==
  /\ instant \in Nat
  /\ tokens \in 0..Burst
  /\ remainder \in 0..(Unit - 1)
  /\ tokens = Burst => remainder = 0
  /\ last \in 0..instant
  /\ grants \in Seq(0..instant)

(* Between any two admissions, those included, no more requests pass than  *)
(* the burst and what accrued in the time between them -- however the      *)
(* calls are spaced, and whatever was rounded on the way (try_take).       *)
AdmissionsBounded ==
  \A i, j \in 1..Len(grants) :
    i <= j => (j - i + 1) * Unit <= Burst * Unit + Rate * (grants[j] - grants[i])

(* try_take admits exactly the requests an exact budget would: counting in *)
(* whole tokens neither gives away nor loses a fraction, whether the calls *)
(* come faster than tokens do or after a long pause.                       *)
Exact == INSTANCE Budget WITH credit <- tokens * Unit + remainder

BudgetKept == Exact!BudgetSpec
=============================================================================
