------------------------- MODULE RateLimiter_proofs -------------------------
(***************************************************************************)
(* The token bucket implements the exact budget, and admits no more than   *)
(* the budget in any stretch of time, whatever the rate, the burst and the *)
(* resolution of the clock.                                                *)
(***************************************************************************)
EXTENDS RateLimiter, TLAPS

(* What the bucket holds, in units of 1/Unit of a token. *)
Credit == tokens * Unit + remainder

-----------------------------------------------------------------------------
(* Arithmetic. *)

LEMMA Division ==
  ASSUME NEW a \in Nat, NEW u \in Nat \ {0}
  PROVE  /\ a \div u \in Nat
         /\ a % u \in 0..(u - 1)
         /\ a = (a \div u) * u + (a % u)
BY SMT

LEMMA MulMono ==
  ASSUME NEW a \in Nat, NEW b \in Nat, NEW k \in Nat, a <= b
  PROVE  a * k <= b * k
BY SMT

LEMMA MulNat ==
  ASSUME NEW a \in Nat, NEW b \in Nat
  PROVE  a * b \in Nat
BY SMT

LEMMA Regroup ==
  ASSUME NEW a \in Nat, NEW b \in Nat, NEW g \in Nat, NEW m \in Nat, NEW r \in Nat,
         g + m = b + r
  PROVE  (a + m) + g = (a + b) + r
BY SMT

-----------------------------------------------------------------------------
(* Types. *)

LEMMA Constants == Rate \in Nat /\ Burst \in Nat /\ Unit \in Nat \ {0}
BY RateAssumption, BurstAssumption, UnitAssumption

LEMMA AccrualType ==
  ASSUME LimiterTypeOK
  PROVE  Accrual \in Nat /\ Rate * (instant - last) \in Nat
<1>1. instant - last \in Nat /\ remainder \in Nat
  BY Constants, SMT DEF LimiterTypeOK
<1>2. Rate * (instant - last) \in Nat
  BY <1>1, Constants, MulNat
<1> QED BY <1>1, <1>2, SMT DEF Accrual

LEMMA RefillType ==
  ASSUME LimiterTypeOK
  PROVE  /\ Refilled \in 0..Burst
         /\ LeftOver \in 0..(Unit - 1)
         /\ Refilled = Burst => LeftOver = 0
<1> DEFINE q == Accrual \div Unit
           r == Accrual % Unit
<1>1. q \in Nat /\ r \in 0..(Unit - 1)
  BY AccrualType, Constants, Division
<1>2. tokens \in 0..Burst
  BY DEF LimiterTypeOK
<1> HIDE DEF q, r
<1>3. Refilled = (IF tokens = Burst \/ tokens + q >= Burst THEN Burst ELSE tokens + q)
  BY DEF Refilled, q
<1>4. LeftOver = (IF Refilled = Burst THEN 0 ELSE r)
  BY DEF LeftOver, r
<1>5. Refilled \in 0..Burst
  BY <1>1, <1>2, <1>3, Constants, SMT
<1>6. LeftOver \in 0..(Unit - 1)
  BY <1>1, <1>4, Constants, SMT
<1> QED BY <1>4, <1>5, <1>6

LEMMA TryTakeType ==
  ASSUME LimiterTypeOK, TryTake
  PROVE  LimiterTypeOK'
<1>1. /\ Refilled \in 0..Burst
      /\ LeftOver \in 0..(Unit - 1)
      /\ Refilled = Burst => LeftOver = 0
  BY RefillType
<1>2. /\ instant \in Nat /\ instant' = instant /\ last' = instant
      /\ grants \in Seq(0..instant)
      /\ remainder' = LeftOver
  BY DEF LimiterTypeOK, TryTake
<1>3. CASE Refilled > 0 /\ tokens' = Refilled - 1 /\ grants' = Append(grants, instant)
  <2>1. tokens' \in 0..Burst /\ tokens' # Burst
    BY <1>1, <1>3, Constants, SMT
  <2>2. instant \in 0..instant
    BY <1>2, SMT
  <2>3. grants' \in Seq(0..instant')
    BY <1>2, <1>3, <2>2
  <2> QED BY <1>1, <1>2, <2>1, <2>2, <2>3 DEF LimiterTypeOK
<1>4. CASE Refilled = 0 /\ tokens' = 0 /\ UNCHANGED grants
  <2>1. tokens' \in 0..Burst /\ (tokens' = Burst => remainder' = 0)
    BY <1>1, <1>2, <1>4, Constants, SMT
  <2>2. instant \in 0..instant
    BY <1>2, SMT
  <2> QED BY <1>1, <1>2, <1>4, <2>1, <2>2 DEF LimiterTypeOK
<1> QED BY <1>3, <1>4 DEF TryTake

LEMMA TickType ==
  ASSUME LimiterTypeOK, LimiterTick
  PROVE  LimiterTypeOK'
<1>1. /\ instant \in Nat /\ instant' = instant + 1
      /\ UNCHANGED <<tokens, remainder, last, grants>>
      /\ last \in 0..instant /\ grants \in Seq(0..instant)
  BY DEF LimiterTypeOK, LimiterTick
<1>2. instant' \in Nat /\ last' \in 0..instant' /\ 0..instant \subseteq 0..instant'
  BY <1>1, SMT
<1>3. grants' \in Seq(0..instant')
  <2>1. grants \in [1..Len(grants) -> 0..instant] /\ Len(grants) \in Nat
    BY <1>1
  <2>2. grants \in [1..Len(grants) -> 0..instant']
    BY <1>2, <2>1
  <2> QED BY <1>1, <2>1, <2>2
<1> QED BY <1>1, <1>2, <1>3 DEF LimiterTypeOK

(* The bucket never holds more than the burst, and never the makings of a  *)
(* token in its remainder (try_take).                                      *)
THEOREM LimiterTypes == LimiterSpec => []LimiterTypeOK
<1>1. LimiterInit => LimiterTypeOK
  BY Constants, SMT DEF LimiterInit, LimiterTypeOK
<1>2. LimiterTypeOK /\ [LimiterNext]_lvars => LimiterTypeOK'
  <2> SUFFICES ASSUME LimiterTypeOK, [LimiterNext]_lvars PROVE LimiterTypeOK'
    OBVIOUS
  <2>1. CASE TryTake BY <2>1, TryTakeType
  <2>2. CASE LimiterTick BY <2>2, TickType
  <2>3. CASE UNCHANGED lvars BY <2>3 DEF lvars, LimiterTypeOK
  <2> QED BY <2>1, <2>2, <2>3 DEF LimiterNext
<1> QED BY <1>1, <1>2, PTL DEF LimiterSpec
-----------------------------------------------------------------------------
(* The refinement. *)

(* What a call finds in the bucket is what the budget has accrued: no      *)
(* fraction is lost, and none is made up (Refilled, LeftOver).             *)
LEMMA RefillExact ==
  ASSUME LimiterTypeOK
  PROVE  Refilled * Unit + LeftOver = Exact!Accrued
<1> DEFINE q == Accrual \div Unit
           r == Accrual % Unit
           gain == Rate * (instant - last)
<1>1. q \in Nat /\ r \in 0..(Unit - 1) /\ Accrual = q * Unit + r
  BY AccrualType, Constants, Division
<1>2. tokens \in 0..Burst /\ remainder \in 0..(Unit - 1) /\ gain \in Nat
      /\ (tokens = Burst => remainder = 0)
  BY AccrualType DEF LimiterTypeOK
<1>3. Accrual = gain + remainder
  BY DEF Accrual
<1>4. Exact!Accrued = IF Credit + gain <= Burst * Unit THEN Credit + gain ELSE Burst * Unit
  BY DEF Exact!Accrued, Exact!AtMost, Exact!Full, Credit
<1>5. Refilled = (IF tokens = Burst \/ tokens + q >= Burst THEN Burst ELSE tokens + q)
  BY DEF Refilled
<1>6. LeftOver = (IF Refilled = Burst THEN 0 ELSE r)
  BY DEF LeftOver
<1> HIDE DEF q, r, gain
<1>7. Burst * Unit \in Nat /\ tokens * Unit \in Nat /\ (tokens + q) * Unit \in Nat
  BY <1>1, <1>2, Constants, MulNat, SMT
<1>8. Credit + gain = (tokens + q) * Unit + r
  <2>1. (tokens + q) * Unit = tokens * Unit + q * Unit
    BY <1>1, <1>2, Constants, SMT
  <2>2. q * Unit \in Nat
    BY <1>1, Constants, MulNat
  <2>3. gain + remainder = q * Unit + r
    BY <1>1, <1>3
  <2>4. (tokens * Unit + remainder) + gain = (tokens * Unit + q * Unit) + r
    <3>1. remainder \in Nat /\ r \in Nat
      BY <1>1, <1>2, Constants, SMT
    <3> QED BY <1>2, <1>7, <2>2, <2>3, <3>1, Regroup
  <2> QED BY <2>1, <2>4 DEF Credit
<1>9. CASE tokens = Burst
  <2>1. Credit = Burst * Unit
    BY <1>2, <1>7, <1>9, SMT DEF Credit
  <2>2. Refilled = Burst /\ LeftOver = 0
    BY <1>5, <1>6, <1>9
  <2> QED BY <1>2, <1>4, <1>7, <2>1, <2>2, SMT
<1>10. CASE tokens # Burst /\ tokens + q >= Burst
  <2>1. Burst * Unit <= (tokens + q) * Unit
    BY <1>1, <1>2, <1>10, Constants, MulMono, SMT
  <2>2. Refilled = Burst /\ LeftOver = 0
    BY <1>5, <1>6, <1>10
  <2>3. Burst * Unit <= Credit + gain
    BY <1>1, <1>7, <1>8, <2>1, Constants, SMT
  <2> QED BY <1>4, <1>7, <1>8, <1>1, <2>2, <2>3, Constants, SMT
<1>11. CASE tokens + q < Burst
  <2>1. (tokens + q + 1) * Unit <= Burst * Unit
    BY <1>1, <1>2, <1>11, Constants, MulMono, SMT
  <2>2. (tokens + q + 1) * Unit = (tokens + q) * Unit + Unit
    BY <1>1, <1>2, Constants, SMT
  <2>3. Credit + gain <= Burst * Unit
    BY <1>1, <1>7, <1>8, <2>1, <2>2, Constants, SMT
  <2>4. Refilled = tokens + q /\ LeftOver = r
    BY <1>1, <1>2, <1>5, <1>6, <1>11, Constants, SMT
  <2> QED BY <1>4, <1>8, <2>3, <2>4
<1> QED BY <1>1, <1>2, <1>9, <1>10, <1>11, Constants, SMT

LEMMA TryTakeExact ==
  ASSUME LimiterTypeOK, TryTake
  PROVE  (Exact!Admit \/ Exact!Refuse) /\ last' = instant /\ instant' = instant
<1>1. /\ Refilled \in 0..Burst /\ LeftOver \in 0..(Unit - 1)
      /\ Exact!Accrued = Refilled * Unit + LeftOver
  BY RefillType, RefillExact
<1>2. remainder' = LeftOver /\ last' = instant /\ instant' = instant
  BY DEF TryTake
<1>3. CASE Refilled > 0 /\ tokens' = Refilled - 1 /\ grants' = Append(grants, instant)
  <2>1. 1 * Unit <= Refilled * Unit /\ Refilled * Unit \in Nat
    BY <1>1, <1>3, Constants, MulMono, MulNat, SMT
  <2>2. (Refilled - 1) * Unit = Refilled * Unit - Unit
    BY <1>1, Constants, SMT
  <2>3. Exact!Accrued >= Unit
    BY <1>1, <2>1, Constants, SMT
  <2>4. tokens' * Unit + remainder' = Exact!Accrued - Unit
    BY <1>1, <1>2, <1>3, <2>1, <2>2, Constants, SMT
  <2> QED BY <1>2, <1>3, <2>3, <2>4 DEF Exact!Admit
<1>4. CASE Refilled = 0 /\ tokens' = 0 /\ UNCHANGED grants
  <2>1. Exact!Accrued = LeftOver /\ tokens' * Unit + remainder' = LeftOver
    BY <1>1, <1>2, <1>4, Constants, SMT
  <2>2. Exact!Accrued < Unit
    BY <1>1, <2>1, Constants, SMT
  <2> QED BY <1>2, <1>4, <2>1, <2>2 DEF Exact!Refuse
<1> QED BY <1>3, <1>4 DEF TryTake

(* The token bucket implements the exact budget (rate_limit.rs). *)
THEOREM ImplementsBudget == LimiterSpec => BudgetKept
<1>1. LimiterInit => Exact!BudgetInit
  BY Constants, SMT DEF LimiterInit, Exact!BudgetInit, Exact!Full
<1>2. LimiterTypeOK /\ [LimiterNext]_lvars => [Exact!BudgetNext]_(Exact!bvars)
  <2> SUFFICES ASSUME LimiterTypeOK, [LimiterNext]_lvars
               PROVE  [Exact!BudgetNext]_(Exact!bvars)
    OBVIOUS
  <2>1. CASE TryTake
    BY <2>1, TryTakeExact DEF Exact!BudgetNext
  <2>2. CASE LimiterTick
    BY <2>2 DEF LimiterTick, Exact!BudgetNext
  <2>3. CASE UNCHANGED lvars
    BY <2>3 DEF lvars, Exact!bvars
  <2> QED BY <2>1, <2>2, <2>3 DEF LimiterNext
<1> QED BY <1>1, <1>2, LimiterTypes, PTL DEF LimiterSpec, BudgetKept, Exact!BudgetSpec
-----------------------------------------------------------------------------
(* The bound on admissions.                                                *)

(* No admission is dated later than the last call. *)
GrantsPast == \A i \in 1..Len(grants) : grants[i] \in 0..last

(* Since any admission, those that followed and what is left together are  *)
(* covered by the burst and the accrual since: what makes the bound        *)
(* inductive.                                                              *)
Account ==
  \A i \in 1..Len(grants) :
    (Len(grants) - i + 1) * Unit + Credit <= Burst * Unit + Rate * (last - grants[i])

BoundInv == LimiterTypeOK /\ GrantsPast /\ Account /\ AdmissionsBounded

LEMMA Carry ==
  ASSUME NEW n \in Nat, NEW c \in Nat, NEW d \in Nat, NEW full \in Nat, NEW rate \in Nat,
         NEW g \in Nat, NEW l \in Nat, NEW t \in Nat, g <= l, l <= t,
         n + c <= full + rate * (l - g), d <= c + rate * (t - l)
  PROVE  n + d <= full + rate * (t - g)
<1> DEFINE x == l - g
           y == t - l
<1>1. x \in Nat /\ y \in Nat /\ t - g = x + y
  BY SMT
<1>2. n + c <= full + rate * x /\ d <= c + rate * y
  OBVIOUS
<1> HIDE DEF x, y
<1>3. rate * (t - g) = rate * x + rate * y
  BY <1>1, SMT
<1>4. rate * x \in Nat /\ rate * y \in Nat
  BY <1>1, MulNat
<1> QED BY <1>2, <1>3, <1>4, SMT

LEMMA CreditBounded ==
  ASSUME LimiterTypeOK
  PROVE  Credit \in Nat /\ Credit <= Burst * Unit
<1>1. tokens \in 0..Burst /\ remainder \in 0..(Unit - 1) /\ (tokens = Burst => remainder = 0)
  BY DEF LimiterTypeOK
<1>2. tokens * Unit \in Nat /\ Burst * Unit \in Nat
  BY <1>1, Constants, MulNat, SMT
<1>3. CASE tokens = Burst
  BY <1>1, <1>2, <1>3, SMT DEF Credit
<1>4. CASE tokens # Burst
  <2>1. (tokens + 1) * Unit <= Burst * Unit
    BY <1>1, <1>4, Constants, MulMono, SMT
  <2>2. (tokens + 1) * Unit = tokens * Unit + Unit
    BY <1>1, Constants, SMT
  <2> QED BY <1>1, <1>2, <2>1, <2>2, Constants, SMT DEF Credit
<1> QED BY <1>3, <1>4

LEMMA AccruedBounded ==
  ASSUME LimiterTypeOK
  PROVE  /\ Exact!Accrued \in Nat
         /\ Exact!Accrued <= Burst * Unit
         /\ Exact!Accrued <= Credit + Rate * (instant - last)
<1>1. Credit \in Nat /\ Rate * (instant - last) \in Nat
  BY AccrualType, CreditBounded
<1>2. Burst * Unit \in Nat
  BY Constants, MulNat
<1>3. Exact!Accrued = IF Credit + Rate * (instant - last) <= Burst * Unit
                      THEN Credit + Rate * (instant - last) ELSE Burst * Unit
  BY DEF Exact!Accrued, Exact!AtMost, Exact!Full, Credit
<1> QED BY <1>1, <1>2, <1>3, SMT

(* A call that admits: the admission uses up a token of the credit. *)
LEMMA AdmitAccount ==
  ASSUME BoundInv, TryTake, Exact!Admit
  PROVE  Account'
<1> DEFINE full == Burst * Unit
           acc == Exact!Accrued
<1>1. /\ acc \in Nat /\ acc <= full /\ acc <= Credit + Rate * (instant - last)
      /\ Credit \in Nat /\ full \in Nat
  BY AccruedBounded, CreditBounded, Constants, MulNat DEF BoundInv
<1>2. /\ last \in Nat /\ instant \in Nat /\ last <= instant
      /\ grants \in Seq(0..instant) /\ Len(grants) \in Nat
  BY SMT DEF BoundInv, LimiterTypeOK
<1>3. /\ grants' = Append(grants, instant)
      /\ Credit' = acc - Unit /\ acc >= Unit
      /\ last' = instant
  BY DEF Exact!Admit, TryTake, Credit
<1> HIDE DEF full, acc
<1>4. Len(grants') = Len(grants) + 1
  BY <1>2, <1>3
<1> SUFFICES ASSUME NEW i \in 1..Len(grants')
             PROVE  (Len(grants') - i + 1) * Unit + Credit' <= full + Rate * (last' - grants'[i])
  BY DEF Account, full
<1>5. CASE i \in 1..Len(grants)
  <2> DEFINE n == Len(grants) - i + 1
             g == grants[i]
  <2>1. n \in Nat /\ g \in Nat /\ g <= last
    BY <1>2, <1>5, SMT DEF BoundInv, GrantsPast
  <2>2. n * Unit + Credit <= full + Rate * (last - g)
    BY <1>5 DEF BoundInv, Account, full
  <2>3. grants'[i] = g /\ Len(grants') - i + 1 = n + 1
    BY <1>2, <1>3, <1>4, <1>5, SMT
  <2> HIDE DEF n, g
  <2>4. n * Unit \in Nat /\ (n + 1) * Unit = n * Unit + Unit
    BY <2>1, Constants, MulNat, SMT
  <2>5. n * Unit + acc <= full + Rate * (instant - g)
    BY <1>1, <1>2, <2>1, <2>2, <2>4, Constants, Carry
  <2>6. (n + 1) * Unit + Credit' = n * Unit + acc
    BY <1>1, <1>3, <2>4, Constants, SMT
  <2> QED BY <1>3, <2>3, <2>5, <2>6
<1>6. CASE i = Len(grants) + 1
  <2>1. grants'[i] = instant /\ Len(grants') - i + 1 = 1
    BY <1>2, <1>3, <1>4, <1>6, SMT
  <2>2. last' - grants'[i] = 0 /\ Rate * 0 = 0 /\ 1 * Unit = Unit
    BY <1>2, <1>3, <2>1, Constants, SMT
  <2>3. Unit + Credit' <= full + 0
    BY <1>1, <1>3, Constants, SMT
  <2> QED BY <2>1, <2>2, <2>3
<1> QED BY <1>2, <1>4, <1>5, <1>6, SMT

LEMMA RefuseAccount ==
  ASSUME BoundInv, TryTake, Exact!Refuse
  PROVE  Account'
<1> DEFINE full == Burst * Unit
           acc == Exact!Accrued
<1>1. /\ acc \in Nat /\ acc <= Credit + Rate * (instant - last)
      /\ Credit \in Nat /\ full \in Nat
  BY AccruedBounded, CreditBounded, Constants, MulNat DEF BoundInv
<1>2. last \in Nat /\ instant \in Nat /\ last <= instant /\ Len(grants) \in Nat
  BY SMT DEF BoundInv, LimiterTypeOK
<1>3. grants' = grants /\ Credit' = acc /\ last' = instant
  BY DEF Exact!Refuse, TryTake, Credit
<1> HIDE DEF full, acc
<1> SUFFICES ASSUME NEW i \in 1..Len(grants)
             PROVE  (Len(grants) - i + 1) * Unit + acc <= full + Rate * (instant - grants[i])
  BY <1>3 DEF Account, full
<1> DEFINE n == Len(grants) - i + 1
           g == grants[i]
<1>4. n \in Nat /\ g \in Nat /\ g <= last
  BY <1>2, SMT DEF BoundInv, GrantsPast
<1>5. n * Unit + Credit <= full + Rate * (last - g)
  BY DEF BoundInv, Account, full
<1> HIDE DEF n, g
<1>6. n * Unit \in Nat
  BY <1>4, Constants, MulNat
<1>7. n * Unit + acc <= full + Rate * (instant - g)
  BY <1>1, <1>2, <1>4, <1>5, <1>6, Constants, Carry
<1> QED BY <1>7 DEF n, g

(* The last admission and everything before it: the bound is an instance   *)
(* of the account at the moment of the admission.                          *)
LEMMA TryTakeBound ==
  ASSUME BoundInv, TryTake
  PROVE  BoundInv'
<1>1. LimiterTypeOK'
  BY TryTakeType DEF BoundInv
<1>2. Account'
  BY TryTakeExact, AdmitAccount, RefuseAccount DEF BoundInv
<1>3. /\ last \in Nat /\ instant \in Nat /\ last <= instant /\ last' = instant
      /\ grants \in Seq(0..instant) /\ Len(grants) \in Nat
      /\ \A i \in 1..Len(grants) : grants[i] \in 0..last
  BY SMT DEF BoundInv, LimiterTypeOK, TryTake, GrantsPast
<1>4. CASE grants' = Append(grants, instant)
  <2>1. Len(grants') = Len(grants) + 1
    BY <1>3, <1>4
  <2>2. \A i \in 1..Len(grants) : grants'[i] = grants[i]
    BY <1>3, <1>4
  <2>3. grants'[Len(grants) + 1] = instant
    BY <1>3, <1>4
  <2>4. GrantsPast'
    BY <1>3, <2>1, <2>2, <2>3, SMT DEF GrantsPast
  <2>5. AdmissionsBounded'
    <3> SUFFICES ASSUME NEW i \in 1..Len(grants'), NEW j \in 1..Len(grants'), i <= j
                 PROVE  (j - i + 1) * Unit <= Burst * Unit + Rate * (grants'[j] - grants'[i])
      BY DEF AdmissionsBounded
    <3>1. CASE j \in 1..Len(grants)
      <4>1. i \in 1..Len(grants)
        BY <3>1, SMT
      <4> QED BY <2>2, <3>1, <4>1 DEF BoundInv, AdmissionsBounded
    <3>2. CASE j = Len(grants) + 1
      <4>1. (j - i + 1) * Unit + Credit' <= Burst * Unit + Rate * (grants'[j] - grants'[i])
        BY <1>2, <1>3, <2>1, <2>3, <3>2 DEF Account
      <4>2. Credit' \in Nat
        <5>1. tokens' \in Nat /\ remainder' \in Nat
          BY <1>1, Constants, SMT DEF LimiterTypeOK
        <5>2. tokens' * Unit \in Nat
          BY <5>1, Constants, MulNat
        <5> QED BY <5>1, <5>2, SMT DEF Credit
      <4>3. j - i + 1 \in Nat /\ grants'[j] - grants'[i] \in Nat
        BY <1>3, <2>1, <2>2, <2>3, <3>2, SMT
      <4>4. (j - i + 1) * Unit \in Nat /\ Burst * Unit \in Nat /\ Rate * (grants'[j] - grants'[i]) \in Nat
        BY <4>3, Constants, MulNat
      <4> QED BY <4>1, <4>2, <4>4, SMT
    <3> QED BY <1>3, <2>1, <3>1, <3>2, SMT
  <2> QED BY <1>1, <1>2, <2>4, <2>5 DEF BoundInv
<1>5. CASE grants' = grants
  <2>1. GrantsPast'
    BY <1>3, <1>5, SMT DEF GrantsPast
  <2>2. AdmissionsBounded'
    BY <1>5 DEF BoundInv, AdmissionsBounded
  <2> QED BY <1>1, <1>2, <2>1, <2>2 DEF BoundInv
<1> QED BY <1>4, <1>5 DEF TryTake

(* Between any two admissions no more pass than the burst and what accrued *)
(* in the time between them (try_take).                                    *)
THEOREM BoundKept == LimiterSpec => []AdmissionsBounded
<1>1. LimiterInit => BoundInv
  <2> SUFFICES ASSUME LimiterInit PROVE BoundInv
    OBVIOUS
  <2>1. LimiterTypeOK
    BY Constants, SMT DEF LimiterInit, LimiterTypeOK
  <2>2. 1..Len(grants) = {}
    BY SMT DEF LimiterInit
  <2> QED BY <2>1, <2>2 DEF BoundInv, GrantsPast, Account, AdmissionsBounded
<1>2. BoundInv /\ [LimiterNext]_lvars => BoundInv'
  <2> SUFFICES ASSUME BoundInv, [LimiterNext]_lvars PROVE BoundInv'
    OBVIOUS
  <2>1. CASE TryTake BY <2>1, TryTakeBound
  <2>2. CASE LimiterTick
    <3>1. LimiterTypeOK'
      BY <2>2, TickType DEF BoundInv
    <3>2. UNCHANGED <<tokens, remainder, last, grants>>
      BY <2>2 DEF LimiterTick
    <3> QED BY <3>1, <3>2 DEF BoundInv, GrantsPast, Account, AdmissionsBounded, Credit
  <2>3. CASE UNCHANGED lvars
    BY <2>3 DEF lvars, BoundInv, LimiterTypeOK, GrantsPast, Account, AdmissionsBounded, Credit
  <2> QED BY <2>1, <2>2, <2>3 DEF LimiterNext
<1>3. BoundInv => AdmissionsBounded
  BY DEF BoundInv
<1> QED BY <1>1, <1>2, <1>3, PTL DEF LimiterSpec
=============================================================================
