------------------------------- MODULE Amounts -------------------------------
(***************************************************************************)
(* Amounts on their way to PayPal and back (paypal.rs).  The criterion has *)
(* minor units (cents), PayPal's API has decimal strings; the order is     *)
(* created with minor_to_decimal, and the amount of its capture is read    *)
(* with decimal_to_minor and compared with the criterion's (pull_paypal).  *)
(* What PayPal reports there is PayPal's choice: any code, any decimal, or *)
(* no amount at all.                                                       *)
(*                                                                         *)
(* A decimal string that has the right characters is its whole part and    *)
(* the digits after the point; any other is None.  i64 stops at MaxInt.    *)
(***************************************************************************)
EXTENDS Naturals, Sequences

CONSTANTS
  Assets,             \* currency codes
  ZeroDecimalAssets,  \* those without a minor unit
  MaxInt,             \* i64::MAX
  Minors,             \* the amounts a criterion may ask for
  Values,             \* the decimals a capture may show
  None                \* no amount

ASSUME ZeroDecimalAssumption == ZeroDecimalAssets \subseteq Assets
ASSUME MaxIntAssumption == MaxInt \in Nat
ASSUME MinorsAssumption == Minors \subseteq 0..MaxInt
ASSUME NoAmountAssumption == None \notin Nat

Digit == 0..9

Decimal == [whole : Nat, frac : Seq(Digit)]

ASSUME ValuesAssumption == Values \subseteq Decimal

VARIABLES
  due,    \* what the correlation's criterion asks: asset and minor units
  shown   \* the amount of the capture as the pull sees it

avars == <<due, shown>>

(* Slip: `{}.{}`, so that 5 cents are written 0.5. *)
MinorToDecimalUnpadded(asset, minor) ==
  IF asset \in ZeroDecimalAssets THEN [whole |-> minor, frac |-> <<>>]
  ELSE IF minor % 100 < 10 THEN [whole |-> minor \div 100, frac |-> <<minor % 100>>]
  ELSE [whole |-> minor \div 100, frac |-> <<(minor % 100) \div 10, minor % 10>>]

MinorToDecimal(asset, minor) ==
  IF asset \in ZeroDecimalAssets THEN [whole |-> minor, frac |-> <<>>]
  ELSE [whole |-> minor \div 100, frac |-> <<(minor % 100) \div 10, minor % 10>>]

(* The digits after the point as hundredths, filled up on the right; there *)
(* are at most two.                                                        *)
Hundredths(frac) ==
  IF frac = <<>> THEN 0
  ELSE IF Len(frac) = 1 THEN 10 * frac[1]
  ELSE 10 * frac[1] + frac[2]

Fits(n) == IF n <= MaxInt THEN n ELSE None

(* Slip: further digits are cut off, also those of a zero-decimal asset. *)
DecimalToMinorCut(asset, value) ==
  IF value.whole > MaxInt THEN None
  ELSE IF asset \in ZeroDecimalAssets THEN value.whole
  ELSE Fits(100 * value.whole + Hundredths(value.frac))

(* i64 holds the whole part, and the asset has a unit for every digit. *)
Readable(asset, value) ==
  /\ value.whole <= MaxInt
  /\ IF asset \in ZeroDecimalAssets THEN \A k \in 1..Len(value.frac) : value.frac[k] = 0
     ELSE Len(value.frac) <= 2

(* Nothing is rounded and nothing wraps. *)
DecimalToMinor(asset, value) ==
  IF ~Readable(asset, value) THEN None
  ELSE IF asset \in ZeroDecimalAssets THEN value.whole
  ELSE Fits(100 * value.whole + Hundredths(value.frac))

-----------------------------------------------------------------------------
(* An order and the pulls of its capture. *)

(* What create_order puts into the order. *)
Asked == [code |-> due.asset, value |-> MinorToDecimal(due.asset, due.minor)]

(* pull_paypal's verdict on a completed capture. *)
AmountMatched ==
  /\ shown # None
  /\ shown.code = due.asset
  /\ DecimalToMinor(due.asset, shown.value) = due.minor

AmountsInit ==
  /\ due \in [asset : Assets, minor : Minors]
  /\ shown = None

(* A pull finds a capture: of what was asked, or of something else. *)
CaptureShown ==
  /\ shown = None
  /\ \/ shown' = Asked
     \/ \E code \in Assets, value \in Values :
          shown' = [code |-> code, value |-> value]
  /\ UNCHANGED due

PullOver == shown # None /\ shown' = None /\ UNCHANGED due

AmountsNext == CaptureShown \/ PullOver

AmountsSpec == AmountsInit /\ [][AmountsNext]_avars

-----------------------------------------------------------------------------
(* The reference: a decimal and a number of minor units are the same       *)
(* amount if they are equal as numbers, in thousandths of the main unit;   *)
(* further digits are to be zero.                                          *)
Thousandths(value) ==
  LET d(k) == IF k <= Len(value.frac) THEN value.frac[k] ELSE 0 IN
  1000 * value.whole + 100 * d(1) + 10 * d(2) + d(3)

SameAmount(asset, minor, value) ==
  /\ Thousandths(value) = (IF asset \in ZeroDecimalAssets THEN 1000 ELSE 10) * minor
  /\ \A k \in 4..Len(value.frac) : value.frac[k] = 0

(* A buyer who pays what was asked has paid: what is sent to PayPal is     *)
(* read back as the same number of minor units, in every currency and for  *)
(* every amount i64 holds (create_order, pull_paypal).                     *)
AskedMatches == shown # None /\ shown = Asked => AmountMatched

(* And nothing else passes for it: a capture that differs from the         *)
(* criterion by any fraction, or whose amount would wrap into it, does not *)
(* match (decimal_to_minor, pull_paypal).                                  *)
MatchedWasDue == AmountMatched => SameAmount(due.asset, due.minor, shown.value)
=============================================================================
