------------------------------ MODULE Reporting ------------------------------
(***************************************************************************)
(* The two pure judgements everything else is built on: what a pull of a   *)
(* session or order establishes (verification.rs, pull_stripe and          *)
(* pull_paypal), and what a row is reported as (state.rs, report).         *)
(***************************************************************************)
EXTENDS Correlations

CONSTANT SettlementDelay   \* FIAT_SETTLEMENT_DELAY_SECONDS, in clock ticks

ASSUME SettlementDelayAssumption == SettlementDelay \in Nat

(***************************************************************************)
(* The processor's side of a session, as far as its read API tells states  *)
(* apart.  Stripe: unpaid, paid, and a paid charge that was refunded or    *)
(* disputed.  PayPal: CREATED (unpaid), APPROVED, COMPLETED with a capture *)
(* that is PENDING, COMPLETED (paid, or disputed), REFUNDED or DECLINED.   *)
(***************************************************************************)
ChargeStates ==
  {"unpaid", "approved", "pending", "paid", "refunded", "disputed", "declined"}

(* The buyer's money was taken at some time. *)
Taken(status) == status \in {"paid", "refunded", "disputed"}

(* The payment was given back, is contested, or never went through. *)
GivenBack(status) == status \in {"refunded", "disputed", "declined"}

Outcomes == {"none", "unpaid", "unavailable", "matched", "mismatched"}

PaidOutcomes == {"matched", "mismatched"}

Paid(exact) == IF exact THEN "matched" ELSE "mismatched"

(* payment_status of a Checkout Session stays "paid" once it was paid: a   *)
(* refund or a dispute shows on the charge, which the pull does not read.  *)
StripeVerdict(status, exact) ==
  IF Taken(status) THEN Paid(exact) ELSE "unpaid"

(* An order is paid when its capture itself is COMPLETED; a dispute leaves *)
(* the capture as it is.                                                   *)
PaypalVerdictOfOrder(status, exact) ==   \* slip: the order's status alone
  IF status \in {"pending", "paid", "disputed", "refunded", "declined"}
  THEN Paid(exact) ELSE "unpaid"

PaypalVerdict(status, exact) ==
  IF status \in {"paid", "disputed"} THEN Paid(exact) ELSE "unpaid"

Verdict(kind, status, exact) ==
  IF kind = "stripe" THEN StripeVerdict(status, exact)
                     ELSE PaypalVerdict(status, exact)

(* An order still APPROVED when pulled is captured by the pull. *)
NeverCaptures(kind, status) == FALSE   \* slip: left to PayPal's auto-capture

NeedsCapture(kind, status) == kind = "paypal" /\ status = "approved"

(* is_reversal_capture_status, and charge.refunded || charge.disputed. *)
ChargeReversed(status) == status \in {"refunded", "disputed"}
CaptureReversed(status) == status \in {"refunded", "declined"}

Reports == {"undetected", "detected", "mismatch", "confirmed", "promotionDue"}

DelayElapsed(row, now) ==
  row.paidAt # None /\ now >= row.paidAt + SettlementDelay

(* "mismatch" is detected with amount_matched = false; "promotionDue" asks *)
(* the caller for a fresh pull, and falls back on "detected".              *)
Report(row, now) ==
  CASE row.state \in {"created", "reversed", "absent"} -> "undetected"
    [] row.state = "paid" /\ ~row.matched -> "mismatch"
    [] row.state = "paid" /\ row.matched /\ DelayElapsed(row, now) -> "promotionDue"
    [] row.state = "paid" /\ row.matched /\ ~DelayElapsed(row, now) -> "detected"
    [] row.state = "confirmed" -> "confirmed"
=============================================================================
