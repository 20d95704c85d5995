---------------------------- MODULE Correlations ----------------------------
(***************************************************************************)
(* The rows of the `correlations` table (store.rs) and the conditional     *)
(* updates the store performs on them.  Every UPDATE of the store is one   *)
(* SQL statement, hence atomic; it is written here as an operator from the *)
(* old row to the new one, the WHERE clause deciding whether the row       *)
(* changes.                                                                *)
(*                                                                         *)
(* A row is identified by (creator, bundle_id): a member of Ids.  Ids are  *)
(* numbers, in the order of the rows' created_at.  The criterion a row was *)
(* created with (lock_resource, reader, asset, amount_minor) is one value, *)
(* its terms.  A processor-side session or order is named by what          *)
(* determines it: the processor and the idempotency key, which is made of  *)
(* the identity and the attempt (stripe.rs, idempotency_key).  The         *)
(* checkout URL is the session's own and is not kept apart.  A payment     *)
(* intent or capture id stands for the session it paid.                    *)
(***************************************************************************)
EXTENDS Naturals, FiniteSets

CONSTANTS
  Ids,        \* the (creator, bundle_id) identities, in order of creation
  Terms,      \* the criteria a lock can state
  Origins,    \* buyer return origins on the allowlist
  MaxAttempt, \* bound on session_attempt
  None        \* the absent value of every Option

Kinds == {"stripe", "paypal"}

Session == [kind : Kinds, id : Ids, attempt : 1..MaxAttempt]

ASSUME IdsAssumption == Ids \subseteq Nat
ASSUME TermsAssumption == Terms # {}
ASSUME MaxAttemptAssumption == MaxAttempt \in Nat \ {0}
ASSUME NoneAssumption ==
  /\ None \notin Kinds /\ None \notin Session /\ None \notin Nat
  /\ None \notin Origins /\ None \notin Terms

(* CorrelationState; "absent" is a key without a row. *)
States == {"absent", "created", "paid", "confirmed", "reversed"}

Row == [state     : States,
        terms     : Terms \cup {None},
        processor : Kinds \cup {None},
        session   : Session \cup {None},
        expires   : Nat,
        origin    : Origins \cup {None},
        attempt   : Nat,
        ref       : Session \cup {None},   \* payment_intent
        matched   : BOOLEAN,               \* amount_matched
        paidAt    : Nat \cup {None}]

NoRow == [state |-> "absent", terms |-> None, processor |-> None,
          session |-> None, expires |-> 0, origin |-> None, attempt |-> 0,
          ref |-> None, matched |-> FALSE, paidAt |-> None]

(* insert_new on a key without a row: the column defaults. *)
NewRow(terms) == [NoRow EXCEPT !.state = "created", !.terms = terms]

(* The WHERE clause of set_session: it looks at the origin binding only,   *)
(* neither at the state, nor at the processor, nor at the attempt.         *)
SetSessionAppliesAlways(row, origin) ==   \* slip: no origin guard
  row.state # "absent"

SetSessionApplies(row, origin) ==
  /\ row.state # "absent"
  /\ row.origin \in {None, origin}

SetSessionNoProcessor(row, s, expires, origin) ==   \* slip: as before the column
  IF SetSessionApplies(row, origin)
  THEN [row EXCEPT !.session = s, !.expires = expires, !.attempt = s.attempt,
                   !.origin = IF origin = None THEN @ ELSE origin]
  ELSE row

SetSessionKeepsProcessor(row, s, expires, origin) ==   \* slip: COALESCE(processor, $3)
  IF SetSessionApplies(row, origin)
  THEN [row EXCEPT !.processor = IF @ = None THEN s.kind ELSE @,
                   !.session = s, !.expires = expires, !.attempt = s.attempt,
                   !.origin = IF origin = None THEN @ ELSE origin]
  ELSE row

SetSession(row, s, expires, origin) ==
  IF SetSessionApplies(row, origin)
  THEN [row EXCEPT !.processor = s.kind, !.session = s, !.expires = expires,
                   !.attempt = s.attempt,
                   !.origin = IF origin = None THEN @ ELSE origin]
  ELSE row

(* Slips: the time, or the reference, of the payment is not written. *)
MarkPaidUndated(row, matched, ref, paidAt) ==
  IF row.state = "created"
  THEN [row EXCEPT !.state = "paid", !.matched = matched, !.ref = ref] ELSE row

MarkPaidUnreferenced(row, matched, ref, paidAt) ==
  IF row.state = "created"
  THEN [row EXCEPT !.state = "paid", !.matched = matched, !.paidAt = paidAt] ELSE row

MarkPaid(row, matched, ref, paidAt) ==
  IF row.state = "created"
  THEN [row EXCEPT !.state = "paid", !.matched = matched,
                   !.ref = IF ref = None THEN @ ELSE ref, !.paidAt = paidAt]
  ELSE row

(* Slip: the UPDATE without AND state = 'paid'. *)
MarkConfirmedAlways(row) == [row EXCEPT !.state = "confirmed"]

MarkConfirmed(row) ==
  IF row.state = "paid" THEN [row EXCEPT !.state = "confirmed"] ELSE row

(* Slip: a reversal of a payment not yet detected is dropped. *)
MarkReversedIfPaid(row) ==
  IF row.state = "paid" THEN [row EXCEPT !.state = "reversed"] ELSE row

MarkReversed(row) ==
  IF row.state \in {"created", "paid"}
  THEN [row EXCEPT !.state = "reversed"] ELSE row

FindByPaymentIntent(rows, ref) == {i \in Ids : rows[i].ref = ref}

(* Slip: rows already paid are not listed, and so never promoted. *)
OpenUnpaid(rows) == {i \in Ids : rows[i].state = "created" /\ rows[i].session # None}

(* Rows that still need observation ... *)
Open(rows) == {i \in Ids : /\ rows[i].state \in {"created", "paid"}
                           /\ rows[i].session # None}

(* ... and the oldest `limit` of them, which is what the query returns. *)
OpenFiatCorrelations(rows, limit) ==
  {i \in Open(rows) : Cardinality({j \in Open(rows) : j < i}) < limit}

(* bound_processor: a row with a session and no processor is a Stripe row  *)
(* from before the column existed.                                         *)
BoundProcessor(row) ==
  IF row.processor # None THEN row.processor
  ELSE IF row.session # None THEN "stripe" ELSE None
=============================================================================
