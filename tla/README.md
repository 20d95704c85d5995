# Verification of fiat-verifier

TLA+ models of `fiat-verifier` (the Rust service in `src/src`), the TLC runs
that check them on small instances, and TLAPS proofs of the main results for
every instance. Modules and `.cfg` files lie side by side in this directory;
`PROJECT.json` lists the runs, the lines of source behind each definition, the
hazards and the findings.

## 1. The system

The service answers the Lock Server's question "was this invoice paid?". An
invoice whose criterion is `BTC` is forwarded to the Paykit Server; a fiat one
becomes a *correlation*, a row keyed by `(creator, bundle_id)`, with a hosted
checkout on Stripe or PayPal. The processors' webhooks are hints; only a pull
from a processor's API changes what a row says.

| component | source | state | operations |
|---|---|---|---|
| correlation store | `store.rs` | `correlations`, `webhook_events` | `insert_new`, `set_session`, `mark_paid`, `mark_confirmed`, `mark_reversed`, `record_webhook_event`, `open_fiat_correlations`, `find_by_payment_intent`; each one SQL statement |
| pull-is-truth core | `verification.rs` | none of its own; a snapshot of a row and a `now` per call | `pull_and_apply`, `promote_if_still_paid` |
| status endpoint | `http.rs`, `state.rs` | a snapshot | `transaction_status`, `report` |
| webhook endpoints | `http.rs` | an event | `stripe_webhook`, `paypal_webhook`, `mark_paypal_capture_reversed` |
| slow-poll worker | `worker.rs` | a batch of snapshots | `run` |
| minting | `http.rs`, `stripe.rs`, `paypal.rs` | a snapshot, a session in hand | `create_invoice`, `checkout_session`, `mint_session`, `persisted_session_after_lost_race` |
| rail dispatch | `http.rs`, `proxy.rs`, `lock_fetch.rs` | a criterion in hand | `create_invoice`, `transaction_status` on both rails, `criterion`, `forward` |
| rate limiter | `rate_limit.rs` | one bucket for all buyers, under a mutex | `try_take` |
| PayPal client | `paypal.rs` | a token and its expiry, under an async mutex | `access_token`, and the calls that need it |
| amounts | `paypal.rs`, `verification.rs` | none | `minor_to_decimal`, `decimal_to_minor`, the comparison in `pull_paypal` |
| configuration | `config.rs`, `main.rs` | read once at boot | `from_env`, `sole_configured`, the default processor |
| authentication, wire format | `auth.rs`, `wire.rs`, `error.rs` | none | stateless checks |

Handlers and the worker run concurrently on one async runtime and meet in two
places only: the store, whose conditional `UPDATE`s are atomic one at a time,
and the processors' APIs (with the token cache in front of PayPal's). There is
no lock and no transaction around a handler, so between any two awaits
everything else may happen: another handler moves the row, the buyer pays, the
seller refunds, the client hangs up (its handler is dropped at the await it is
in), the process dies. A failed write may have taken place. A webhook comes
late, twice, or never.

What makes each component correct:

- *settlement* (core, status, webhooks, worker): a row is paid, confirmed or
  reversed only if the processor says so; a confirmed payment was exact and
  rested for the settlement delay; a refund inside the delay is not confirmed;
  a confirmed answer matches a confirmed row; a payment is not lost when no
  webhook and no client ever comes;
- *minting*: a correlation's terms, processor and return origin are bound once;
  the session on a row belongs to it; a buyer is sent back to the right shop;
  a retry or a race does not leave two live sessions;
- *the two together*: what a row says is borne out by some session of it, also
  when sessions are replaced; a buyer's session is not given up without need;
- *dispatch*: an accepted invoice is never unknown later; an identity is bound
  to one criterion, on one rail;
- *rate limiter*: no window of time admits more than burst and rate allow, and
  nothing is lost or gained by rounding;
- *PayPal client*: no call with a token about to die, one refresh at a time, no
  call blocked for ever; amounts neither rounded nor wrapped.

The code's hard cases, each at its line, are under "hazards" in `PROJECT.json`.

## 2. Modules

```
Correlations              rows and the store's updates, as operators
  Reporting               what a pull establishes, what a row is reported as
    Settlement            status calls, webhooks, worker, buyers, processors
      MCSettlement        instances for TLC
      SettlementInv       the inductive invariants
      Settlement_proofs, SettlementInv_proofs, SettlementKept_proofs
  Checkout                minting
    MCCheckout, Checkout_proofs
  Gateway                 Checkout and Settlement over one table
    MCGateway, Gateway_proofs
Ledger                    what is promised of one payment (abstract)
Config                    what the process makes of its environment
  Dispatch                the Lock Server's two calls on the two rails
    MCDispatch, Dispatch_proofs
Budget                    what a rate limiter promises (abstract)
RateLimiter               the token bucket; RateLimiter_proofs
Amounts                   amounts to and from PayPal
  PaypalClient            the token cache; PaypalClient_proofs (of both)
MCParts                   RateLimiter, PaypalClient, Amounts and Dispatch for TLC
```

**Correlations.** `Row` has a field per column that control depends on.
`MarkPaid`, `MarkConfirmed`, `MarkReversed` and `SetSession` map the old row to
the new one, with the `WHERE` clause as condition. Ids are numbers in the order
of `created_at`, because `open_fiat_correlations` orders by it. A session or
order is named by its idempotency key (processor, identity, attempt), which is
what makes a repeated create call find it again; the payment intent or capture
id stands for the session it paid. (The code takes a Stripe session without a
payment intent as well; a session for a positive amount that is paid has one, and
the model relies on it.) Lock resource, reader, asset and amount are one value, the
row's `terms`.

**Reporting.** `StripeVerdict` and `PaypalVerdict` are `pull_stripe` and
`pull_paypal`. They differ in what they can see: `payment_status` of a Stripe
session stays `paid` after a refund, which shows on the charge only, whereas a
PayPal order carries the status of its capture. `Report` is `state::report`.

**Settlement.** A handler in flight is a record in `proc`: where it is (`pc`),
the row it last read (`snap`), its `now`, what its pull established (`got`).
One action per await:

| code | actions |
|---|---|
| `transaction_status` | `StatusRead`, `StatusBegin`, `StatusReread`, `StatusConfirm`, `StatusReply` |
| `pull_and_apply`, by whoever calls it | `Pull`, `Capture`, `Apply` (and `Resume`, where each caller goes on) |
| `worker::run` | `WorkerList`, `WorkerNext`, `WorkerReread`, `WorkerConfirm` |
| the webhook endpoints | `Deliver` (dedupe), `HintRead`, `ReversalVerify`, `ReversalFind`, `Reverse` |
| loss of a handler, of the process | `HangUp`, `Crash` |

Each call has a failing alternative, counted in `faults`; a failed write leaves
the row either way. The buyer and the processors are the external actions `Pay`,
`Approve`, `AutoCapture`, `CaptureSettles`, `Refund`, `Dispute`. Sessions are
minted beforehand, on either processor or, for Stripe, by a version without the
processor column (`bound_processor`). `drifted` is the set of sessions whose
charge is not what the terms ask; `refundedAt` exists for one property.

**Checkout.** A request is a record in `job`. `InvoiceInsert` is `create_invoice`
up to its write, `InvoiceExisting` the exact replay, `CheckoutRead`
`checkout_session` up to its decision, `Create` the processor call with its
idempotency key, `Persist` `set_session`, `LostRace`
`persisted_session_after_lost_race`. `minted` holds what the processors created
under each key, their own expiry (`Ttl`) included; what the row records may
differ (`RecordedExpiry`): for a PayPal order, whose answer names no expiry, it
is the constant of the code (`OrderTtl`), counted from the answer. What moves a
row on later is one outside action (`Settled`).

**Gateway.** Both of them, instantiated as they stand, on the same rows and
clock: `MintStep` is a step of a request that mints, `SettleStep` one of a status
call, a webhook or the worker, `BuyerStep` the outside world, `Restart` a crash
of the whole process. A row may have several sessions here; a buyer can pay any
session whose URL was handed out (`handed`) and which has not expired at the
processor, whether or not it is still the one on the row.

**Ledger.** One payment as the Lock Server sees it: detected only if money was
taken, confirmed only if it was exact and rested, reversed only if given back,
confirmed and reversed final. `Settlement!LedgerSpec` is `Ledger` under the
mapping from rows to phases.

**Config, Dispatch.** `Boots` are the refusals of `from_env`, `Loaded` what is
left of an accepted environment: processors, default, assets. In `Dispatch` an
invoice reads the lock (`ReadCriterion`), then is inserted and minted or
forwarded; a status call looks for a row, then asks the Paykit Server. Locks are
edited at any time, the process is restarted with another environment, calls
fail. The Paykit Server is an external action that accepts an identity once.

**RateLimiter, Budget.** `TryTake` is `try_take`, one step because the bucket's
mutex is held and the clock read inside it: whole tokens and the remainder, in
fractions of a token. `Budget` is an exact account in those fractions, credited
with the rate and capped at the burst; `RateLimiter!BudgetKept` is the refinement.

**PaypalClient.** `access_token` at its awaits: the clock is read (`Begin`), the
mutex waited for, the cache looked at (`Acquire`), a token issued and stored
(`Issue`, `Store`), or not (`FetchFails`); a caller can be dropped at each
(`Drop`). `queue` is tokio's mutex, first come first served.

**Amounts.** Decimals as whole part and digits. `Asked` is what `create_order`
sends; a capture shows that, or anything else, or nothing; `AmountMatched` is
`pull_paypal`'s verdict.

Operators marked "slip" next to a definition are plausible mistakes in it, used
to see that the properties notice them; no specification uses them.

## 3. Runs

| run | instance | shows |
|---|---|---|
| `settlement_stripe` | 1 correlation, 2 requests, 1 fault | `TypeOK`, `EveryStateEarned`, `ConfirmedAnswerEarned`; `Ledger` is implemented |
| `settlement_paypal` | 1 correlation, 1 request, fair worker, 1 fault | `EarlyRefundNeverConfirmed`, `MismatchNeverPromoted`, `RecordedRefundApplied`, `ReferenceLeadsToRow`; the inductive invariants `NothingFalseHeld`, `SessionKept`, `RefundsUnderWay`; `PaymentNeverLost` and `ApprovalCaptured` |
| `checkout` | 2 processors, 2 requests, 2 criteria, 2 shops, 1 fault | types, `RowSessionFits`, `RowUrlsMatchBinding`, `ServedUrlsAreBound`, `StripeSessionPayable`, `OneLiveSession`, `OriginNeverRebound` |
| `gateway` | 1 minting and 1 settling request, worker, 2 sessions, 1 fault or crash | `EveryStateEarned`, `RecordEarned`, `AbandonedOnlyForShop` |
| `parts` | limiter (rate 2, burst 3, 3 ticks a second); client (3 callers); amounts; dispatch (2 calls, 1 edit, 1 fault or restart) | `BudgetKept`, `AdmissionsBounded`; `TokenOutlivesSlack`, `NoNeedlessFetch`, `EveryCallReturns`; `AskedMatches`, `MatchedWasDue`; `NeverForgotten`, `AcceptedAsBound`, `DefaultUsable`; two type invariants |
| `settlement_starved`, `settlement_answer`, `settlement_lost_refund`, `checkout_rebind`, `checkout_dead`, `gateway_lost`, `dispatch_rails` | | the findings below |

**Bounds.** `MaxTime` is 1 or 2 ticks with a settlement delay of 1: enough for a
handler to hold a `now` from before the detection, during the delay and after
it. For minting, a session lives 2 ticks and the slack is 1, so that it is live,
inside the slack and dead within the bound; `checkout` records 3 ticks of a PayPal
order, longer than it lives, the other runs what it lives, so that
`checkout_dead` shows the replay and not the constant; `MaxAttempt` 2 allows one
re-mint, which is what the races are about. Two requests, or one and the worker,
are enough for the races of the code, which are between one handler's read and
another's write; a third mostly repeats one of them. `MaxFaults` is at most 1: one
failed call, hang-up or crash at every point of every interleaving.
`settlement_stripe` sets the poll limit to 0, which leaves the worker idle, to
make room for two requests; `settlement_paypal` has the worker, and the proofs
have no such restriction. `gateway` has one processor, since what it adds is
several sessions per row, and refund events only, and nobody there charges a
wrong amount (`Drifting = {}`), so the exactness of what is confirmed in spite of
re-mints rests on the theorems `GatewayNothingFalse` and `GatewayStatesEarned`;
the proofs about `Gateway` have none of these restrictions. The parts of `parts`
share no state, so its state space is the sum of theirs: the limiter runs for 7
ticks, more than two full refills of a bucket of 3 at 2 tokens per 3 ticks; of
the lifetimes of tokens (1 and 3) one does not outlive the slack (1), so that
such a token is never taken from the cache, and the other one does, and both can
expire within the clock bound of 3; the decimals lie on both sides of every limit
of `decimal_to_minor` for a `MaxInt` of 299.

Only `settlement_starved` does not check for deadlock: it has no requests, and
the system stops once every row is final. Symmetry is only used where no
liveness is checked and where handlers, calls or shops are interchangeable.

**Fairness.** `Settlement!FairSpec` asks for weak fairness of `WorkerStep` (a
step of the worker's loop) and of `Tick`. The loop is one task that never
returns, its calls have time-outs, and every failure in it is logged and the
loop goes on; so it takes another step unless the process is down for ever.
Nothing is assumed of clients or webhooks: `PaymentNeverLost` and
`ApprovalCaptured` hold without any of them, as the comment at the top of
`worker.rs` promises. The worker takes no fault more often than `MaxFaults`,
which stands for "calls do not fail for ever". `EveryCallReturns` of the PayPal
client rests on weak fairness of each caller's next step (`Proceed`): requests
are answered or time out after 20 seconds, and tokio's mutex serves its waiters
in order. No caller has to give up for another one to go on.

**Observations.** `record_webhook_event` before the handling is not needed for
safety, since all three marks are conditional on the state: handling an event
twice does nothing. It does make a hint whose handler died unrepeatable, and the
worker is what makes up for it. `RecordedRefundApplied` therefore speaks of
behaviours without faults.

The processor's refusal of a repeated key with other parameters
(`ReplayOnMismatch = FALSE`) is needed: a processor that replayed the earlier
session would leave a row bound to a shop with the fallback URLs, and
`RowUrlsMatchBinding` and `ServedUrlsAreBound` would not hold. Stripe documents
the refusal; the double in `http_tests.rs` does not have it.

Naming a shop for the first time re-mints while the earlier session is still
payable and nobody observes that one any more. `AbandonedOnlyForShop` says that
no later attempt at the same processor gives up a buyer's live session for any
other reason; it is what the code intends (`http.rs`, the comment above the reuse
of the live session). The property leaves out two races in which a row does lose
a live session: a mint on the other processor (`checkout_rebind`), and a mint
begun earlier whose persist comes late, since `set_session` does not look at the
attempt either. With two minting requests TLC finds the latter, which the
property excludes by comparing attempts.

## 4. Where code and documents disagree

1. `checkout_rebind`: "the binding is permanent" (README) does not hold for two
   concurrent first checkouts that name different processors. `set_session`
   guards the return origin only, so the later persist replaces processor and
   session; the first session stays payable and unobserved.
2. `checkout_dead`: a PayPal order whose create was answered into the void is
   found again under its key, and its expiry is recorded as three hours from the
   replay. Between its own expiry and that it counts as live and is served,
   although nobody can pay it. For Stripe, whose own expiry is recorded, this is
   excluded (`StripeSessionPayable`, also proved).
3. `gateway_lost`: a payment recorded between a checkout's read of the row and
   its persist does not stop the persist. The paid row gets another session, and
   every later pull asks about that one, which is unpaid: the payment is never
   confirmed. Its reference still leads to it (`RecordEarned`). The same race is
   the reason why the statement that a recorded payment of the wrong amount is
   never promoted (`MismatchNeverPromoted`) is one about `Settlement`: the worker
   goes by the outcome of its pull and does not look at `amount_matched` of the
   row it re-reads, so a row whose session was replaced can be confirmed by a
   payment of the new session, which is then an exact one (`EveryStateEarned`).
4. `dispatch_rails`: `create_invoice` goes by the lock as it is now,
   `transaction_status` by the row. If the author moves the lock from a fiat
   asset to BTC between two invoices of one identity, both rails accept it, and
   the status is the fiat row's. Nothing is forgotten by this
   (`NeverForgotten`), and the fiat row keeps its terms (`AcceptedAsBound`).
5. `settlement_answer`: `promote_if_still_paid` answers `true` when
   `mark_confirmed` found no row in state `paid`. If a reversal is recorded
   between the promotion-time pull and the update, the Lock Server is told
   `confirmed` about a reversed row. What does hold is
   `ConfirmedAnswerEarned`, which is also proved.
6. `settlement_lost_refund`: a Stripe refund or dispute event handled before the
   payment was detected finds no row (`payment_intent` is written by
   `mark_paid`), counts as seen, and is not delivered again; the session still
   reads `paid`, so the payment is detected and confirmed. On PayPal the
   `custom_id` and the order's capture status prevent it for refunds
   (`RecordedRefundApplied`).
7. `settlement_starved`: the poll lists the 200 oldest open rows, and a checkout
   nobody pays stays open for ever. As many of them as the limit keep every
   younger row from being pulled by the worker. Within the limit nothing is lost
   (`settlement_paypal`).

## 5. Proofs

TLAPS proves, for every value of the constants (any number of correlations,
requests, callers, sessions and faults, any delay, lifetime, slack, rate and
burst):

| module | theorem | statement |
|---|---|---|
| `SettlementInv_proofs` | `NothingFalse` | `Spec => []NothingFalseHeld` |
| | `TypeCorrect` | `Spec => []TypeOK` |
| | `StatesEarned` | `Spec => []EveryStateEarned` |
| | `AnswersEarned` | `Spec => []ConfirmedAnswerEarned` |
| `SettlementKept_proofs` | `ImplementsLedger` | `Spec => LedgerSpec` |
| | `SessionsKept` | `Spec => []SessionKept` |
| | `ReferencesResolve` | `Spec => []ReferenceLeadsToRow` |
| | `EarlyRefund` | `Spec => []EarlyRefundNeverConfirmed` |
| | `MismatchNever` | `Spec => []MismatchNeverPromoted` |
| | `RefundsHandled` | `Spec => []RefundsUnderWay`, if `CarriesCustomId` |
| | `RefundsApplied` | `Spec => []RecordedRefundApplied`, if `CarriesCustomId` |
| `Checkout_proofs` | `TypeCorrect` | `Spec => []TypeOK` |
| | `SessionFits` | `Spec => []RowSessionFits` |
| | `OriginKept` | `Spec => OriginNeverRebound` |
| | `StripePayable` | `Spec => []StripeSessionPayable` |
| | `UrlsMatch` | `Spec => []RowUrlsMatchBinding`, if `~ReplayOnMismatch` |
| | `BuyersReturn` | `Spec => []ServedUrlsAreBound`, if `~ReplayOnMismatch` |
| | `OneLive` | `Spec => []OneLiveSession`, if `~ReplayOnMismatch` and `Ttl <= OrderTtl` |
| `Gateway_proofs` | `GatewaySound` | `GatewaySpec => []GatewayInv` |
| | `GatewayNothingFalse` | `GatewaySpec => []NothingFalseHeld` |
| | `GatewayStatesEarned` | `GatewaySpec => []EveryStateEarned` |
| | `GatewayRecordEarned` | `GatewaySpec => []RecordEarned` |
| | `GatewayImplementsLedger` | `GatewaySpec => LedgerSpec` |
| | `GatewayMinting` | `GatewaySpec => []MintingHeld` |
| | `GatewaySessionFits` | `GatewaySpec => []C!RowSessionFits` |
| | `GatewayStripePayable` | `GatewaySpec => []C!StripeSessionPayable` |
| | `GatewayAbandons` | `GatewaySpec => []AbandonedOnlyForShop`, if `~ReplayOnMismatch` and `Ttl <= OrderTtl` |
| | `GatewayOneLive` | `GatewaySpec => []C!OneLiveSession`, if `~ReplayOnMismatch` and `Ttl <= OrderTtl` |
| | `GatewayOriginKept` | `GatewaySpec => C!OriginNeverRebound` |
| | `GatewayUrlsMatch` | `GatewaySpec => []C!RowUrlsMatchBinding`, if `~ReplayOnMismatch` |
| | `GatewayBuyersReturn` | `GatewaySpec => []C!ServedUrlsAreBound`, if `~ReplayOnMismatch` |
| `Dispatch_proofs` | `Remembered` | `DispatchSpec => []NeverForgotten` |
| | `BoundAsAccepted` | `DispatchSpec => []AcceptedAsBound` |
| | `DefaultThere` | `DispatchSpec => []DefaultUsable` |
| `RateLimiter_proofs` | `LimiterTypes` | `LimiterSpec => []LimiterTypeOK` |
| | `ImplementsBudget` | `LimiterSpec => BudgetKept` |
| | `BoundKept` | `LimiterSpec => []AdmissionsBounded` |
| `PaypalClient_proofs` | `TokensOutlive` | `ClientSpec => []TokenOutlivesSlack` |
| | `ClientTypes` | `ClientSpec => []ClientTypeOK` |
| | `FetchesNeeded` | `ClientSpec => NoNeedlessFetch` |
| | `AskedIsMatched` | `AmountsSpec => []AskedMatches` |
| | `MatchedIsDue` | `AmountsSpec => []MatchedWasDue` |

The assumptions are those the modules state: `None` is no other value, ids are
numbers, delays, lifetimes and the like are natural numbers, zero-decimal assets
are assets, and in `Gateway` no row exists before it is minted. Two theorems
about refunds need `CarriesCustomId`, that PayPal repeats an order's `custom_id`
on the capture: without it `mark_paypal_capture_reversed` has only the capture id
to go by, and a refund that overtakes the detection resolves to no row, as on
Stripe. Those that need `~ReplayOnMismatch` rest on the processors' refusal of a
key whose parameters differ (see the observations in section 3). Those about two
live sessions also need `Ttl <= OrderTtl`, that PayPal's orders are approvable
for no longer than the three hours the code records of them: an order that lived
longer would be replaced while it can still be paid.

**Settlement.** None of the properties is inductive: a row becomes confirmed on
the strength of what a suspended handler learned earlier. `NothingFalseHeld` says
that nothing a handler holds has been belied since: its snapshot is a row the
present one can have come from (`Moved`), a pull that said paid still has its
money taken, a corroborated reversal is still one, a promotion's delay is over, a
"confirmed" about to be answered is earned. The argument has two halves.
*Knowledge lasts*: every step satisfies `Grows` (the clock and the processors'
books only grow, rows only move along `Moved`), and under `Grows` a sound row,
snapshot or task stays sound (`RowFrame`, `SnapFrame`, `TaskFrame`). So whoever
does not act keeps what it knows, however many there are. *Writes are known*:
`ApplySound`, `ConfirmSound` and `ReverseSound` show that the three marks write
only what their actor holds, and `PullLeaves`, `CaptureLeaves`, `ApplyLeaves`,
`StatusLeaves`, `WorkerLeaves` and `WebhookLeaves` that a step leaves its own
actor with nothing false. `Settlement_proofs` has the types. For the refinement
the invariant supplies the guards of `Ledger`'s actions and `Grows` the
monotonicity of its books. All of this speaks of `AnyStep`, a step of any actor
with any session, and of what is sound of a correlation over all its sessions;
nothing in it needs a row to keep its session, which is why `Gateway_proofs` can
use it unchanged.

What a row with one session has beyond that is `SessionKept`: the row, each
snapshot of it and the payment on it are about the same session, and a PayPal
payment a handler holds as paid had not been refunded before the handler's `now`.
The latter is what makes `EarlyRefund` true: the promotion's pull saw the refund,
or the refund came after a `now` that was past the delay. `MismatchNever` is a
part of it (a matching pull of *the* session is a match on record), and
`ReferencesResolve` a consequence.

`RefundsUnderWay` is the third invariant: while no call failed, an accepted
refund is with a handler that has verified it or is about to, or the row is
final. A refunded payment stays refunded, so the verification cannot fail it;
with `CarriesCustomId` the row is found without the reference that detection
would have written; and `mark_reversed` moves `created` and `paid` alike.

**Checkout.** The same shape. `Inv` says of every row that its session fits it,
of everything minted that it has the terms of its correlation, and of every
request in flight what it relies on (`JobSound`): the terms it mints for are the
row's, the session in its hand exists, a shop its buyer named is the one the
session leads back to. `Grows` (terms and bound origins stay, what was minted
under a key stays) makes this last for those who do not act (`JobFrame`,
`RowFrame`, `MintFrame`); one lemma per action shows it for the one who does.
`OriginKept` is a part of `Grows`.

`OneLive` needs to know why an attempt was made. `LadderInv` says that the
attempts of a correlation at a processor are made one after the other, and each
when those below had expired but for the slack, or led to the fallback while the
buyer has named a shop. It holds of sessions that exist and of requests about to
create one; what a row records as expiry is never earlier than the session's own
(`Lasting` is needed for PayPal's orders, Stripe's expiry is its own), so that a
row that does not count as live has no live session; and a step from fallback to
shop happens once, since a bound origin stays. A request that died, or persists
late, changes nothing of this, because its key is a rung already.

**Gateway.** `GatewayInv` is `NothingFalseHeld` together with what requests that
mint hold (`MintsSound`) and that only sessions that were handed out are charged
(`ChargedWereHanded`). Every step that is not a mint's is an `AnyStep`, so
`SettlementInv_proofs` has its half; what is left is that a mint inserts a row or
replaces its session without making anything false that somebody holds
(`InsertReminds`, `PersistReminds`), since a snapshot or a payment is judged by
the session it names and not by the one on the row. The refinement of `Ledger`
follows: to it, a mint is a stutter.

The other direction, `GatewayMinting`, is that all of `Checkout_proofs` holds in
the whole gateway. Its steps are `Checkout`'s own, or leave alone what minting
wrote of a row (`SettlingOutside`), which is all that `Checkout_proofs` asks of
what is outside of it (`OutsideSound`, `OutsideLadder`); so each safety property
proved of `Checkout` holds of `Gateway` as well. `GatewayAbandons` then is a
property of the ladder: an attempt above a session that can still be paid was
made for a shop the session does not lead to.

**Dispatch.** Both rails' books only grow, and neither an edited lock nor another
configuration takes anything out of them. So it is enough that every call in
flight that has accepted something, or is about to say so, finds it in the books
of the rail that took it (`Booked`), and that a status call that began after an
acceptance finds one of the two (`Known`). `DefaultThere` reasons over all
environments that boot.

**RateLimiter.** `Account`: after every call, what was admitted from any
admission on, and what is left, is at most the burst and what accrued since.
`AdmissionsBounded` is its special case for two admissions. The refinement needs
that whole tokens and the remainder are the exact credit again after the
division (`\div` and `%` by the unit).

**PaypalClient.** Nothing is assumed of `expires_in`, which the code takes as it
comes: a token that does not outlive the slack is used by whoever fetched it and
by nobody else. What is recorded as a token's expiry is never later than its real
one, because the clock was read before the wait and the request; for this the
mutex plays no part. That nobody fetches without need is the mutex's doing:
`MutexInv` says that the queue holds exactly those who wait or renew, each once,
and that only the first of them renews, whoever of them is dropped from whatever
place in the queue.

**Amounts.** Case distinctions on the asset and on the number of digits.

Only model-checked is liveness under fairness (`PaymentNeverLost`,
`ApprovalCaptured`, `EveryCallReturns`), which is out of the prover's reach. The
properties of the violation runs are of course not theorems.

## 6. Not modelled

- authentication, canonical JSON, signatures, request and response parsing,
  `error.rs`: cryptography, pure functions and wording, in front of or around
  what is modelled (a delivered event is one whose signature was right);
- the rest of the configuration: addresses, keys, URLs and time-outs are read
  and checked one by one and decide nothing else; delays, limits, lifetimes and
  slack are constants;
- the in-memory store, a double of the PostgreSQL one used by tests;
- a bound processor that is not configured any more: a pull that is unavailable;
- a token PayPal revokes before its expiry: the client models tokens that live
  as long as promised (the code would keep using it until the recorded expiry);
- three-decimal currencies: the code knows only assets with and without cents.

## 7. Plan

1. `ReferenceLeadsToRow` and `EarlyRefundNeverConfirmed` for `Gateway`, restated
   by session: what a row with several of them still promises about a refund of
   the one it was paid with.
2. That `Dispatch` accepts an identity on one rail only as long as its lock stays
   on one rail: the part of finding 4 that does hold.
