----------------------------- MODULE Settlement -----------------------------
(***************************************************************************)
(* From a minted session to a final row: the signed status endpoint        *)
(* (http.rs, transaction_status), the two webhook endpoints                *)
(* (stripe_webhook, paypal_webhook) and the slow-poll worker (worker.rs),  *)
(* all of which run concurrently over the correlations table and the       *)
(* processors' APIs.                                                       *)
(*                                                                         *)
(* Every handler is cut at its awaits: one action per call of the store or *)
(* of a processor, on the snapshot and the `now` the handler holds at that *)
(* point.  A handler in flight is a record in `proc`; it can be lost at    *)
(* any await, with the whole process or alone when its client hangs up.    *)
(* A call can fail; a failed write may or may not have taken place.        *)
(*                                                                         *)
(* Not here: minting (Checkout), signatures and parsing of requests, the   *)
(* answers 4xx/5xx that change nothing, rows without a session, and the    *)
(* BTC rail.                                                               *)
(***************************************************************************)
EXTENDS Reporting

CONSTANTS
  Handlers,        \* requests the HTTP server can be working on at a time
  Worker,          \* the slow-poll task
  PollLimit,       \* LIMIT of open_fiat_correlations
  CarriesCustomId, \* PayPal returns our custom_id on a capture
  InitKinds,       \* processors of the sessions minted beforehand
  MaxTime,         \* bound on the clock
  MaxFaults        \* bound on failed calls, lost handlers and crashes

ASSUME WorkerAssumption == Worker \notin Handlers
ASSUME InitKindsAssumption == InitKinds \subseteq Kinds
ASSUME CustomIdAssumption == CarriesCustomId \in BOOLEAN

VARIABLES
  rows,        \* the correlations table
  seen,        \* the webhook_events table
  charge,      \* the processors' state of each session
  drifted,     \* sessions whose charged amount or currency is not the terms'
  refundedAt,  \* when a session's payment was refunded, for the properties
  clock,
  proc,        \* what each handler, and the worker, is doing
  faults       \* faults so far

store == <<rows, seen>>
processors == <<charge, drifted, refundedAt>>
vars == <<rows, seen, charge, drifted, refundedAt, clock, proc, faults>>

Procs == Handlers \cup {Worker}

Ops == {"idle", "status", "payment", "reversal", "worker"}

Points == {"idle", "begin", "pull", "capture", "apply", "reread", "confirm",
           "reply", "next", "hint", "verify", "find", "reverse"}

EventTypes == {"payment", "refund", "partial", "dispute"}

Event == [type : EventTypes, session : Session]

(***************************************************************************)
(* `snap` is the row as the handler last read it, `got` what its last pull *)
(* established, `promoting` whether that is the promotion-time pull,       *)
(* `batch` the worker's snapshots still to visit.                          *)
(***************************************************************************)
TaskRecord ==
  [op : Ops, pc : Points, id : Ids \cup {None}, snap : Row, now : Nat,
   got : Outcomes, promoting : BOOLEAN, event : Event \cup {None},
   batch : SUBSET [id : Ids, row : Row], reply : Reports \cup {"none"}]

(* Where a handler is tells what it holds. *)
Task == {t \in TaskRecord :
           /\ t.pc \in {"begin", "pull", "capture", "apply", "reread", "confirm",
                        "reply", "reverse"} => t.id \in Ids
           /\ t.pc \in {"hint", "verify", "find", "reverse"} => t.event \in Event}

Idle == [op |-> "idle", pc |-> "idle", id |-> None, snap |-> NoRow, now |-> 0,
         got |-> "none", promoting |-> FALSE, event |-> None,
         batch |-> {}, reply |-> "none"]

(* A handler about to answer, and the worker between two rows, hold        *)
(* nothing else that matters.                                              *)
Answering(task, reply) ==
  [Idle EXCEPT !.op = task.op, !.pc = "reply", !.id = task.id, !.reply = reply]

NextRow(task) ==
  [Idle EXCEPT !.op = task.op, !.pc = "next", !.batch = task.batch]

At(p, pc) == proc[p].pc = pc

Becomes(p, task) == proc' = [proc EXCEPT ![p] = task]

(* One more failed call, within the bound. *)
Fault == faults < MaxFaults /\ faults' = faults + 1

NoFault == UNCHANGED faults

-----------------------------------------------------------------------------
(* A row whose session was minted before: by the current code, or, for     *)
(* Stripe, by a version without the processor column.                      *)
Minted(i, kind, processor) ==
  [NewRow(CHOOSE t \in Terms : TRUE) EXCEPT
     !.session = [kind |-> kind, id |-> i, attempt |-> 1],
     !.attempt = 1, !.processor = processor]

MintedRows(i) ==
  {Minted(i, kind, kind) : kind \in InitKinds}
    \cup IF "stripe" \in InitKinds THEN {Minted(i, "stripe", None)} ELSE {}

(* The sessions some row refers to. *)
Bound == {rows[i].session : i \in Ids} \ {None}

Init ==
  /\ rows \in [Ids -> UNION {MintedRows(i) : i \in Ids}]
  /\ \A i \in Ids : rows[i] \in MintedRows(i)
  /\ seen = {}
  /\ charge = [s \in Session |-> "unpaid"]
  /\ drifted \in SUBSET Bound
  /\ refundedAt = [s \in Session |-> None]
  /\ clock = 0
  /\ proc = [p \in Procs |-> Idle]
  /\ faults = 0

-----------------------------------------------------------------------------
(* The buyer and the processor: external, as the pulls see them.           *)

ChargeMoves(s, from, to) ==
  /\ charge[s] = from
  /\ charge' = [charge EXCEPT ![s] = to]
  /\ UNCHANGED <<store, drifted, clock, proc, faults>>

Pay(s) == /\ s.kind = "stripe"
          /\ ChargeMoves(s, "unpaid", "paid")
          /\ UNCHANGED refundedAt

Approve(s) == /\ s.kind = "paypal"
              /\ ChargeMoves(s, "unpaid", "approved")
              /\ UNCHANGED refundedAt

(* ORDER_COMPLETE_ON_PAYMENT_APPROVAL *)
AutoCapture(s) == /\ \E to \in {"paid", "pending"} : ChargeMoves(s, "approved", to)
                  /\ UNCHANGED refundedAt

CaptureSettles(s) == /\ \E to \in {"paid", "declined"} : ChargeMoves(s, "pending", to)
                     /\ UNCHANGED refundedAt

Refund(s) == /\ ChargeMoves(s, "paid", "refunded")
             /\ refundedAt' = [refundedAt EXCEPT ![s] = clock]

Dispute(s) == /\ ChargeMoves(s, "paid", "disputed")
              /\ UNCHANGED refundedAt

Tick == /\ clock < MaxTime
        /\ clock' = clock + 1
        /\ UNCHANGED <<store, processors, proc, faults>>

-----------------------------------------------------------------------------
(* Slip: the worker goes on after any payment, of whatever amount. *)
ResumeAnyPaid(task) ==
  CASE task.op = "worker" /\ task.got \in PaidOutcomes -> [task EXCEPT !.pc = "reread"]
    [] task.op = "worker" /\ task.got \notin PaidOutcomes -> NextRow(task)
    [] task.op = "status" /\ ~task.promoting -> [task EXCEPT !.pc = "reread"]
    [] task.op = "status" /\ task.promoting -> Answering(task, "detected")
    [] OTHER -> Idle

(* Where a task goes on once its pull and the mark_paid that may follow    *)
(* are over: the callers of pull_and_apply.                                *)
Resume(task) ==
  LET matched == task.got = "matched" IN
  CASE task.op = "status" /\ ~task.promoting -> [task EXCEPT !.pc = "reread"]
    [] task.op = "status" /\ task.promoting ->
         IF matched THEN [task EXCEPT !.pc = "confirm"]
                    ELSE Answering(task, "detected")
    [] task.op = "worker" ->
         IF matched THEN [task EXCEPT !.pc = "reread"] ELSE NextRow(task)
    [] OTHER -> Idle

(* Only a pull made on a snapshot still `created` is written down. *)
Pulled(task, outcome) ==
  LET done == [task EXCEPT !.got = outcome] IN
  IF outcome \in PaidOutcomes /\ task.snap.state = "created"
  THEN [done EXCEPT !.pc = "apply"]
  ELSE Resume(done)

(* retrieve_session or retrieve_order answers with the session's state. *)
Pull(p) ==
  LET task == proc[p]
      s == task.snap.session
      kind == BoundProcessor(task.snap) IN
  /\ At(p, "pull")
  /\ \/ /\ s = None
        /\ Becomes(p, Pulled(task, "unpaid"))
        /\ NoFault
     \/ /\ s # None
        /\ Becomes(p, Pulled(task, "unavailable"))
        /\ Fault
     \/ /\ s # None
        /\ NeedsCapture(kind, charge[s])
        /\ Becomes(p, [task EXCEPT !.pc = "capture"])
        /\ NoFault
     \/ /\ s # None
        /\ ~NeedsCapture(kind, charge[s])
        /\ Becomes(p, Pulled(task, Verdict(kind, charge[s], s \notin drifted)))
        /\ NoFault
  /\ UNCHANGED <<store, processors, clock>>

(* capture_order: captures an order still approved; one captured meanwhile *)
(* is an error, or the answer to the earlier call with the same key.       *)
Capture(p) ==
  LET task == proc[p]
      s == task.snap.session
      Judge(status) == PaypalVerdict(status, s \notin drifted) IN
  /\ At(p, "capture")
  /\ \/ /\ charge[s] = "approved"
        /\ \E to \in {"paid", "pending"} :
             /\ charge' = [charge EXCEPT ![s] = to]
             /\ \/ Becomes(p, Pulled(task, Judge(to))) /\ NoFault
                \/ Becomes(p, Pulled(task, "unavailable")) /\ Fault
     \/ /\ charge[s] # "approved"
        /\ \E outcome \in {"unavailable", Judge(charge[s])} :
             Becomes(p, Pulled(task, outcome))
        /\ NoFault /\ UNCHANGED charge
     \/ /\ Becomes(p, Pulled(task, "unavailable"))
        /\ Fault /\ UNCHANGED charge
  /\ UNCHANGED <<store, drifted, refundedAt, clock>>

(* Slip: the reference written is the session now on the row. *)
ApplyToPresentSession(p) ==
  LET task == proc[p]
      Marked == [rows EXCEPT ![task.id] =
                   MarkPaid(@, task.got = "matched", @.session, task.now)] IN
  /\ At(p, "apply")
  /\ rows' = Marked /\ Becomes(p, Resume(task)) /\ NoFault
  /\ UNCHANGED <<seen, processors, clock>>

(* mark_paid, with the `now` captured before the pull was sent.  A paid    *)
(* session names its payment intent, as a paid order does its capture: the *)
(* amounts are positive (create_invoice), so there is a payment to name.   *)
Apply(p) ==
  LET task == proc[p]
      Marked == [rows EXCEPT ![task.id] =
                   MarkPaid(@, task.got = "matched", task.snap.session, task.now)] IN
  /\ At(p, "apply")
  /\ \/ rows' = Marked /\ Becomes(p, Resume(task)) /\ NoFault
     \/ /\ rows' \in {rows, Marked}
        /\ Becomes(p, Resume([task EXCEPT !.got = "unavailable"]))
        /\ Fault
  /\ UNCHANGED <<seen, processors, clock>>

-----------------------------------------------------------------------------
(* POST /transactions/status.                                              *)

(* The row, or its absence, is read; without a row the call is proxied.    *)
StatusRead(h, i) ==
  /\ At(h, "idle") /\ h \in Handlers
  /\ rows[i].state # "absent"
  /\ Becomes(h, [Idle EXCEPT !.op = "status", !.pc = "begin", !.id = i,
                             !.snap = rows[i]])
  /\ UNCHANGED <<store, processors, clock, faults>>

(* Answers with the report of `row`, or goes for the promotion-time pull. *)
Reported(task, row) ==
  LET report == Report(row, task.now) IN
  IF report = "promotionDue"
  THEN [task EXCEPT !.snap = row, !.pc = "pull", !.promoting = TRUE, !.got = "none"]
  ELSE Answering(task, report)

(* `now` is taken; a row still awaiting payment is pulled first. *)
StatusBegin(h) ==
  LET task == [proc[h] EXCEPT !.now = clock] IN
  /\ At(h, "begin")
  /\ Becomes(h, IF task.snap.state = "created" /\ task.snap.session # None
                THEN [task EXCEPT !.pc = "pull"]
                ELSE Reported(task, task.snap))
  /\ UNCHANGED <<store, processors, clock, faults>>

(* A failed re-read leaves the first snapshot. *)
StatusReread(h) ==
  LET task == proc[h] IN
  /\ At(h, "reread") /\ task.op = "status"
  /\ \/ Becomes(h, Reported(task, rows[task.id])) /\ NoFault
     \/ Becomes(h, Reported(task, task.snap)) /\ Fault
  /\ UNCHANGED <<store, processors, clock>>

(* Slip: a confirmation that was not stored is answered all the same. *)
StatusConfirmUnchecked(h) ==
  LET task == proc[h] IN
  /\ At(h, "confirm") /\ task.op = "status"
  /\ \/ rows' = [rows EXCEPT ![task.id] = MarkConfirmed(@)] /\ NoFault
     \/ UNCHANGED rows /\ Fault
  /\ Becomes(h, Answering(task, "confirmed"))
  /\ UNCHANGED <<seen, processors, clock>>

(* mark_confirmed; that it found no row in state `paid` is not an error,   *)
(* and the answer is the same.                                             *)
StatusConfirm(h) ==
  LET task == proc[h]
      Marked == [rows EXCEPT ![task.id] = MarkConfirmed(@)] IN
  /\ At(h, "confirm") /\ task.op = "status"
  /\ \/ rows' = Marked /\ Becomes(h, Answering(task, "confirmed")) /\ NoFault
     \/ rows' \in {rows, Marked} /\ Becomes(h, Answering(task, "detected")) /\ Fault
  /\ UNCHANGED <<seen, processors, clock>>

StatusReply(h) ==
  /\ At(h, "reply")
  /\ Becomes(h, Idle)
  /\ UNCHANGED <<store, processors, clock, faults>>

-----------------------------------------------------------------------------
(* The slow-poll worker.                                                   *)

WorkerList ==
  LET open == OpenFiatCorrelations(rows, PollLimit) IN
  /\ At(Worker, "idle")
  /\ open # {}
  /\ Becomes(Worker, [Idle EXCEPT !.op = "worker", !.pc = "next",
                                  !.batch = {[id |-> i, row |-> rows[i]] : i \in open}])
  /\ UNCHANGED <<store, processors, clock, faults>>

(* The oldest snapshot of the batch is next, with a `now` of its own. *)
WorkerNext ==
  LET task == proc[Worker] IN
  /\ At(Worker, "next")
  /\ \/ /\ task.batch = {}
        /\ Becomes(Worker, Idle)
     \/ \E item \in task.batch :
          /\ \A other \in task.batch : item.id <= other.id
          /\ Becomes(Worker,
               [Idle EXCEPT !.op = "worker", !.pc = "pull", !.id = item.id,
                            !.snap = item.row, !.now = clock,
                            !.batch = task.batch \ {item}])
  /\ UNCHANGED <<store, processors, clock, faults>>

WorkerRereadAnyTime ==   \* slip: promoted as soon as it is paid
  LET task == proc[Worker] IN
  /\ At(Worker, "reread")
  /\ Becomes(Worker, IF rows[task.id].state = "paid"
                     THEN [task EXCEPT !.pc = "confirm"]
                     ELSE NextRow(task))
  /\ NoFault
  /\ UNCHANGED <<store, processors, clock>>

(* Of the row as it is now, only its state and its paid_at count. *)
WorkerReread ==
  LET task == proc[Worker]
      row == rows[task.id]
      due == row.state = "paid" /\ DelayElapsed(row, task.now) IN
  /\ At(Worker, "reread")
  /\ \/ /\ due
        /\ Becomes(Worker, [task EXCEPT !.pc = "confirm"])
        /\ NoFault
     \/ ~due /\ Becomes(Worker, NextRow(task)) /\ NoFault
     \/ Becomes(Worker, NextRow(task)) /\ Fault
  /\ UNCHANGED <<store, processors, clock>>

WorkerConfirm ==
  LET task == proc[Worker]
      Marked == [rows EXCEPT ![task.id] = MarkConfirmed(@)] IN
  /\ At(Worker, "confirm")
  /\ \/ rows' = Marked /\ NoFault
     \/ rows' \in {rows, Marked} /\ Fault
  /\ Becomes(Worker, NextRow(task))
  /\ UNCHANGED <<seen, processors, clock>>

-----------------------------------------------------------------------------
(* POST /webhooks/stripe and /webhooks/paypal.  An event may come late,    *)
(* early, more than once, or never.                                        *)

(* What a processor sends: a payment hint at any time once the buyer went  *)
(* through the checkout, a reversal event once the charge or capture was   *)
(* reversed or disputed.  Stripe also sends charge.refunded for a refund   *)
(* of a part, which does not set the charge's refunded flag.               *)
Sendable(e) ==
  LET status == charge[e.session] IN
  CASE e.type = "payment" -> status # "unpaid"
    [] e.type = "refund"  -> CaptureReversed(status)
    [] e.type = "partial" -> e.session.kind = "stripe" /\ status = "paid"
    [] e.type = "dispute" -> status = "disputed"

(* record_webhook_event comes first: the event counts as processed before  *)
(* anything was done about it, and every later delivery is a duplicate.    *)
Deliver(h, e) ==
  /\ At(h, "idle") /\ h \in Handlers
  /\ Sendable(e)
  /\ e \notin seen
  /\ seen' = seen \cup {e}
  /\ Becomes(h, IF e.type = "payment"
                THEN [Idle EXCEPT !.op = "payment", !.pc = "hint", !.now = clock,
                                  !.event = e]
                ELSE [Idle EXCEPT !.op = "reversal", !.pc = "verify", !.event = e])
  /\ UNCHANGED <<rows, processors, clock, faults>>

(* The reference on the session or order names the row, which is read, and *)
(* whose own session is pulled.                                            *)
HintRead(h) ==
  LET task == proc[h]
      i == task.event.session.id IN
  /\ At(h, "hint")
  /\ \/ /\ rows[i].state # "absent"
        /\ Becomes(h, [task EXCEPT !.pc = "pull", !.id = i, !.snap = rows[i]])
        /\ NoFault
     \/ rows[i].state = "absent" /\ Becomes(h, Idle) /\ NoFault
     \/ Becomes(h, Idle) /\ Fault
  /\ UNCHANGED <<store, processors, clock>>

CorroboratedBlindly(e) == TRUE   \* slip: the webhook taken for a fact

(* A reversal is corroborated: by the charge (Stripe), by the capture or,  *)
(* for a dispute, by the dispute's mere existence (PayPal).                *)
Corroborated(e) ==
  LET status == charge[e.session] IN
  IF e.session.kind = "stripe" THEN ChargeReversed(status)
  ELSE e.type = "dispute" \/ CaptureReversed(status)

ReversalVerify(h) ==
  LET task == proc[h] IN
  /\ At(h, "verify")
  /\ \/ /\ Corroborated(task.event)
        /\ Becomes(h, [task EXCEPT !.pc = "find"])
        /\ NoFault
     \/ ~Corroborated(task.event) /\ Becomes(h, Idle) /\ NoFault
     \/ Becomes(h, Idle) /\ Fault
  /\ UNCHANGED <<store, processors, clock>>

(* The row a reversal is about: a PayPal refund is resolved by the         *)
(* capture's custom_id, everything else by the payment reference.          *)
Resolved(e) ==
  IF e.session.kind = "paypal" /\ e.type = "refund" /\ CarriesCustomId
  THEN {i \in {e.session.id} : rows[i].state # "absent"}
  ELSE FindByPaymentIntent(rows, e.session)

ReversalFind(h) ==
  LET task == proc[h]
      found == Resolved(task.event) IN
  /\ At(h, "find")
  /\ \/ /\ \E i \in found : Becomes(h, [task EXCEPT !.pc = "reverse", !.id = i])
        /\ NoFault
     \/ found = {} /\ Becomes(h, Idle) /\ NoFault
     \/ Becomes(h, Idle) /\ Fault
  /\ UNCHANGED <<store, processors, clock>>

Reverse(h) ==
  LET Marked == [rows EXCEPT ![proc[h].id] = MarkReversed(@)] IN
  /\ At(h, "reverse")
  /\ \/ rows' = Marked /\ NoFault
     \/ rows' \in {rows, Marked} /\ Fault
  /\ Becomes(h, Idle)
  /\ UNCHANGED <<seen, processors, clock>>

-----------------------------------------------------------------------------
(* A client that hangs up drops its handler at the await it is in.         *)
HangUp(h) ==
  /\ ~At(h, "idle")
  /\ Fault
  /\ Becomes(h, Idle)
  /\ UNCHANGED <<store, processors, clock>>

(* The process dies and is started again: the tables remain. *)
Crash ==
  /\ \E p \in Procs : ~At(p, "idle")
  /\ Fault
  /\ proc' = [p \in Procs |-> Idle]
  /\ UNCHANGED <<store, processors, clock>>

Environment ==
  \/ Tick
  \/ Crash
  \/ \E s \in Bound : \/ Pay(s) \/ Approve(s) \/ AutoCapture(s)
                      \/ CaptureSettles(s) \/ Refund(s) \/ Dispute(s)

PullStep(p) == Pull(p) \/ Capture(p) \/ Apply(p)

StatusStep(h) ==
  StatusBegin(h) \/ StatusReread(h) \/ StatusConfirm(h) \/ StatusReply(h)

WebhookStep(h) ==
  HintRead(h) \/ ReversalVerify(h) \/ ReversalFind(h) \/ Reverse(h)

WorkerStep ==
  PullStep(Worker) \/ WorkerList \/ WorkerNext \/ WorkerReread \/ WorkerConfirm

HandlerStep(h) ==
  \/ \E i \in Ids : StatusRead(h, i)
  \/ \E t \in EventTypes, s \in Bound : Deliver(h, [type |-> t, session |-> s])
  \/ PullStep(h) \/ StatusStep(h) \/ WebhookStep(h)
  \/ HangUp(h)

Next == Environment \/ WorkerStep \/ \E h \in Handlers : HandlerStep(h)

Spec == Init /\ [][Next]_vars

(* The worker's loop runs for as long as the process does, and time        *)
(* passes.  Nothing makes a client call or a webhook arrive.               *)
FairSpec == Spec /\ WF_vars(WorkerStep) /\ WF_vars(Tick)
-----------------------------------------------------------------------------
Types ==
  /\ rows \in [Ids -> Row]
  /\ seen \in SUBSET Event
  /\ charge \in [Session -> ChargeStates]
  /\ drifted \in SUBSET Session
  /\ refundedAt \in [Session -> Nat \cup {None}]
  /\ clock \in Nat
  /\ proc \in [Procs -> Task]
  /\ faults \in Nat

(* Well-formedness: the variables have their types, and a row whose        *)
(* payment was recorded carries the time and the reference of it           *)
(* (mark_paid writes the four columns in one statement).                   *)
TypeOK ==
  /\ Types
  /\ \A i \in Ids : rows[i].state \in {"paid", "confirmed"} =>
       rows[i].paidAt # None /\ rows[i].ref # None

(* The sessions of a correlation for which money was taken, and those for  *)
(* which the right money was.                                              *)
PaidSessions(i) == {s \in Session : s.id = i /\ Taken(charge[s])}
ExactSessions(i) == PaidSessions(i) \ drifted

(* Nobody is told of a payment that did not happen: a row is confirmed     *)
(* only if the processor took the exact amount, and only after the         *)
(* settlement delay since detection; a row is paid only if money was       *)
(* taken, a detection does not lie in the future, and a row is reversed    *)
(* only if the processor says so (pull_and_apply, promote_if_still_paid,   *)
(* the worker's promotion, the webhooks' corroboration).                   *)
Earned(i) ==
  CASE rows[i].state = "paid" -> PaidSessions(i) # {} /\ rows[i].paidAt <= clock
    [] rows[i].state = "confirmed" ->
         ExactSessions(i) # {} /\ clock >= rows[i].paidAt + SettlementDelay
    [] rows[i].state = "reversed" ->
         \E s \in Session : s.id = i /\ GivenBack(charge[s])
    [] OTHER -> TRUE

EveryStateEarned == \A i \in Ids : Earned(i)

(* An answer "confirmed" to the Lock Server is only given for a payment    *)
(* that earned it, and only when the confirmation is in the store, or a    *)
(* reversal came first (transaction_status, promote_if_still_paid).        *)
ConfirmedAnswerEarned ==
  \A h \in Handlers : LET row == rows[proc[h].id] IN
    At(h, "reply") /\ proc[h].reply = "confirmed" =>
      /\ row.state \in {"confirmed", "reversed"}
      /\ ExactSessions(proc[h].id) # {}
      /\ clock >= row.paidAt + SettlementDelay

(* The promotion-time pull catches a refund no webhook told of: a payment  *)
(* refunded before its settlement delay was over is never confirmed        *)
(* (README, "delay elapsed, fresh re-pull still paid").  PayPal only: a     *)
(* refund does not show in the session that Stripe's pull retrieves.       *)
EarlyRefundNeverConfirmed ==
  \A i \in Ids : LET at == refundedAt[rows[i].session] IN
    rows[i].state = "confirmed" /\ rows[i].session.kind = "paypal" /\ at # None =>
      at >= rows[i].paidAt + SettlementDelay

(* A payment of the wrong amount or currency is reported as that and never *)
(* promoted (state.rs, report; the worker's promotion).                    *)
MismatchNeverPromoted ==
  \A i \in Ids : rows[i].state = "confirmed" => rows[i].matched

(* A reversal that arrives after detection can always be resolved: the     *)
(* reference of a payment on record leads to its row and to no other       *)
(* (mark_paid, find_by_payment_intent).                                    *)
ReferenceLeadsToRow ==
  \A i \in Ids : rows[i].state \in {"paid", "confirmed"} =>
    FindByPaymentIntent(rows, rows[i].session) = {i}

(* An answer "confirmed" never contradicts the row it is about.            *)
ConfirmedAnswerMatchesRow ==
  \A h \in Handlers :
    At(h, "reply") /\ proc[h].reply = "confirmed" => rows[proc[h].id].state = "confirmed"

(* A refund the webhook handler accepted and is done with, no call having  *)
(* failed, has its effect however early it came: the row is reversed,      *)
(* unless it was confirmed first (mark_paypal_capture_reversed).  PayPal   *)
(* only: a capture names its correlation, a charge only its session.       *)
RecordedRefundApplied ==
  faults = 0 => \A e \in seen :
    /\ e.type = "refund" /\ e.session.kind = "paypal"
    /\ \A p \in Procs : proc[p].event # e
    => rows[e.session.id].state \in {"reversed", "confirmed"}

(* Once the handler of a refund's or a dispute's event is done, the row is *)
(* not promoted any more (README, "reversed/disputed before completion     *)
(* ... never promoted").                                                   *)
HandledReversalNeverPromoted ==
  [][\A e \in seen : LET i == e.session.id IN
       /\ e.type \in {"refund", "dispute"}
       /\ \A p \in Procs : proc[p].event # e
       /\ rows[i].state # "confirmed"
       => rows'[i].state # "confirmed"]_vars

(* What the Lock Server relies on, whatever the interleaving.              *)
L == INSTANCE Ledger WITH
       Rest  <- SettlementDelay,
       phase <- [i \in Ids |-> IF rows[i].state = "absent" THEN "created"
                                    ELSE rows[i].state],
       since <- [i \in Ids |-> IF rows[i].paidAt = None THEN 0 ELSE rows[i].paidAt],
       time  <- clock,
       taken <- {i \in Ids : PaidSessions(i) # {}},
       exact <- {i \in Ids : ExactSessions(i) # {}},
       back  <- {i \in Ids : \E s \in Session : s.id = i /\ GivenBack(charge[s])}

LedgerSpec == L!Spec

(* A lost webhook delays a payment but never loses it (worker.rs): money   *)
(* the processor took leads to a confirmed or a reversed row, whether or   *)
(* not any request or webhook ever arrives -- or to a mismatch, which is   *)
(* reported and never promoted; a detection too late for the delay to      *)
(* elapse within the clock's bound is excused, as is money the processor   *)
(* no longer holds.                                                        *)
PaymentNeverLost ==
  \A i \in Ids :
    charge[rows[i].session] = "paid" ~>
      \/ rows[i].state \in {"confirmed", "reversed"}
      \/ rows[i].state = "paid" /\ ~rows[i].matched
      \/ rows[i].state = "paid" /\ rows[i].paidAt + SettlementDelay > MaxTime
      \/ charge[rows[i].session] # "paid"

(* Capture on approval, either way: an order the buyer approved does not   *)
(* stay uncaptured, even if PayPal's own capture never happens, as long as *)
(* the worker runs (pull_paypal).                                          *)
ApprovalCaptured ==
  \A i \in Ids :
    charge[rows[i].session] = "approved" ~> charge[rows[i].session] # "approved"
=============================================================================
