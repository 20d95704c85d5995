---------------------------- MODULE SettlementInv ----------------------------
(***************************************************************************)
(* The inductive invariants behind Settlement's safety properties: what is *)
(* true of every row and of everything a handler in flight holds.  The     *)
(* properties speak of rows and answers only; what makes them true is that *)
(* no handler ever holds a snapshot, an outcome of a pull or a             *)
(* corroborated event that the processor or the row has since belied.      *)
(*                                                                         *)
(* NothingFalseHeld does not need a row to keep its session: it also holds *)
(* where rows are inserted and re-minted meanwhile (Gateway).  What is     *)
(* only true of a row that has one session throughout is SessionKept, and  *)
(* what becomes of an accepted refund is RefundsUnderWay.                  *)
(***************************************************************************)
EXTENDS Settlement

PaymentOnRecord == {"paid", "confirmed"}

(* A row, or a snapshot of it, only says what the processor bears out.     *)
RowSound(row, i) ==
  /\ row.state = "absent" => row = NoRow
  /\ row.session # None => row.session.id = i
  /\ row.ref # None => row.ref.id = i /\ Taken(charge[row.ref])
  /\ row.state \in PaymentOnRecord =>
       /\ row.ref # None
       /\ row.matched <=> row.ref \notin drifted
       /\ row.paidAt \in Nat /\ row.paidAt <= clock
  /\ row.state = "confirmed" => ExactSessions(i) # {} /\ DelayElapsed(row, clock)
  /\ row.state = "reversed" => \E s \in Session : s.id = i /\ GivenBack(charge[s])

RowsSound == \A i \in Ids : RowSound(rows[i], i)

(* How far a row can have moved since it was read: its payment is recorded *)
(* once, and a final state stays.                                          *)
Moved(old, new) ==
  /\ old.state \in PaymentOnRecord \cup {"reversed"} =>
       new.paidAt = old.paidAt /\ new.ref = old.ref /\ new.matched = old.matched
  /\ old.state = "paid" => new.state \in PaymentOnRecord \cup {"reversed"}
  /\ old.state \in {"confirmed", "reversed"} => new.state = old.state

SnapSound(snap, i) == RowSound(snap, i) /\ Moved(snap, rows[i])

(* Where a task holds a snapshot, and where it is after a promotion. *)
OnRow == {"begin", "pull", "capture", "apply", "reread", "confirm"}
Promoting == {"pull", "capture", "apply", "confirm"}

PullSound(task) ==
  LET s == task.snap.session IN
  task.got \in PaidOutcomes =>
    s # None /\ Taken(charge[s]) /\ (task.got = "matched" <=> s \notin drifted)

PromotionSound(task) ==
  /\ rows[task.id].state \in PaymentOnRecord \cup {"reversed"}
  /\ DelayElapsed(rows[task.id], task.now)

(* The row a "confirmed" is answered for. *)
ConfirmedEarned(i) ==
  /\ rows[i].state \in {"confirmed", "reversed"}
  /\ ExactSessions(i) # {} /\ DelayElapsed(rows[i], clock)

EventSound(task) ==
  LET s == task.event.session IN
  /\ task.pc = "verify" /\ task.event.type = "dispute" => GivenBack(charge[s])
  /\ task.pc \in {"find", "reverse"} => GivenBack(charge[s])
  /\ task.pc = "reverse" => task.id = s.id

TaskSound(task) ==
  /\ task.now <= clock
  /\ task.pc \in {"begin", "hint"} => ~task.promoting
  /\ task.pc \in OnRow => SnapSound(task.snap, task.id)
  /\ task.pc = "capture" => task.snap.session # None
  /\ task.pc \in {"apply", "reread", "confirm"} => PullSound(task)
  /\ task.pc = "apply" => task.got \in PaidOutcomes
  /\ task.pc = "reread" /\ task.op # "status" => task.got = "matched"
  /\ task.pc \in Promoting /\ task.promoting => PromotionSound(task)
  /\ task.pc = "confirm" => task.got = "matched" /\ PromotionSound(task)
  /\ task.pc = "reply" /\ task.reply = "confirmed" => ConfirmedEarned(task.id)
  /\ EventSound(task)
  /\ \A item \in task.batch : SnapSound(item.row, item.id)

TasksSound ==
  /\ \A p \in Procs : TaskSound(proc[p])
  /\ proc[Worker].op \in {"idle", "worker"}

(* No handler, and no row, knows anything that is not so (all of           *)
(* verification.rs, worker.rs, and the webhook handlers of http.rs).       *)
NothingFalseHeld == Types /\ RowsSound /\ TasksSound

-----------------------------------------------------------------------------
(* A refund, if there was one, came at `t` or later. *)
NotRefundedBefore(s, t) == refundedAt[s] # None => refundedAt[s] >= t

RowKept(row, i) ==
  /\ row.state # "absent"
  /\ row.session \in Session /\ BoundProcessor(row) = row.session.kind
  /\ row.ref \in {None, row.session}
  /\ row.state = "confirmed" =>
       /\ row.matched
       /\ row.session.kind = "paypal" =>
            NotRefundedBefore(row.session, row.paidAt + SettlementDelay)

SnapKept(snap, i) ==
  snap.session = rows[i].session /\ snap.processor = rows[i].processor

(* A PayPal payment the pull established had not been refunded by then. *)
TaskKept(task) ==
  /\ task.pc \in OnRow => SnapKept(task.snap, task.id)
  /\ \A item \in task.batch : SnapKept(item.row, item.id)
  /\ task.pc \in {"apply", "reread", "confirm"} /\ task.got \in PaidOutcomes
       /\ task.snap.session.kind = "paypal" =>
         NotRefundedBefore(task.snap.session, task.now)

(* While nothing is minted, a row, every snapshot of it and every payment  *)
(* recorded on it are about one session, whose refunds come in time        *)
(* (verification.rs, bound_processor and pull_paypal; worker.rs).          *)
SessionKept ==
  /\ \A i \in Ids : RowKept(rows[i], i)
  /\ \A p \in Procs : TaskKept(proc[p])
  /\ \A s \in Session :
       refundedAt[s] # None => charge[s] = "refunded" /\ refundedAt[s] <= clock

(* As long as no call fails, an accepted PayPal refund is being handled or *)
(* has taken effect (http.rs, paypal_webhook).                             *)
Handling(p, e) == proc[p].event = e /\ proc[p].pc \in {"verify", "find", "reverse"}

RefundsUnderWay ==
  faults = 0 => \A e \in seen :
    e.type = "refund" /\ e.session.kind = "paypal" =>
      /\ CaptureReversed(charge[e.session])
      /\ \/ \E p \in Procs : Handling(p, e)
         \/ rows[e.session.id].state \in {"reversed", "confirmed"}
=============================================================================
