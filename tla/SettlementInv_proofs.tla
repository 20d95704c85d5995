------------------------ MODULE SettlementInv_proofs ------------------------
(***************************************************************************)
(* Settlement's safety properties, from the inductive invariant of         *)
(* SettlementInv.  The argument: the processor's books and the rows only   *)
(* grow (Grows), so that whatever a handler learned stays true while it is *)
(* suspended (RowFrame, SnapFrame, TaskFrame); what is left to show is     *)
(* that each step leaves its own actor with nothing false, and writes only *)
(* what that actor knows.                                                  *)
(***************************************************************************)
EXTENDS SettlementInv, Settlement_proofs

Grows ==
  /\ drifted' = drifted
  /\ clock' \in Nat /\ clock' >= clock
  /\ \A s \in Session : /\ Taken(charge[s]) => Taken(charge'[s])
                        /\ GivenBack(charge[s]) => GivenBack(charge'[s])
  /\ \A i \in Ids : Moved(rows[i], rows'[i])

-----------------------------------------------------------------------------
(* Knowledge lasts.                                                        *)

(* A row has moved nowhere, or as far as its updates together. *)
LEMMA MovedTwice ==
  ASSUME NEW a, NEW b, NEW c, Moved(a, b), Moved(b, c) PROVE Moved(a, c)
  BY DEF Moved, PaymentOnRecord

(* mark_paid, mark_confirmed and mark_reversed only move a row forward. *)
LEMMA MarksMove ==
  ASSUME NEW row \in Row, NEW matched, NEW ref, NEW at
  PROVE  /\ Moved(row, row)
         /\ Moved(row, MarkPaid(row, matched, ref, at))
         /\ Moved(row, MarkConfirmed(row))
         /\ Moved(row, MarkReversed(row))
  BY DEF Moved, PaymentOnRecord, MarkPaid, MarkConfirmed, MarkReversed, Row

(* A delay that has elapsed has elapsed. *)
LEMMA ElapsedFrame ==
  ASSUME NEW row \in Row, NEW now \in Nat, NEW later \in Nat, later >= now,
         DelayElapsed(row, now)
  PROVE  DelayElapsed(row, later)
  <1>1. row.paidAt \in Nat
    BY DEF DelayElapsed, Row
  <1> QED
    BY <1>1, SettlementDelayAssumption DEF DelayElapsed

(* The right money, once taken, has been taken. *)
LEMMA ExactFrame ==
  ASSUME Grows, NEW i \in Ids, ExactSessions(i) # {} PROVE (ExactSessions(i) # {})'
  BY DEF Grows, ExactSessions, PaidSessions

(* A sound row stays sound. *)
LEMMA RowFrame ==
  ASSUME Types, Grows, NEW row \in Row, NEW i \in Ids, RowSound(row, i)
  PROVE  RowSound(row, i)'
  <1>1. (row.ref # None => row.ref.id = i /\ Taken(charge[row.ref]))'
    BY DEF RowSound, Grows, Row
  <1>2. row.state = "confirmed" => (ExactSessions(i) # {} /\ DelayElapsed(row, clock))'
    BY ElapsedFrame, ExactFrame DEF RowSound, Grows, Types
  <1>3. row.state \in PaymentOnRecord =>
          (/\ row.ref # None /\ row.matched <=> row.ref \notin drifted
           /\ row.paidAt \in Nat /\ row.paidAt <= clock)'
    BY DEF RowSound, Grows, Types
  <1>4. (row.state = "reversed" => \E s \in Session : s.id = i /\ GivenBack(charge[s]))'
    BY DEF RowSound, Grows
  <1> QED
    BY <1>1, <1>2, <1>3, <1>4 DEF RowSound

(* A sound snapshot stays sound. *)
LEMMA SnapFrame ==
  ASSUME Types, Grows, NEW snap \in Row, NEW i \in Ids, SnapSound(snap, i)
  PROVE  SnapSound(snap, i)'
  <1>1. RowSound(snap, i)'
    BY RowFrame DEF SnapSound
  <1>2. Moved(rows[i], rows'[i]) /\ Moved(snap, rows[i])
    BY DEF Grows, SnapSound
  <1>3. Moved(snap, rows'[i])
    BY <1>2, MovedTwice
  <1> QED
    BY <1>1, <1>3 DEF SnapSound

(* A row as it is now is a sound snapshot of itself. *)
LEMMA SnapNow ==
  ASSUME Types, RowsSound, NEW i \in Ids PROVE SnapSound(rows[i], i)
  BY MarksMove DEF Types, RowsSound, SnapSound

(* An earned answer stays earned. *)
LEMMA ConfirmedEarnedFrame ==
  ASSUME Types, Grows, NEW i \in Ids, ConfirmedEarned(i)
  PROVE  ConfirmedEarned(i)'
  <1>1. /\ rows'[i].state = rows[i].state /\ rows'[i].paidAt = rows[i].paidAt
        /\ rows[i] \in Row
    BY DEF ConfirmedEarned, Grows, Moved, PaymentOnRecord, Types
  <1>2. DelayElapsed(rows[i], clock')
    BY <1>1, ElapsedFrame DEF ConfirmedEarned, Grows, Types
  <1> QED
    BY <1>1, <1>2, ExactFrame DEF ConfirmedEarned, DelayElapsed

(* A promotion under way stays due. *)
LEMMA PromotionFrame ==
  ASSUME Grows, NEW task, task.id \in Ids, PromotionSound(task)
  PROVE  PromotionSound(task)'
  BY DEF Grows, Moved, PromotionSound, PaymentOnRecord, DelayElapsed

(* A handler that does nothing goes on holding nothing false. *)
LEMMA TaskFrame ==
  ASSUME Types, RowsSound, Grows, NEW task \in Task, TaskSound(task)
  PROVE  TaskSound(task)'
  <1>1. /\ task.snap \in Row /\ task.now \in Nat
        /\ task.batch \subseteq [id : Ids, row : Row]
        /\ task.pc \in OnRow \cup {"reply", "reverse"} => task.id \in Ids
    BY DEF Task, TaskRecord, OnRow
  <1>2. (task.now <= clock)'
    BY <1>1 DEF TaskSound, Grows, Types
  <1>3. (task.pc \in OnRow => SnapSound(task.snap, task.id))'
    BY <1>1, SnapFrame DEF TaskSound
  <1>4. (task.pc \in {"apply", "reread", "confirm"} => PullSound(task))'
    BY <1>1 DEF TaskSound, PullSound, Grows, Row
  <1>5. (task.pc = "reply" /\ task.reply = "confirmed" => ConfirmedEarned(task.id))'
    BY <1>1, ConfirmedEarnedFrame DEF TaskSound
  <1>6. EventSound(task)'
    BY DEF TaskSound, EventSound, Grows, Task, Event
  <1>7. (\A item \in task.batch : SnapSound(item.row, item.id))'
    <2>1. ASSUME NEW item \in task.batch PROVE SnapSound(item.row, item.id)'
      <3>1. item.row \in Row /\ item.id \in Ids /\ SnapSound(item.row, item.id)
        BY <1>1 DEF TaskSound
      <3> QED
        BY <3>1, SnapFrame
    <2> QED
      BY <2>1
  <1>8. /\ (task.pc \in Promoting /\ task.promoting => PromotionSound(task))'
        /\ (task.pc = "confirm" => task.got = "matched" /\ PromotionSound(task))'
    BY <1>1, PromotionFrame DEF TaskSound, Promoting, OnRow
  <1> QED
    BY <1>2, <1>3, <1>4, <1>5, <1>6, <1>7, <1>8 DEF TaskSound
-----------------------------------------------------------------------------
(* The books and the rows only grow.                                       *)

(* Nothing moves a row that is not written. *)
LEMMA RowsKept == ASSUME Types, UNCHANGED rows PROVE \A i \in Ids : Moved(rows[i], rows'[i])
  BY MarksMove DEF Types

(* One row is written, by one of the three updates. *)
LEMMA OneRowMoves ==
  ASSUME Types, NEW i \in Ids, NEW new, Moved(rows[i], new),
         rows' = [rows EXCEPT ![i] = new] \/ UNCHANGED rows
  PROVE  \A j \in Ids : Moved(rows[j], rows'[j])
  BY MarksMove DEF Types

(* What buyers, processors and the clock do. *)
LEMMA SurroundingsGrows == ASSUME Types, Surroundings PROVE Grows
  <1>1. \A i \in Ids : Moved(rows[i], rows'[i])
    <2>1. UNCHANGED rows
      BY DEF Surroundings, Tick, Restarted, Pay, Approve, AutoCapture, CaptureSettles, Refund,
             Dispute, ChargeMoves, store
    <2> QED
      BY <2>1, RowsKept
  <1>2. drifted' = drifted
    BY DEF Surroundings, Tick, Restarted, Pay, Approve, AutoCapture, CaptureSettles, Refund,
           Dispute, ChargeMoves, processors
  <1>3. clock' \in Nat /\ clock' >= clock
    BY DEF Types, Surroundings, Tick, Restarted, Pay, Approve, AutoCapture, CaptureSettles,
           Refund, Dispute, ChargeMoves
  <1>4. \A s \in Session : /\ Taken(charge[s]) => Taken(charge'[s])
                           /\ GivenBack(charge[s]) => GivenBack(charge'[s])
    BY DEF Types, Surroundings, Tick, Restarted, Pay, Approve, AutoCapture, CaptureSettles,
           Refund, Dispute, ChargeMoves, processors, Taken, GivenBack
  <1> QED
    BY <1>1, <1>2, <1>3, <1>4 DEF Grows

(* A pull only captures what was approved and marks what was created. *)
LEMMA PullGrows == ASSUME Types, NEW p \in Procs, PullStep(p) PROVE Grows
  <1>1. drifted' = drifted /\ clock' \in Nat /\ clock' >= clock
    BY DEF Types, PullStep, Pull, Capture, Apply, processors
  <1>2. \A s \in Session : /\ Taken(charge[s]) => Taken(charge'[s])
                           /\ GivenBack(charge[s]) => GivenBack(charge'[s])
    BY DEF Types, PullStep, Pull, Capture, Apply, processors, Taken, GivenBack
  <1>3. \A i \in Ids : Moved(rows[i], rows'[i])
    <2>1. CASE UNCHANGED rows
      BY <2>1, RowsKept
    <2>2. CASE Apply(p)
      <3>1. proc[p].id \in Ids
        BY <2>2 DEF Apply, At, Types, Task
      <3>2. rows[proc[p].id] \in Row
        BY <3>1 DEF Types
      <3> DEFINE new == MarkPaid(rows[proc[p].id], proc[p].got = "matched",
                                 proc[p].snap.session, proc[p].now)
      <3>3. Moved(rows[proc[p].id], new)
        BY <3>2, MarksMove
      <3>4. rows' = [rows EXCEPT ![proc[p].id] = new] \/ UNCHANGED rows
        BY <2>2 DEF Apply
      <3> HIDE DEF new
      <3> QED
        BY <3>1, <3>3, <3>4, OneRowMoves
    <2> QED
      BY <2>1, <2>2 DEF PullStep, Pull, Capture, store
  <1> QED
    BY <1>1, <1>2, <1>3 DEF Grows

(* The other steps leave the processors and the clock alone. *)
LEMMA OnlyRowsGrow ==
  ASSUME Types, UNCHANGED <<charge, drifted, clock>>,
         \A i \in Ids : Moved(rows[i], rows'[i])
  PROVE  Grows
  BY DEF Types, Grows

(* A confirmation or a reversal moves its row forward. *)
LEMMA MarkGrows ==
  ASSUME Types, NEW p \in Procs,
         \/ StatusConfirm(p)
         \/ p = Worker /\ WorkerConfirm
         \/ Reverse(p)
  PROVE  Grows
  <1>1. proc[p].id \in Ids
    BY DEF StatusConfirm, WorkerConfirm, Reverse, At, Types, Task
  <1>2. rows[proc[p].id] \in Row
    BY <1>1 DEF Types
  <1>3. \A i \in Ids : Moved(rows[i], rows'[i])
    BY <1>1, <1>2, MarksMove, OneRowMoves DEF StatusConfirm, WorkerConfirm, Reverse
  <1>4. UNCHANGED <<charge, drifted, clock>>
    BY DEF StatusConfirm, WorkerConfirm, Reverse, processors
  <1> QED
    BY <1>3, <1>4, OnlyRowsGrow

(* Every step. *)
LEMMA StepGrows == ASSUME Types, AnyStep PROVE Grows
  <1>1. CASE UNCHANGED <<rows, charge, drifted, clock>>
    BY <1>1, RowsKept, OnlyRowsGrow
  <1>2. CASE Surroundings
    BY <1>2, SurroundingsGrows
  <1>3. ASSUME NEW p \in Procs, PullStep(p) PROVE Grows
    BY <1>3, PullGrows
  <1>4. ASSUME NEW p \in Procs,
               StatusConfirm(p) \/ (p = Worker /\ WorkerConfirm) \/ Reverse(p)
        PROVE  Grows
    BY <1>4, MarkGrows
  <1>5. CASE WorkerStep
    BY <1>1, <1>3, <1>4, <1>5
    DEF WorkerStep, WorkerList, WorkerNext, WorkerReread, store, processors, Procs
  <1>6. ASSUME NEW h \in Handlers, Serves(h) PROVE Grows
    <2>1. h \in Procs
      BY DEF Procs
    <2>2. CASE (\E i \in Ids : StatusRead(h, i)) \/ StatusBegin(h) \/ StatusReread(h)
               \/ StatusReply(h)
      BY <1>1, <2>2 DEF StatusRead, StatusBegin, StatusReread, StatusReply, store, processors
    <2>3. CASE HintRead(h) \/ ReversalVerify(h) \/ HangUp(h)
      BY <1>1, <2>3 DEF HintRead, ReversalVerify, HangUp, store, processors
    <2>4. CASE ReversalFind(h)
      BY <1>1, <2>4 DEF ReversalFind, store, processors
    <2>5. CASE \E e \in Event : Deliver(h, e)
      BY <1>1, <2>5 DEF Deliver, processors
    <2> QED
      BY <1>3, <1>4, <1>6, <2>1, <2>2, <2>3, <2>4, <2>5
      DEF Serves, StatusStep, WebhookStep
  <1> QED
    BY <1>2, <1>5, <1>6 DEF AnyStep
-----------------------------------------------------------------------------
(* What is written to a row is so.                                         *)

(* A handler's task and its parts. *)
LEMMA TaskParts ==
  ASSUME Types, NEW p \in Procs
  PROVE  /\ proc[p] \in Task
         /\ proc[p].snap \in Row /\ proc[p].now \in Nat /\ proc[p].got \in Outcomes
         /\ proc[p].batch \subseteq [id : Ids, row : Row]
         /\ proc[p].pc \in OnRow \cup {"reply", "reverse"} => proc[p].id \in Ids
         /\ proc[p].pc \in {"hint", "verify", "find", "reverse"} =>
              /\ proc[p].event \in Event /\ proc[p].event.session \in Session
              /\ proc[p].event.session.id \in Ids
  BY DEF Types, Task, TaskRecord, OnRow, Event, Session

(* If every row is left alone or rewritten to a sound one, all are sound. *)
LEMMA RowsFrame ==
  ASSUME Types, RowsSound, Grows, NEW i \in Ids, NEW new,
         rows' = [rows EXCEPT ![i] = new] \/ UNCHANGED rows,
         rows' = [rows EXCEPT ![i] = new] => RowSound(new, i)'
  PROVE  RowsSound'
  <1>1. ASSUME NEW j \in Ids PROVE RowSound(rows[j], j)'
    <2>1. RowSound(rows[j], j) /\ rows[j] \in Row
      BY DEF RowsSound, Types
    <2>2. CASE rows'[j] = rows[j]
      BY <2>1, <2>2, RowFrame
    <2>3. CASE rows'[j] # rows[j]
      <3>1. j = i /\ rows'[j] = new /\ rows' = [rows EXCEPT ![i] = new]
        BY <2>3 DEF Types
      <3> QED
        BY <3>1
    <2> QED
      BY <2>2, <2>3
  <1> QED
    BY <1>1 DEF RowsSound

(* A detection: the pull established it, with a now that is past. *)
LEMMA ApplySound ==
  ASSUME Types, RowsSound, Grows, NEW p \in Procs, TaskSound(proc[p]), Apply(p)
  PROVE  RowsSound'
  <1> DEFINE task == proc[p]
  <1>0. At(p, "apply") /\ task.id \in Ids
    BY TaskParts DEF Apply, At, OnRow
  <1> PICK i \in Ids : i = task.id
    BY <1>0
  <1> DEFINE row == rows[i]
  <1>1. row \in Row /\ RowSound(row, i)
    BY DEF RowsSound, Types
  <1> DEFINE s == task.snap.session
  <1>2. /\ task.now \in Nat /\ task.now <= clock /\ clock \in Nat
        /\ s # None /\ s.id = i /\ Taken(charge[s])
        /\ task.got = "matched" <=> s \notin drifted
    BY <1>0, TaskParts DEF At, TaskSound, SnapSound, RowSound, PullSound, OnRow, Types
  <1>3. MarkPaid(row, task.got = "matched", task.snap.session, task.now) \in Row
    <2>1. task.snap.session \in Session \cup {None}
      BY TaskParts DEF Row
    <2> QED
      BY <1>1, <1>2, <2>1, MarkPaidType
  <1> PICK new \in Row :
        new = MarkPaid(row, task.got = "matched", task.snap.session, task.now)
    BY <1>3
  <1>4. RowSound(new, i)
    <2>1. CASE row.state # "created"
      BY <1>1, <2>1 DEF MarkPaid
    <2>2. CASE row.state = "created"
      <3>2. new = [row EXCEPT !.state = "paid", !.matched = (task.got = "matched"),
                              !.ref = s, !.paidAt = task.now]
        BY <1>2, <2>2 DEF MarkPaid
      <3>3. /\ new.session = row.session /\ new.state = "paid" /\ new.ref = s
            /\ new.paidAt = task.now /\ new.matched = (task.got = "matched")
        BY <1>1, <3>2 DEF Row
      <3> QED
        BY <1>1, <1>2, <3>3 DEF RowSound, PaymentOnRecord
    <2> QED
      BY <2>1, <2>2
  <1>5. RowSound(new, i)'
    BY <1>4, RowFrame
  <1>6. rows' = [rows EXCEPT ![i] = new] \/ UNCHANGED rows
    BY DEF Apply
  <1> QED
    BY <1>5, <1>6, RowsFrame

(* A confirmation is only attempted of a row that earned it. *)
LEMMA ConfirmEarned ==
  ASSUME Types, RowsSound, NEW p \in Procs, TaskSound(proc[p]), At(p, "confirm")
  PROVE  LET i == proc[p].id IN
         /\ i \in Ids
         /\ rows[i].state \in {"paid", "confirmed", "reversed"}
         /\ ExactSessions(i) # {}
         /\ DelayElapsed(rows[i], clock)
  <1> DEFINE task == proc[p]
             s == task.snap.session
  <1>1. task.id \in Ids /\ task.snap \in Row /\ task.now \in Nat /\ clock \in Nat
    BY TaskParts DEF At, OnRow, Types
  <1>2. /\ task.now <= clock /\ SnapSound(task.snap, task.id) /\ PullSound(task)
        /\ task.got = "matched" /\ PromotionSound(task)
    BY DEF At, TaskSound, OnRow
  <1>3. s \in Session /\ s.id = task.id /\ Taken(charge[s]) /\ s \notin drifted
    BY <1>1, <1>2 DEF PullSound, PaidOutcomes, SnapSound, RowSound, Row
  <1>4. ExactSessions(task.id) # {}
    BY <1>3 DEF ExactSessions, PaidSessions
  <1>5. DelayElapsed(rows[task.id], clock)
    BY <1>1, <1>2, ElapsedFrame DEF PromotionSound, Types
  <1> QED
    BY <1>1, <1>2, <1>4, <1>5 DEF PromotionSound, PaymentOnRecord

(* A confirmation: the pull said paid and matched, after the delay. *)
LEMMA ConfirmSound ==
  ASSUME Types, RowsSound, Grows, NEW p \in Procs, TaskSound(proc[p]), At(p, "confirm"),
         \/ rows' = [rows EXCEPT ![proc[p].id] = MarkConfirmed(@)]
         \/ UNCHANGED rows
  PROVE  RowsSound'
  <1> PICK i \in Ids : i = proc[p].id
    BY ConfirmEarned
  <1> PICK row \in Row : row = rows[i]
    BY DEF Types
  <1> PICK new \in Row : new = MarkConfirmed(row)
    BY MarkConfirmedType
  <1>1. RowSound(row, i)
    BY DEF RowsSound
  <1>2. /\ row.state \in {"paid", "confirmed", "reversed"}
        /\ ExactSessions(i) # {} /\ DelayElapsed(row, clock)
    BY ConfirmEarned
  <1>3. RowSound(new, i)
    <2>1. CASE row.state # "paid"
      BY <1>1, <2>1 DEF MarkConfirmed
    <2>2. CASE row.state = "paid"
      <3>1. /\ new.state = "confirmed" /\ new.session = row.session /\ new.ref = row.ref
            /\ new.paidAt = row.paidAt /\ new.matched = row.matched
        BY <2>2 DEF MarkConfirmed, Row
      <3> QED
        BY <1>1, <1>2, <2>2, <3>1 DEF RowSound, PaymentOnRecord, DelayElapsed
    <2> QED
      BY <2>1, <2>2
  <1>4. RowSound(new, i)'
    BY <1>3, RowFrame
  <1>5. rows' = [rows EXCEPT ![i] = new] \/ UNCHANGED rows
    OBVIOUS
  <1> QED
    BY <1>4, <1>5, RowsFrame

(* An answer "confirmed" is earned once its row was written. *)
LEMMA ConfirmAnswer ==
  ASSUME Types, RowsSound, Grows, NEW p \in Procs, TaskSound(proc[p]), At(p, "confirm"),
         rows' = [rows EXCEPT ![proc[p].id] = MarkConfirmed(@)]
  PROVE  \E i \in Ids : i = proc[p].id /\ ConfirmedEarned(i)'
  <1> PICK i \in Ids : i = proc[p].id
    BY ConfirmEarned
  <1>1. /\ rows[i].state \in {"paid", "confirmed", "reversed"}
        /\ ExactSessions(i) # {} /\ DelayElapsed(rows[i], clock)
    BY ConfirmEarned
  <1>2. rows[i] \in Row /\ rows'[i] = MarkConfirmed(rows[i])
    BY DEF Types
  <1>3. rows'[i].state \in {"confirmed", "reversed"} /\ rows'[i].paidAt = rows[i].paidAt
    BY <1>1, <1>2 DEF MarkConfirmed, Row
  <1>4. DelayElapsed(rows[i], clock')
    BY <1>1, <1>2, ElapsedFrame DEF Grows, Types
  <1>5. ConfirmedEarned(i)'
    BY <1>1, <1>3, <1>4, ExactFrame DEF ConfirmedEarned, DelayElapsed
  <1> QED
    BY <1>5

(* A reversal: the webhook was corroborated. *)
LEMMA ReverseSound ==
  ASSUME Types, RowsSound, Grows, NEW p \in Procs, TaskSound(proc[p]), Reverse(p)
  PROVE  RowsSound'
  <1> DEFINE s == proc[p].event.session
  <1>1. s \in Session /\ GivenBack(charge[s]) /\ proc[p].id = s.id /\ s.id \in Ids
    BY TaskParts DEF Reverse, At, TaskSound, EventSound
  <1> PICK i \in Ids : i = proc[p].id
    BY <1>1
  <1> PICK row \in Row : row = rows[i]
    BY DEF Types
  <1> PICK new \in Row : new = MarkReversed(row)
    BY MarkReversedType
  <1>2. RowSound(row, i)
    BY DEF RowsSound
  <1>3. RowSound(new, i)
    <2>1. CASE row.state \notin {"created", "paid"}
      BY <1>2, <2>1 DEF MarkReversed
    <2>2. CASE row.state \in {"created", "paid"}
      <3>1. new.state = "reversed" /\ new.session = row.session /\ new.ref = row.ref
        BY <2>2 DEF MarkReversed, Row
      <3> QED
        BY <1>1, <1>2, <3>1 DEF RowSound, PaymentOnRecord
    <2> QED
      BY <2>1, <2>2
  <1>4. RowSound(new, i)'
    BY <1>3, RowFrame
  <1>5. rows' = [rows EXCEPT ![i] = new] \/ UNCHANGED rows
    BY DEF Reverse
  <1> QED
    BY <1>4, <1>5, RowsFrame
-----------------------------------------------------------------------------
(* What a step leaves its actor with is so.                                *)

(* What a handler on a row holds, apart from the outcome of its pull. *)
Holding(task) ==
  /\ task.now <= clock
  /\ SnapSound(task.snap, task.id)
  /\ task.promoting => PromotionSound(task)
  /\ \A item \in task.batch : SnapSound(item.row, item.id)

(* What is needed of a handler's own step. *)
LeavesSound(p) == \E t \in Task : Becomes(p, t) /\ TaskSound(t)'

(* A handler at a pull holds what it needs for it. *)
LEMMA PullHolding ==
  ASSUME NEW task \in Task, TaskSound(task), task.pc \in Promoting
  PROVE  Holding(task)
  BY DEF TaskSound, Holding, Promoting, OnRow

(* What a handler holds on a row stays so. *)
LEMMA HoldingFrame ==
  ASSUME Types, Grows, NEW task \in Task, task.id \in Ids, Holding(task)
  PROVE  Holding(task)'
  <1>1. /\ task.snap \in Row /\ task.now \in Nat
        /\ task.batch \subseteq [id : Ids, row : Row]
    BY DEF Task, TaskRecord
  <1>2. (task.now <= clock)'
    BY <1>1 DEF Holding, Grows, Types
  <1>3. SnapSound(task.snap, task.id)'
    BY <1>1, SnapFrame DEF Holding
  <1>4. ASSUME NEW item \in task.batch PROVE SnapSound(item.row, item.id)'
    <2>1. item.row \in Row /\ item.id \in Ids /\ SnapSound(item.row, item.id)
      BY <1>1 DEF Holding
    <2> QED
      BY <2>1, SnapFrame
  <1>5. (task.promoting => PromotionSound(task))'
    BY PromotionFrame DEF Holding
  <1> QED
    BY <1>2, <1>3, <1>4, <1>5 DEF Holding

(* An idle handler holds nothing. *)
LEMMA IdleSound == ASSUME clock \in Nat PROVE TaskSound(Idle)
  BY DEF Idle, TaskSound, EventSound, OnRow, Promoting

(* Nor does one about to answer, unless the answer is "confirmed". *)
LEMMA AnsweringSound ==
  ASSUME clock \in Nat, NEW task \in Task, NEW reply,
         reply = "confirmed" => ConfirmedEarned(task.id)
  PROVE  TaskSound(Answering(task, reply))
  BY DEF Answering, Idle, TaskSound, EventSound, OnRow, Promoting

(* The worker between two rows holds its batch. *)
LEMMA NextRowSound ==
  ASSUME clock \in Nat, NEW task \in Task,
         \A item \in task.batch : SnapSound(item.row, item.id)
  PROVE  TaskSound(NextRow(task))
  BY DEF NextRow, Idle, TaskSound, EventSound, OnRow, Promoting

(* Going on after a pull, on what the pull established. *)
LEMMA ResumeSound ==
  ASSUME Types, RowsSound, Grows, NEW task \in Task, task.id \in Ids,
         Holding(task), PullSound(task)'
  PROVE  TaskSound(Resume(task))'
  <1>0. clock \in Nat /\ Holding(task)'
    BY HoldingFrame DEF Types
  <1>1. ASSUME NEW pc \in {"reread", "confirm"},
               pc = "reread" => task.op = "status" \/ task.got = "matched",
               pc = "confirm" => task.got = "matched" /\ task.promoting
        PROVE  TaskSound([task EXCEPT !.pc = pc])'
    BY <1>0, <1>1 DEF Task, TaskRecord, Holding, TaskSound, PullSound, EventSound,
       PromotionSound, OnRow, Promoting
  <1>2. TaskSound(NextRow(task))'
    BY <1>0, NextRowSound, NextRowType, TaskFrame DEF Holding
  <1>3. TaskSound(Answering(task, "detected"))'
    BY <1>0, AnsweringSound, AnsweringType, TaskFrame DEF Reports
  <1>4. TaskSound(Idle)'
    BY <1>0, IdleSound, IdleType, TaskFrame
  <1> QED
    BY <1>1, <1>2, <1>3, <1>4 DEF Resume

(* The outcome of a pull, to be written or acted upon. *)
LEMMA PulledSound ==
  ASSUME Types, RowsSound, Grows, NEW task \in Task, task.id \in Ids, Holding(task),
         NEW outcome \in Outcomes, PullSound([task EXCEPT !.got = outcome])'
  PROVE  TaskSound(Pulled(task, outcome))'
  <1> PICK done \in Task : done = [task EXCEPT !.got = outcome]
    BY DEF Task, TaskRecord
  <1>1. /\ done.id = task.id /\ done.snap = task.snap /\ done.now = task.now
        /\ done.batch = task.batch /\ done.promoting = task.promoting
        /\ done.got = outcome
    BY DEF Task, TaskRecord
  <1>2. Holding(done) /\ PullSound(done)'
    BY <1>1 DEF Holding, PromotionSound
  <1>3. TaskSound(Resume(done))'
    BY <1>1, <1>2, ResumeSound
  <1>4. ASSUME outcome \in PaidOutcomes PROVE TaskSound([done EXCEPT !.pc = "apply"])'
    <2>1. Holding(done)'
      BY <1>1, <1>2, HoldingFrame
    <2> QED
      BY <1>1, <1>2, <1>4, <2>1
      DEF Task, TaskRecord, Holding, TaskSound, PullSound, EventSound, PromotionSound,
          OnRow, Promoting
  <1> QED
    BY <1>3, <1>4 DEF Pulled

(* A step after which the actor holds nothing false, in view of the state  *)
(* it was taken in.                                                        *)
LEMMA LeavesOld ==
  ASSUME Types, RowsSound, Grows, NEW p \in Procs, NEW t \in Task, TaskSound(t),
         Becomes(p, t)
  PROVE  LeavesSound(p)
  BY TaskFrame DEF LeavesSound

(* retrieve_session, retrieve_order: paid means the money was taken, and   *)
(* matched that it was the right money.                                    *)
LEMMA PullLeaves ==
  ASSUME Types, RowsSound, Grows, NEW p \in Procs, TaskSound(proc[p]), Pull(p)
  PROVE  LeavesSound(p)
  <1> PICK task \in Task : task = proc[p]
    BY TaskParts
  <1> DEFINE s == task.snap.session
             kind == BoundProcessor(task.snap)
  <1>1. task.pc = "pull" /\ task.id \in Ids
    BY TaskParts DEF Pull, At, OnRow
  <1>2. TaskSound(task) /\ Holding(task)
    BY <1>1, PullHolding DEF Promoting
  <1>3. s # None => s \in Session
    BY DEF Task, TaskRecord, Row
  <1>4. ASSUME NEW outcome \in Outcomes,
               outcome \in PaidOutcomes =>
                 /\ s # None /\ Taken(charge[s])
                 /\ outcome = "matched" <=> s \notin drifted,
               Becomes(p, Pulled(task, outcome))
        PROVE  LeavesSound(p)
    <2>1. PullSound([task EXCEPT !.got = outcome])'
      BY <1>3, <1>4 DEF PullSound, Grows, Task, TaskRecord
    <2> QED
      BY <1>1, <1>2, <1>4, <2>1, PulledSound, PulledType DEF LeavesSound
  <1>5. CASE s # None /\ Becomes(p, [task EXCEPT !.pc = "capture"])
    <2>1. TaskSound([task EXCEPT !.pc = "capture"])
      BY <1>1, <1>2, <1>5 DEF TaskSound, EventSound, PromotionSound, OnRow, Promoting,
         Task, TaskRecord
    <2>2. [task EXCEPT !.pc = "capture"] \in Task
      BY <1>1, PullPoints
    <2> QED
      BY <1>5, <2>1, <2>2, LeavesOld
  <1>6. CASE Becomes(p, Pulled(task, "unpaid")) \/ Becomes(p, Pulled(task, "unavailable"))
    BY <1>4, <1>6 DEF Outcomes, PaidOutcomes
  <1>7. CASE s # None /\ Becomes(p, Pulled(task, Verdict(kind, charge[s], s \notin drifted)))
    <2> DEFINE outcome == Verdict(kind, charge[s], s \notin drifted)
    <2>1. outcome \in Outcomes
      BY VerdictType
    <2>2. outcome \in PaidOutcomes =>
            Taken(charge[s]) /\ (outcome = "matched" <=> s \notin drifted)
      BY DEF Verdict, StripeVerdict, PaypalVerdict, Paid, PaidOutcomes, Taken
    <2> QED
      BY <1>4, <1>7, <2>1, <2>2
  <1>8. \/ s # None /\ Becomes(p, [task EXCEPT !.pc = "capture"])
        \/ Becomes(p, Pulled(task, "unpaid")) \/ Becomes(p, Pulled(task, "unavailable"))
        \/ s # None /\ Becomes(p, Pulled(task, Verdict(kind, charge[s], s \notin drifted)))
    BY DEF Pull
  <1> QED
    BY <1>5, <1>6, <1>7, <1>8

(* capture_order answers for the state it leaves the order in. *)
LEMMA CaptureLeaves ==
  ASSUME Types, RowsSound, Grows, NEW p \in Procs, TaskSound(proc[p]), Capture(p)
  PROVE  LeavesSound(p)
  <1> PICK task \in Task : task = proc[p]
    BY TaskParts
  <1> DEFINE s == task.snap.session
             Judge(status) == PaypalVerdict(status, s \notin drifted)
  <1>1. task.pc = "capture" /\ task.id \in Ids
    BY TaskParts DEF Capture, At, OnRow
  <1>2. TaskSound(task) /\ Holding(task)
    BY <1>1, PullHolding DEF Promoting
  <1>3. s # None /\ s \in Session /\ charge \in [Session -> ChargeStates]
    BY <1>1, <1>2 DEF TaskSound, Types, Task, TaskRecord, Row
  <1>4. ASSUME NEW outcome \in Outcomes,
               outcome \in PaidOutcomes =>
                 Taken(charge'[s]) /\ (outcome = "matched" <=> s \notin drifted),
               Becomes(p, Pulled(task, outcome))
        PROVE  LeavesSound(p)
    <2>1. PullSound([task EXCEPT !.got = outcome])'
      BY <1>3, <1>4 DEF PullSound, Grows, Task, TaskRecord
    <2> QED
      BY <1>1, <1>2, <1>4, <2>1, PulledSound, PulledType DEF LeavesSound
  <1>5. CASE Becomes(p, Pulled(task, "unavailable"))
    BY <1>4, <1>5 DEF Outcomes, PaidOutcomes
  <1>6. ASSUME NEW status, charge'[s] = status, Becomes(p, Pulled(task, Judge(status)))
        PROVE  LeavesSound(p)
    <2>1. Judge(status) \in Outcomes
      BY DEF PaypalVerdict, Paid, Outcomes
    <2>2. Judge(status) \in PaidOutcomes =>
            Taken(charge'[s]) /\ (Judge(status) = "matched" <=> s \notin drifted)
      BY <1>6 DEF PaypalVerdict, Paid, PaidOutcomes, Taken
    <2> QED
      BY <1>4, <1>6, <2>1, <2>2
  <1>7. \/ Becomes(p, Pulled(task, "unavailable"))
        \/ \E status : charge'[s] = status /\ Becomes(p, Pulled(task, Judge(status)))
    BY <1>3 DEF Capture
  <1> QED
    BY <1>5, <1>6, <1>7

(* A mark_paid, made or failed, is followed by what the pull calls for. *)
LEMMA ApplyLeaves ==
  ASSUME Types, RowsSound, Grows, NEW p \in Procs, TaskSound(proc[p]), Apply(p)
  PROVE  LeavesSound(p)
  <1> PICK task \in Task : task = proc[p]
    BY TaskParts
  <1> PICK failed \in Task : failed = [task EXCEPT !.got = "unavailable"]
    BY DEF Task, TaskRecord, Outcomes
  <1>1. task.pc = "apply" /\ task.id \in Ids
    BY TaskParts DEF Apply, At, OnRow
  <1>2. TaskSound(task) /\ Holding(task)
    BY <1>1, PullHolding DEF Promoting
  <1>3. PullSound(task)'
    BY <1>1, <1>2, TaskFrame DEF TaskSound
  <1>4. /\ failed.id = task.id /\ failed.snap = task.snap /\ failed.now = task.now
        /\ failed.batch = task.batch /\ failed.promoting = task.promoting
        /\ failed.got = "unavailable"
    BY DEF Task, TaskRecord
  <1>5. Holding(failed) /\ PullSound(failed)'
    BY <1>2, <1>4 DEF Holding, PromotionSound, PullSound, PaidOutcomes
  <1>6. Resume(task) \in Task /\ Resume(failed) \in Task
    BY <1>1, <1>4, ResumeType
  <1>7. TaskSound(Resume(task))' /\ TaskSound(Resume(failed))'
    BY <1>1, <1>2, <1>3, <1>4, <1>5, ResumeSound
  <1>8. Becomes(p, Resume(task)) \/ Becomes(p, Resume(failed))
    BY DEF Apply
  <1> QED
    BY <1>6, <1>7, <1>8 DEF LeavesSound

(* A report: "confirmed" only of a row that is, and a promotion-time pull  *)
(* only of a row that is due.                                              *)
LEMMA ReportedSound ==
  ASSUME Types, RowsSound, NEW task \in Task, task.id \in Ids, task.now <= clock,
         NEW row \in Row, SnapSound(row, task.id),
         \A item \in task.batch : SnapSound(item.row, item.id)
  PROVE  TaskSound(Reported(task, row))
  <1>1. task.now \in Nat /\ clock \in Nat /\ row.state \in States
    BY DEF Task, TaskRecord, Row, Types
  <1>2. CASE Report(row, task.now) = "promotionDue"
    <2>1. row.state = "paid" /\ DelayElapsed(row, task.now)
      BY <1>1, <1>2 DEF Report, States
    <2> DEFINE t == [task EXCEPT !.snap = row, !.pc = "pull", !.promoting = TRUE,
                                 !.got = "none"]
    <2>2. /\ t.snap = row /\ t.pc = "pull" /\ t.now = task.now /\ t.id = task.id
          /\ t.batch = task.batch
      BY DEF Task, TaskRecord
    <2> HIDE DEF t
    <2>4. PromotionSound(t)
      BY <2>1, <2>2 DEF SnapSound, Moved, PromotionSound, PaymentOnRecord, DelayElapsed
    <2>3. TaskSound(t)
      BY <2>2, <2>4 DEF TaskSound, EventSound, OnRow, Promoting
    <2> QED
      BY <1>2, <2>3 DEF Reported, t
  <1>3. CASE Report(row, task.now) # "promotionDue"
    <2>1. ASSUME Report(row, task.now) = "confirmed" PROVE ConfirmedEarned(task.id)
      <3>1. row.state = "confirmed"
        BY <1>1, <2>1 DEF Report, States
      <3>2. /\ rows[task.id].state = "confirmed" /\ rows[task.id].paidAt = row.paidAt
            /\ RowSound(row, task.id)
        BY <3>1 DEF SnapSound, Moved, PaymentOnRecord
      <3> QED
        BY <3>1, <3>2 DEF ConfirmedEarned, RowSound, DelayElapsed
    <2> QED
      BY <1>1, <1>3, <2>1, AnsweringSound DEF Reported
  <1> QED
    BY <1>2, <1>3

(* The status endpoint. *)
LEMMA StatusLeaves ==
  ASSUME Types, RowsSound, Grows, NEW h \in Procs, TaskSound(proc[h]),
         (\E i \in Ids : StatusRead(h, i)) \/ StatusStep(h)
  PROVE  LeavesSound(h)
  <1> PICK task \in Task : task = proc[h]
    BY TaskParts
  <1>0. /\ TaskSound(task) /\ clock \in Nat /\ Idle \in Task /\ TaskSound(Idle)
        /\ task.snap \in Row
    BY IdleType, IdleSound, TaskParts DEF Types
  <1>1. ASSUME NEW i \in Ids, StatusRead(h, i) PROVE LeavesSound(h)
    <2> PICK row \in Row : row = rows[i]
      BY DEF Types
    <2> PICK t \in Task :
          t = [Idle EXCEPT !.op = "status", !.pc = "begin", !.id = i, !.snap = row]
      BY BeginType
    <2>2. TaskSound(t)
      BY <1>0, SnapNow DEF Idle, TaskSound, EventSound, OnRow, Promoting
    <2>3. Becomes(h, t)
      BY <1>1 DEF StatusRead
    <2> QED
      BY <2>2, <2>3, LeavesOld
  <1>2. CASE StatusBegin(h)
    <2> PICK timed \in Task : timed = [task EXCEPT !.now = clock]
      BY <1>0 DEF Task, TaskRecord
    <2>1. /\ timed.pc = "begin" /\ timed.now = clock /\ timed.id = task.id
          /\ timed.snap = task.snap /\ timed.batch = task.batch
          /\ timed.promoting = task.promoting
      BY <1>2 DEF StatusBegin, At, Task, TaskRecord
    <2>2. /\ task.pc = "begin" /\ ~task.promoting /\ SnapSound(task.snap, task.id)
          /\ \A item \in task.batch : SnapSound(item.row, item.id)
      BY <1>0, <1>2 DEF StatusBegin, At, TaskSound, OnRow
    <2>3. timed.id \in Ids
      BY <2>1 DEF Task
    <2>4. CASE Becomes(h, Reported(timed, timed.snap))
      <3>1. timed.snap \in Row /\ SnapSound(timed.snap, timed.id) /\ timed.now <= clock
        BY <1>0, <2>1, <2>2
      <3>2. TaskSound(Reported(timed, timed.snap))
        BY <2>1, <2>2, <2>3, <3>1, ReportedSound
      <3>3. Reported(timed, timed.snap) \in Task
        BY <2>3, <3>1, ReportedType
      <3> QED
        BY <2>4, <3>2, <3>3, LeavesOld
    <2>5. CASE Becomes(h, [timed EXCEPT !.pc = "pull"])
      <3>1. [timed EXCEPT !.pc = "pull"] \in Task
        BY <2>3, PullPoints
      <3>2. TaskSound([timed EXCEPT !.pc = "pull"])
        BY <1>0, <2>1, <2>2, <2>3
        DEF TaskSound, EventSound, OnRow, Promoting, Task, TaskRecord
      <3> QED
        BY <2>5, <3>1, <3>2, LeavesOld
    <2> QED
      BY <1>2, <2>4, <2>5 DEF StatusBegin
  <1>3. CASE StatusReread(h)
    <2>1. task.pc = "reread" /\ task.id \in Ids
      BY <1>3 DEF StatusReread, At, Task
    <2>2. /\ task.now <= clock /\ SnapSound(task.snap, task.id)
          /\ \A item \in task.batch : SnapSound(item.row, item.id)
      BY <1>0, <2>1 DEF TaskSound, OnRow
    <2>3. rows[task.id] \in Row /\ SnapSound(rows[task.id], task.id)
      BY <2>1, SnapNow DEF Types
    <2>4. \E row \in {rows[task.id], task.snap} : Becomes(h, Reported(task, row))
      BY <1>3 DEF StatusReread
    <2>5. ASSUME NEW row \in Row, SnapSound(row, task.id) PROVE
            Reported(task, row) \in Task /\ TaskSound(Reported(task, row))
      BY <2>1, <2>2, <2>5, ReportedSound, ReportedType
    <2> QED
      BY <1>0, <2>2, <2>3, <2>4, <2>5, LeavesOld
  <1>4. CASE StatusConfirm(h)
    <2>1. task.id \in Ids /\ At(h, "confirm")
      BY <1>4, ConfirmEarned DEF StatusConfirm
    <2>2. \A reply \in {"confirmed", "detected"} : Answering(task, reply) \in Task
      BY <2>1, AnsweringType DEF Reports
    <2>3. CASE Becomes(h, Answering(task, "detected"))
      BY <1>0, <2>2, <2>3, AnsweringSound, LeavesOld
    <2>4. CASE /\ Becomes(h, Answering(task, "confirmed"))
               /\ rows' = [rows EXCEPT ![task.id] = MarkConfirmed(@)]
      <3>1. PICK i \in Ids : i = task.id /\ ConfirmedEarned(i)'
        BY <2>1, <2>4, ConfirmAnswer
      <3> PICK t \in Task : t = Answering(task, "confirmed")
        BY <2>2
      <3>2. /\ t.pc = "reply" /\ t.id = i /\ t.now = 0 /\ t.batch = {}
        BY <3>1 DEF Answering, Idle
      <3>3. clock' \in Nat
        BY DEF Grows
      <3>4. TaskSound(t)'
        BY <3>1, <3>2, <3>3 DEF TaskSound, EventSound, OnRow, Promoting
      <3> QED
        BY <2>4, <3>4 DEF LeavesSound
    <2> QED
      BY <1>4, <2>3, <2>4 DEF StatusConfirm
  <1>5. CASE StatusReply(h)
    BY <1>0, <1>5, LeavesOld DEF StatusReply
  <1> QED
    BY <1>1, <1>2, <1>3, <1>4, <1>5 DEF StatusStep

(* The worker: a snapshot of its batch may be old by now, but not wrong. *)
LEMMA WorkerLeaves ==
  ASSUME Types, RowsSound, Grows, TaskSound(proc[Worker]),
         proc[Worker].op \in {"idle", "worker"},
         WorkerList \/ WorkerNext \/ WorkerReread \/ WorkerConfirm
  PROVE  LeavesSound(Worker)
  <1>0. /\ Worker \in Procs /\ clock \in Nat /\ Idle \in Task /\ TaskSound(Idle)
    BY IdleType, IdleSound DEF Types, Procs
  <1> PICK task \in Task : task = proc[Worker]
    BY <1>0, TaskParts
  <1>1. /\ TaskSound(task) /\ task.batch \subseteq [id : Ids, row : Row]
        /\ \A item \in task.batch : SnapSound(item.row, item.id)
    BY DEF TaskSound, Task, TaskRecord
  <1>2. CASE WorkerList
    <2> DEFINE open == OpenFiatCorrelations(rows, PollLimit)
    <2>1. open \subseteq Ids
      BY DEF OpenFiatCorrelations, Open
    <2> HIDE DEF open
    <2> DEFINE listed == {[id |-> i, row |-> rows[i]] : i \in open}
    <2>6. listed \in SUBSET [id : Ids, row : Row]
      <3>1. \A i \in open : i \in Ids /\ rows[i] \in Row
        BY <2>1 DEF Types
      <3> QED
        BY <3>1
    <2> PICK batch \in SUBSET [id : Ids, row : Row] : batch = listed
      BY <2>6
    <2>2. \A item \in batch : SnapSound(item.row, item.id)
      BY <2>1, SnapNow
    <2> PICK t \in Task :
               t = [Idle EXCEPT !.op = "worker", !.pc = "next", !.batch = batch]
      BY ListedType
    <2>4. TaskSound(t)
      BY <1>0, <2>2 DEF Idle, TaskSound, EventSound, OnRow, Promoting
    <2>5. Becomes(Worker, t)
      BY <1>2 DEF WorkerList, open
    <2> QED
      BY <1>0, <2>4, <2>5, LeavesOld
  <1>3. CASE WorkerNext
    <2>1. CASE Becomes(Worker, Idle)
      BY <1>0, <2>1, LeavesOld
    <2>2. ASSUME NEW item \in task.batch,
                 Becomes(Worker, [Idle EXCEPT !.op = "worker", !.pc = "pull",
                                              !.id = item.id, !.snap = item.row,
                                              !.now = clock,
                                              !.batch = task.batch \ {item}])
          PROVE  LeavesSound(Worker)
      <3>1. item.id \in Ids /\ item.row \in Row /\ SnapSound(item.row, item.id)
        BY <1>1
      <3> PICK i \in Ids, row \in Row, now \in Nat, batch \in SUBSET [id : Ids, row : Row] :
                 /\ i = item.id /\ row = item.row /\ now = clock
                 /\ batch = task.batch \ {item}
        BY <1>0, <1>1, <3>1
      <3> PICK t \in Task :
                 t = [Idle EXCEPT !.op = "worker", !.pc = "pull", !.id = i, !.snap = row,
                                  !.now = now, !.batch = batch]
        BY VisitType
      <3>3. \A other \in batch : SnapSound(other.row, other.id)
        BY <1>1
      <3>4. TaskSound(t)
        BY <1>0, <3>1, <3>3 DEF Idle, TaskSound, EventSound, OnRow, Promoting
      <3>5. Becomes(Worker, t)
        BY <2>2
      <3> QED
        BY <1>0, <3>4, <3>5, LeavesOld
    <2> QED
      BY <1>3, <2>1, <2>2 DEF WorkerNext
  <1>4. CASE WorkerReread
    <2>1. task.pc = "reread" /\ task.id \in Ids /\ task.op # "status"
      BY <1>4 DEF WorkerReread, At, Task
    <2>2. /\ task.now <= clock /\ SnapSound(task.snap, task.id) /\ PullSound(task)
          /\ task.got = "matched"
      BY <1>1, <2>1 DEF TaskSound, OnRow
    <2>3. CASE Becomes(Worker, NextRow(task))
      BY <1>0, <1>1, <2>3, NextRowSound, NextRowType, LeavesOld
    <2>4. CASE /\ rows[task.id].state = "paid" /\ DelayElapsed(rows[task.id], task.now)
               /\ Becomes(Worker, [task EXCEPT !.pc = "confirm"])
      <3> PICK t \in Task : t = [task EXCEPT !.pc = "confirm"]
        BY <2>1, PullPoints
      <3>2. /\ t.snap = task.snap /\ t.pc = "confirm" /\ t.now = task.now
            /\ t.id = task.id /\ t.batch = task.batch /\ t.got = task.got
        BY DEF Task, TaskRecord
      <3>3. TaskSound(t)
        BY <1>1, <2>2, <2>4, <3>2
        DEF TaskSound, PullSound, PromotionSound, PaymentOnRecord, EventSound, OnRow,
            Promoting
      <3>4. Becomes(Worker, t)
        BY <2>4
      <3> QED
        BY <1>0, <3>3, <3>4, LeavesOld
    <2> QED
      BY <1>4, <2>3, <2>4 DEF WorkerReread
  <1>5. CASE WorkerConfirm
    BY <1>0, <1>1, <1>5, NextRowSound, NextRowType, LeavesOld DEF WorkerConfirm
  <1> QED
    BY <1>2, <1>3, <1>4, <1>5

(* The webhooks: an event is acted on only once the processor's own record *)
(* of the charge, capture or dispute bore it out.                          *)
LEMMA WebhookLeaves ==
  ASSUME Types, RowsSound, Grows, NEW h \in Procs, TaskSound(proc[h]),
         (\E e \in Event : Deliver(h, e)) \/ WebhookStep(h) \/ HangUp(h)
  PROVE  LeavesSound(h)
  <1> PICK task \in Task : task = proc[h]
    BY TaskParts
  <1>0. /\ TaskSound(task) /\ clock \in Nat /\ Idle \in Task /\ TaskSound(Idle)
    BY IdleType, IdleSound DEF Types
  <1>1. CASE Becomes(h, Idle)
    BY <1>0, <1>1, LeavesOld
  <1>2. ASSUME NEW e \in Event, Deliver(h, e) PROVE LeavesSound(h)
    <2> PICK now \in Nat : now = clock
      BY <1>0
    <2>1. e.type # "payment" => (e.type = "dispute" => GivenBack(charge[e.session]))
      BY <1>2 DEF Deliver, Sendable, GivenBack, Event, EventTypes
    <2>2. CASE e.type = "payment"
      <3> PICK t \in Task :
                 t = [Idle EXCEPT !.op = "payment", !.pc = "hint", !.now = now, !.event = e]
        BY DeliveredType
      <3>1. TaskSound(t)
        BY <1>0 DEF Idle, TaskSound, EventSound, OnRow, Promoting
      <3>2. Becomes(h, t)
        BY <1>2, <2>2 DEF Deliver
      <3> QED
        BY <3>1, <3>2, LeavesOld
    <2>3. CASE e.type # "payment"
      <3> PICK t \in Task : t = [Idle EXCEPT !.op = "reversal", !.pc = "verify", !.event = e]
        BY DeliveredType
      <3>1. TaskSound(t)
        BY <1>0, <2>1, <2>3 DEF Idle, TaskSound, EventSound, OnRow, Promoting
      <3>2. Becomes(h, t)
        BY <1>2, <2>3 DEF Deliver
      <3> QED
        BY <3>1, <3>2, LeavesOld
    <2> QED
      BY <2>2, <2>3
  <1>3. CASE HintRead(h)
    <2> PICK i \in Ids : i = task.event.session.id
      BY <1>3, TaskParts DEF HintRead, At
    <2> PICK row \in Row : row = rows[i]
      BY DEF Types
    <2>1. CASE Becomes(h, [task EXCEPT !.pc = "pull", !.id = i, !.snap = rows[i]])
      <3> PICK t \in Task : t = [task EXCEPT !.pc = "pull", !.id = i, !.snap = row]
        BY HintedType
      <3>1. /\ t.pc = "pull" /\ t.id = i /\ t.snap = row /\ t.now = task.now
            /\ t.batch = task.batch /\ t.promoting = task.promoting
        BY DEF Task, TaskRecord
      <3>2. task.pc = "hint"
        BY <1>3 DEF HintRead, At
      <3>3. TaskSound(t)
        BY <1>0, <3>1, <3>2, SnapNow DEF TaskSound, EventSound, OnRow, Promoting
      <3>4. Becomes(h, t)
        BY <2>1
      <3> QED
        BY <3>3, <3>4, LeavesOld
    <2> QED
      BY <1>1, <1>3, <2>1 DEF HintRead
  <1>4. CASE ReversalVerify(h)
    <2>1. task.pc = "verify" /\ task.event \in Event /\ task.event.session.kind \in Kinds
      BY <1>4 DEF ReversalVerify, At, Task, Event, Session
    <2>2. ASSUME Corroborated(task.event), Becomes(h, [task EXCEPT !.pc = "find"])
          PROVE  LeavesSound(h)
      <3>1. GivenBack(charge[task.event.session])
        BY <1>0, <2>1, <2>2
        DEF Corroborated, ChargeReversed, CaptureReversed, GivenBack, TaskSound, EventSound
      <3> PICK t \in Task : t = [task EXCEPT !.pc = "find"]
        BY <2>1 DEF Task, TaskRecord, Points
      <3>2. /\ t.pc = "find" /\ t.now = task.now /\ t.batch = task.batch
            /\ t.event = task.event
        BY DEF Task, TaskRecord
      <3>3. TaskSound(t)
        BY <1>0, <3>1, <3>2 DEF TaskSound, EventSound, OnRow, Promoting
      <3> QED
        BY <2>2, <3>3, LeavesOld
    <2> QED
      BY <1>1, <1>4, <2>2 DEF ReversalVerify
  <1>5. CASE ReversalFind(h)
    <2>1. task.pc = "find" /\ task.event \in Event
      BY <1>5 DEF ReversalFind, At, Task
    <2>2. task.event.session \in Session /\ task.event.session.id \in Ids
      BY <2>1 DEF Event, Session
    <2>3. ASSUME NEW i \in Resolved(task.event) PROVE i = task.event.session.id
      <3>1. CASE i \in FindByPaymentIntent(rows, task.event.session)
        <4>1. i \in Ids /\ rows[i].ref = task.event.session
          BY <3>1 DEF FindByPaymentIntent
        <4> QED
          BY <2>2, <4>1, NoneAssumption DEF RowsSound, RowSound
      <3> QED
        BY <2>3, <3>1 DEF Resolved
    <2>4. ASSUME NEW i \in Resolved(task.event),
                 Becomes(h, [task EXCEPT !.pc = "reverse", !.id = i])
          PROVE  LeavesSound(h)
      <3>1. i \in Ids /\ i = task.event.session.id
        BY <2>2, <2>3
      <3> PICK t \in Task : t = [task EXCEPT !.pc = "reverse", !.id = i]
        BY <2>1, <3>1 DEF Task, TaskRecord, Points
      <3>2. /\ t.pc = "reverse" /\ t.now = task.now /\ t.batch = task.batch
            /\ t.event = task.event /\ t.id = i
        BY <3>1 DEF Task, TaskRecord
      <3>3. TaskSound(t)
        BY <1>0, <2>1, <3>1, <3>2 DEF TaskSound, EventSound, OnRow, Promoting
      <3> QED
        BY <2>4, <3>3, LeavesOld
    <2> QED
      BY <1>1, <1>5, <2>4, Zenon DEF ReversalFind
  <1>6. CASE Reverse(h) \/ HangUp(h)
    BY <1>1, <1>6 DEF Reverse, HangUp
  <1> QED
    BY <1>2, <1>3, <1>4, <1>5, <1>6 DEF WebhookStep

-----------------------------------------------------------------------------
(* The invariant.                                                          *)

(* A handler's step is a step of that handler. *)
LEMMA HandlerBecomes ==
  ASSUME NEW h \in Handlers, Serves(h) PROVE \E t : Becomes(h, t)
  <1>1. CASE PullStep(h)
    BY <1>1 DEF PullStep, Pull, Capture, Apply
  <1>2. CASE (\E i \in Ids : StatusRead(h, i)) \/ StatusStep(h)
    BY <1>2 DEF StatusRead, StatusStep, StatusBegin, StatusReread, StatusConfirm, StatusReply
  <1>3. CASE HintRead(h) \/ ReversalVerify(h) \/ Reverse(h) \/ HangUp(h)
    BY <1>3 DEF HintRead, ReversalVerify, Reverse, HangUp
  <1>4. CASE ReversalFind(h)
    BY <1>4, Zenon DEF ReversalFind
  <1>5. CASE \E e \in Event : Deliver(h, e)
    BY <1>5 DEF Deliver
  <1> QED
    BY <1>1, <1>2, <1>3, <1>4, <1>5 DEF Serves, WebhookStep

(* The worker is at nobody else's work. *)
LEMMA WorkerOp ==
  ASSUME Types, proc[Worker].op \in {"idle", "worker"}, AnyStep
  PROVE  proc'[Worker].op \in {"idle", "worker"}
  <1>0. Worker \in Procs /\ proc \in [Procs -> Task] /\ proc[Worker] \in Task
    BY DEF Types, Procs
  <1> PICK task \in Task : task = proc[Worker]
    BY <1>0
  <1>1. CASE proc'[Worker] = proc[Worker] \/ proc'[Worker] = Idle
    BY <1>1 DEF Idle
  <1>2. \A t \in Task : \A outcome : Pulled(t, outcome).op \in {t.op, "idle"}
    BY DEF Pulled, Resume, Answering, NextRow, Idle, Task, TaskRecord
  <1>3. \A t \in Task : Resume(t).op \in {t.op, "idle"} /\ NextRow(t).op = t.op
    BY DEF Resume, Answering, NextRow, Idle, Task, TaskRecord
  <1>4. ASSUME NEW t, Becomes(Worker, t), t.op \in {"idle", "worker"}
        PROVE  proc'[Worker].op \in {"idle", "worker"}
    BY <1>0, <1>4 DEF Becomes
  <1>5. CASE Pull(Worker)
    <2>1. [task EXCEPT !.pc = "capture"].op = task.op
      BY DEF Task, TaskRecord
    <2>2. \E t : Becomes(Worker, t) /\ t.op \in {task.op, "idle"}
      BY <1>2, <1>5, <2>1 DEF Pull
    <2> QED
      BY <1>4, <2>2
  <1>6. CASE Capture(Worker)
    <2>1. \E t : Becomes(Worker, t) /\ t.op \in {task.op, "idle"}
      BY <1>2, <1>6 DEF Capture
    <2> QED
      BY <1>4, <2>1
  <1>7. CASE Apply(Worker)
    <2> PICK failed \in Task : failed = [task EXCEPT !.got = "unavailable"]
      BY DEF Task, TaskRecord, Outcomes
    <2>1. failed.op = task.op
      BY DEF Task, TaskRecord
    <2>2. \E t : Becomes(Worker, t) /\ t.op \in {task.op, "idle"}
      BY <1>3, <1>7, <2>1 DEF Apply
    <2> QED
      BY <1>4, <2>2
  <1>8. CASE WorkerList \/ WorkerNext
    <2>1. CASE WorkerList
      BY <1>4, <2>1 DEF WorkerList, Idle
    <2>2. CASE Becomes(Worker, Idle)
      BY <1>4, <2>2 DEF Idle
    <2>3. ASSUME NEW item \in task.batch,
                 Becomes(Worker, [Idle EXCEPT !.op = "worker", !.pc = "pull",
                                              !.id = item.id, !.snap = item.row,
                                              !.now = clock,
                                              !.batch = task.batch \ {item}])
          PROVE  proc'[Worker].op \in {"idle", "worker"}
      BY <1>4, <2>3 DEF Idle
    <2> QED
      BY <1>8, <2>1, <2>2, <2>3 DEF WorkerNext
  <1>9. CASE WorkerReread \/ WorkerConfirm
    <2>1. [task EXCEPT !.pc = "confirm"].op = task.op
      BY DEF Task, TaskRecord
    <2>2. \E t : Becomes(Worker, t) /\ t.op \in {task.op, "idle"}
      BY <1>3, <1>9, <2>1 DEF WorkerReread, WorkerConfirm
    <2> QED
      BY <1>4, <2>2
  <1>10. CASE Surroundings
    BY <1>0, <1>1, <1>10
    DEF Surroundings, Tick, Restarted, Pay, Approve, AutoCapture, CaptureSettles, Refund,
        Dispute, ChargeMoves
  <1>11. ASSUME NEW h \in Handlers, Serves(h)
         PROVE  proc'[Worker].op \in {"idle", "worker"}
    <2>1. \E t : Becomes(h, t)
      BY <1>11, HandlerBecomes
    <2> QED
      BY <1>0, <1>1, <2>1, WorkerAssumption DEF Becomes
  <1> QED
    BY <1>5, <1>6, <1>7, <1>8, <1>9, <1>10, <1>11 DEF AnyStep, WorkerStep, PullStep

(* Whoever acts is left with nothing false. *)
LEMMA ActorLeaves ==
  ASSUME Types, RowsSound, TasksSound, Grows, NEW p \in Procs,
         \/ PullStep(p)
         \/ p = Worker /\ WorkerStep
         \/ p \in Handlers /\ Serves(p)
  PROVE  LeavesSound(p)
  <1>1. TaskSound(proc[p]) /\ proc[Worker].op \in {"idle", "worker"}
    BY DEF TasksSound
  <1>2. CASE PullStep(p)
    BY <1>1, <1>2, PullLeaves, CaptureLeaves, ApplyLeaves DEF PullStep
  <1>3. CASE p = Worker /\ WorkerStep
    BY <1>1, <1>2, <1>3, WorkerLeaves DEF WorkerStep
  <1>4. CASE Serves(p)
    BY <1>1, <1>2, <1>4, StatusLeaves, WebhookLeaves DEF Serves
  <1> QED
    BY <1>2, <1>3, <1>4

(* And so is everybody else. *)
LEMMA EveryTaskStep ==
  ASSUME Types, RowsSound, TasksSound, Grows, AnyStep
  PROVE  \A q \in Procs : TaskSound(proc[q])'
  <1>0. \A p \in Procs : proc[p] \in Task /\ TaskSound(proc[p])
    BY TaskParts DEF TasksSound
  <1>1. ASSUME NEW p \in Procs, proc'[p] = proc[p] PROVE TaskSound(proc[p])'
    BY <1>0, <1>1, TaskFrame
  <1>2. CASE UNCHANGED proc
    BY <1>1, <1>2
  <1>3. ASSUME NEW p \in Procs, LeavesSound(p) PROVE \A q \in Procs : TaskSound(proc[q])'
    <2> PICK t \in Task : Becomes(p, t) /\ TaskSound(t)'
      BY <1>3 DEF LeavesSound
    <2>1. ASSUME NEW q \in Procs PROVE TaskSound(proc[q])'
      <3>1. CASE q = p
        <4>1. proc'[q] = t
          BY <3>1 DEF Becomes, Types
        <4> QED
          BY <4>1
      <3>2. CASE q # p
        <4>1. proc'[q] = proc[q]
          BY <3>2 DEF Becomes, Types
        <4> QED
          BY <1>1, <4>1
      <3> QED
        BY <3>1, <3>2
    <2> QED
      BY <2>1
  <1>4. CASE Restarted
    <2>1. TaskSound(Idle)'
      BY IdleSound, IdleType, TaskFrame DEF Types
    <2>2. ASSUME NEW q \in Procs PROVE TaskSound(proc[q])'
      <3>1. proc'[q] = Idle
        BY <1>4 DEF Restarted
      <3> QED
        BY <2>1, <3>1
    <2> QED
      BY <2>2
  <1>5. CASE Surroundings
    BY <1>2, <1>4, <1>5
    DEF Surroundings, Tick, Pay, Approve, AutoCapture, CaptureSettles, Refund, Dispute,
        ChargeMoves
  <1>6. CASE WorkerStep
    BY <1>3, <1>6, ActorLeaves DEF Procs
  <1>7. ASSUME NEW h \in Handlers, Serves(h) PROVE \A q \in Procs : TaskSound(proc[q])'
    BY <1>3, <1>7, ActorLeaves DEF Procs
  <1> QED
    BY <1>5, <1>6, <1>7 DEF AnyStep

(* So all the tasks stay sound. *)
LEMMA TasksStep ==
  ASSUME Types, RowsSound, TasksSound, Grows, AnyStep PROVE TasksSound'
  <1>1. (proc[Worker].op \in {"idle", "worker"})'
    BY WorkerOp DEF TasksSound
  <1> QED
    BY <1>1, EveryTaskStep DEF TasksSound

(* Rows are only written by what knows them to be so. *)
LEMMA RowsStep ==
  ASSUME Types, RowsSound, TasksSound, Grows, AnyStep PROVE RowsSound'
  <1>1. CASE UNCHANGED rows
    <2>1. ASSUME NEW i \in Ids PROVE RowSound(rows[i], i)'
      <3>1. RowSound(rows[i], i) /\ rows[i] \in Row /\ rows'[i] = rows[i]
        BY <1>1 DEF RowsSound, Types
      <3> QED
        BY <3>1, RowFrame
    <2> QED
      BY <2>1 DEF RowsSound
  <1>2. \A p \in Procs : TaskSound(proc[p])
    BY DEF TasksSound
  <1>3. ASSUME NEW p \in Procs, Apply(p) PROVE RowsSound'
    BY <1>2, <1>3, ApplySound
  <1>4. ASSUME NEW p \in Procs, StatusConfirm(p) \/ (p = Worker /\ WorkerConfirm)
        PROVE  RowsSound'
    <2>1. /\ At(p, "confirm")
          /\ \/ rows' = [rows EXCEPT ![proc[p].id] = MarkConfirmed(@)]
             \/ UNCHANGED rows
      BY <1>4 DEF StatusConfirm, WorkerConfirm
    <2> QED
      BY <1>2, <2>1, ConfirmSound
  <1>5. ASSUME NEW p \in Procs, Reverse(p) PROVE RowsSound'
    BY <1>2, <1>5, ReverseSound
  <1>6. ASSUME NEW p \in Procs, PullStep(p) PROVE RowsSound'
    BY <1>1, <1>3, <1>6 DEF PullStep, Pull, Capture, store
  <1>7. CASE Surroundings
    BY <1>1, <1>7
    DEF Surroundings, Tick, Restarted, Pay, Approve, AutoCapture, CaptureSettles, Refund,
        Dispute, ChargeMoves, store
  <1>8. CASE WorkerStep
    BY <1>1, <1>4, <1>6, <1>8 DEF WorkerStep, WorkerList, WorkerNext, WorkerReread, store, Procs
  <1>9. ASSUME NEW h \in Handlers, Serves(h) PROVE RowsSound'
    <2>1. h \in Procs
      BY DEF Procs
    <2>2. CASE (\E i \in Ids : StatusRead(h, i)) \/ StatusBegin(h) \/ StatusReread(h)
               \/ StatusReply(h) \/ HintRead(h) \/ ReversalVerify(h) \/ HangUp(h)
      BY <1>1, <2>2
      DEF StatusRead, StatusBegin, StatusReread, StatusReply, HintRead, ReversalVerify,
          HangUp, store
    <2>3. CASE ReversalFind(h)
      BY <1>1, <2>3 DEF ReversalFind, store
    <2>4. CASE \E e \in Event : Deliver(h, e)
      BY <1>1, <2>4 DEF Deliver
    <2>5. CASE PullStep(h)
      BY <1>6, <2>1, <2>5
    <2>6. CASE StatusConfirm(h)
      BY <1>4, <2>1, <2>6
    <2>7. CASE Reverse(h)
      BY <1>5, <2>1, <2>7
    <2> QED
      BY <1>9, <2>2, <2>3, <2>4, <2>5, <2>6, <2>7
      DEF Serves, StatusStep, WebhookStep
  <1> QED
    BY <1>7, <1>8, <1>9 DEF AnyStep

(* The rows the model starts from are freshly minted sessions'. *)
LEMMA InitSound == Init => NothingFalseHeld
  <1> SUFFICES ASSUME Init PROVE NothingFalseHeld
    OBVIOUS
  <1>1. Types
    BY InitTypes
  <1>2. ASSUME NEW i \in Ids PROVE RowSound(rows[i], i)
    <2>1. ASSUME NEW kind \in Kinds, NEW processor
          PROVE  /\ Minted(i, kind, processor).state = "created"
                 /\ Minted(i, kind, processor).ref = None
                 /\ Minted(i, kind, processor).session \in Session
                 /\ Minted(i, kind, processor).session.id = i
      BY MaxAttemptAssumption DEF Minted, NewRow, NoRow, Session
    <2>2. \E kind \in Kinds : \E processor : rows[i] = Minted(i, kind, processor)
      BY InitKindsAssumption DEF Init, MintedRows, Kinds
    <2> QED
      BY <2>1, <2>2 DEF RowSound, PaymentOnRecord
  <1>3. \A p \in Procs : proc[p] = Idle
    BY DEF Init
  <1>4. Worker \in Procs /\ Idle.op = "idle" /\ TaskSound(Idle)
    BY <1>1, IdleSound DEF Procs, Idle, Types
  <1> QED
    BY <1>1, <1>2, <1>3, <1>4 DEF NothingFalseHeld, RowsSound, TasksSound

(* It is inductive. *)
LEMMA NothingFalseStep ==
  ASSUME NothingFalseHeld, AnyStep PROVE NothingFalseHeld'
  <1>1. Types /\ RowsSound /\ TasksSound /\ Grows
    BY StepGrows DEF NothingFalseHeld
  <1> QED
    BY <1>1, TypesStep, RowsStep, TasksStep DEF NothingFalseHeld

(* A step that writes no variable of Settlement's changes nothing of it. *)
LEMMA NothingFalseStutter ==
  ASSUME NothingFalseHeld, UNCHANGED vars PROVE NothingFalseHeld'
  <1>1. Types /\ RowsSound /\ TasksSound
    BY DEF NothingFalseHeld
  <1>2. Types' /\ Grows
    BY <1>1, RowsKept, OnlyRowsGrow DEF Types, vars
  <1>3. ASSUME NEW i \in Ids PROVE RowSound(rows[i], i)'
    <2>1. RowSound(rows[i], i) /\ rows[i] \in Row /\ rows'[i] = rows[i]
      BY <1>1 DEF RowsSound, Types, vars
    <2> QED
      BY <1>1, <1>2, <2>1, RowFrame
  <1>4. ASSUME NEW p \in Procs PROVE TaskSound(proc[p])'
    <2>1. TaskSound(proc[p]) /\ proc[p] \in Task /\ proc'[p] = proc[p]
      BY <1>1 DEF TasksSound, Types, vars
    <2> QED
      BY <1>1, <1>2, <2>1, TaskFrame
  <1> QED
    BY <1>1, <1>2, <1>3, <1>4 DEF NothingFalseHeld, RowsSound, TasksSound, vars

-----------------------------------------------------------------------------
(* What it gives.                                                          *)

(* Every row was earned. *)
LEMMA EveryRowEarned == NothingFalseHeld => EveryStateEarned
  <1> SUFFICES ASSUME NothingFalseHeld PROVE EveryStateEarned
    OBVIOUS
  <1>1. ASSUME NEW i \in Ids PROVE Earned(i)
    <2>1. RowSound(rows[i], i) /\ rows[i] \in Row /\ clock \in Nat
      BY DEF NothingFalseHeld, RowsSound, Types
    <2>2. CASE rows[i].state = "paid"
      <3>1. rows[i].ref \in Session /\ rows[i].ref.id = i /\ Taken(charge[rows[i].ref])
        BY <2>1, <2>2 DEF RowSound, PaymentOnRecord, Row
      <3> QED
        BY <2>1, <2>2, <3>1 DEF RowSound, PaymentOnRecord, PaidSessions, Earned
    <2>3. CASE rows[i].state = "confirmed"
      BY <2>1, <2>3 DEF RowSound, DelayElapsed, Earned
    <2>4. CASE rows[i].state = "reversed"
      BY <2>1, <2>4 DEF RowSound, Earned
    <2> QED
      BY <2>1, <2>2, <2>3, <2>4 DEF Row, States, Earned
  <1> QED
    BY <1>1 DEF EveryStateEarned

(* No handler, and no row, ever knows anything that is not so              *)
(* (verification.rs, worker.rs, the webhook handlers of http.rs).          *)
THEOREM NothingFalse == Spec => []NothingFalseHeld
  <1>1. NothingFalseHeld /\ [Next]_vars => NothingFalseHeld'
    BY NothingFalseStep, NothingFalseStutter, NextIsAnyStep DEF NothingFalseHeld
  <1> QED
    BY InitSound, <1>1, PTL DEF Spec

(* Every variable keeps its type, and a payment on record its time and its *)
(* reference (mark_paid).                                                  *)
THEOREM TypeCorrect == Spec => []TypeOK
  <1>1. NothingFalseHeld => TypeOK
    BY NoneAssumption
    DEF NothingFalseHeld, RowsSound, RowSound, PaymentOnRecord, TypeOK
  <1> QED
    BY NothingFalse, <1>1, PTL

(* Nobody is told of a payment that did not happen: paid, confirmed and    *)
(* reversed rows are all borne out by the processor, and confirmed ones    *)
(* have been paid for the settlement delay (pull_and_apply,                *)
(* promote_if_still_paid, the webhooks' corroboration).                    *)
THEOREM StatesEarned == Spec => []EveryStateEarned
  BY NothingFalse, EveryRowEarned, PTL

(* An answer "confirmed" is only given for a payment that earned it, and   *)
(* only when the confirmation is in the store, or a reversal came first    *)
(* (transaction_status, promote_if_still_paid).                            *)
THEOREM AnswersEarned == Spec => []ConfirmedAnswerEarned
  <1>1. ASSUME NothingFalseHeld PROVE ConfirmedAnswerEarned
    <2>1. ASSUME NEW h \in Handlers, At(h, "reply"), proc[h].reply = "confirmed"
          PROVE  LET i == proc[h].id IN
                 /\ rows[i].state \in {"confirmed", "reversed"}
                 /\ ExactSessions(i) # {}
                 /\ clock >= rows[i].paidAt + SettlementDelay
      <3>1. ConfirmedEarned(proc[h].id)
        BY <1>1, <2>1 DEF NothingFalseHeld, TasksSound, TaskSound, Procs, At
      <3> QED
        BY <3>1 DEF ConfirmedEarned, DelayElapsed
    <2> QED
      BY <2>1 DEF ConfirmedAnswerEarned
  <1> QED
    BY NothingFalse, <1>1, PTL
=============================================================================
