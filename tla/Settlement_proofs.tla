-------------------------- MODULE Settlement_proofs --------------------------
(***************************************************************************)
(* What Settlement guarantees for every number of correlations, sessions   *)
(* and concurrent requests, every settlement delay and every number of     *)
(* faults.                                                                 *)
(***************************************************************************)
EXTENDS Settlement, TLAPS

(***************************************************************************)
(* The steps of Settlement about any session and any event at all.  What   *)
(* is shown of them is shown of Settlement's own steps, which are about    *)
(* sessions some row refers to, and of Gateway's, which are about sessions *)
(* some buyer was given.                                                   *)
(***************************************************************************)
Restarted ==
  /\ faults' \in Nat
  /\ proc' = [p \in Procs |-> Idle]
  /\ UNCHANGED <<store, processors, clock>>

Surroundings ==
  \/ Tick
  \/ Restarted
  \/ \E s \in Session : \/ Pay(s) \/ Approve(s) \/ AutoCapture(s)
                        \/ CaptureSettles(s) \/ Refund(s) \/ Dispute(s)

Serves(h) ==
  \/ \E i \in Ids : StatusRead(h, i)
  \/ \E e \in Event : Deliver(h, e)
  \/ PullStep(h) \/ StatusStep(h) \/ WebhookStep(h)
  \/ HangUp(h)

AnyStep == Surroundings \/ WorkerStep \/ \E h \in Handlers : Serves(h)

-----------------------------------------------------------------------------
(* The store's updates and the pure judgements keep to their types.        *)

(* Every state a row is created or moved to is a row again (store.rs). *)
LEMMA NoRowType == NoRow \in Row
  BY DEF NoRow, Row, States

(* mark_paid yields a row. *)
LEMMA MarkPaidType ==
  ASSUME NEW row \in Row, NEW matched \in BOOLEAN, NEW ref \in Session \cup {None},
         NEW at \in Nat
  PROVE  MarkPaid(row, matched, ref, at) \in Row
  <1> DEFINE kept == IF ref = None THEN row.ref ELSE ref
  <1>1. kept \in Session \cup {None}
    BY DEF Row
  <1>2. ASSUME NEW r \in Session \cup {None}
        PROVE  [row EXCEPT !.state = "paid", !.matched = matched, !.ref = r,
                           !.paidAt = at] \in Row
    BY DEF Row, States
  <1> QED
    BY <1>1, <1>2 DEF MarkPaid

(* mark_confirmed yields a row. *)
LEMMA MarkConfirmedType ==
  ASSUME NEW row \in Row PROVE MarkConfirmed(row) \in Row
  BY DEF MarkConfirmed, Row, States

(* mark_reversed yields a row. *)
LEMMA MarkReversedType ==
  ASSUME NEW row \in Row PROVE MarkReversed(row) \in Row
  BY DEF MarkReversed, Row, States

(* report always has an answer. *)
LEMMA ReportType ==
  ASSUME NEW row \in Row, NEW now \in Nat
  PROVE  Report(row, now) \in Reports
  BY DEF Report, Reports, Row, States

(* A pull always has an outcome. *)
LEMMA VerdictType ==
  ASSUME NEW kind, NEW status, NEW exact \in BOOLEAN
  PROVE  Verdict(kind, status, exact) \in Outcomes
  BY DEF Verdict, StripeVerdict, PaypalVerdict, Paid, Outcomes

(* What a handler in flight is replaced by is one again. *)
LEMMA IdleType == Idle \in Task
  <1>1. Idle \in TaskRecord
    BY NoRowType DEF Idle, TaskRecord, Ops, Points, Outcomes, Reports
  <1> QED
    BY <1>1 DEF Idle, Task

(* A handler about to answer is one. *)
LEMMA AnsweringType ==
  ASSUME NEW task \in Task, NEW reply \in Reports, task.id \in Ids
  PROVE  Answering(task, reply) \in Task
  <1>1. task.op \in Ops
    BY DEF Task, TaskRecord
  <1> QED
    BY <1>1, IdleType DEF Answering, Task, TaskRecord, Points

(* So is the worker between two rows. *)
LEMMA NextRowType ==
  ASSUME NEW task \in Task PROVE NextRow(task) \in Task
  <1>1. task.op \in Ops /\ task.batch \in SUBSET [id : Ids, row : Row]
    BY DEF Task, TaskRecord
  <1> QED
    BY <1>1, IdleType DEF NextRow, Task, TaskRecord, Points

(* A status call that has read its row. *)
LEMMA BeginType ==
  ASSUME NEW i \in Ids, NEW row \in Row
  PROVE  [Idle EXCEPT !.op = "status", !.pc = "begin", !.id = i, !.snap = row] \in Task
  BY IdleType DEF Task, TaskRecord, Ops, Points

(* The worker with its list. *)
LEMMA ListedType ==
  ASSUME NEW batch \in SUBSET [id : Ids, row : Row]
  PROVE  [Idle EXCEPT !.op = "worker", !.pc = "next", !.batch = batch] \in Task
  BY IdleType DEF Task, TaskRecord, Ops, Points

(* The worker on a row of its list. *)
LEMMA VisitType ==
  ASSUME NEW i \in Ids, NEW row \in Row, NEW now \in Nat,
         NEW batch \in SUBSET [id : Ids, row : Row]
  PROVE  [Idle EXCEPT !.op = "worker", !.pc = "pull", !.id = i, !.snap = row,
                      !.now = now, !.batch = batch] \in Task
  BY IdleType DEF Task, TaskRecord, Ops, Points

(* A webhook's event, a payment hint or a reversal. *)
LEMMA DeliveredType ==
  ASSUME NEW e \in Event, NEW now \in Nat
  PROVE  /\ [Idle EXCEPT !.op = "payment", !.pc = "hint", !.now = now,
                         !.event = e] \in Task
         /\ [Idle EXCEPT !.op = "reversal", !.pc = "verify", !.event = e] \in Task
  BY IdleType DEF Task, TaskRecord, Ops, Points

(* A payment hint whose row was read. *)
LEMMA HintedType ==
  ASSUME NEW task \in Task, NEW i \in Ids, NEW row \in Row
  PROVE  [task EXCEPT !.pc = "pull", !.id = i, !.snap = row] \in Task
  BY DEF Task, TaskRecord, Points

(* Moving on within a pull keeps the row and the event it is about. *)
LEMMA PullPoints ==
  ASSUME NEW task \in Task, task.id \in Ids,
         NEW pc \in {"pull", "capture", "apply", "reread", "confirm"}
  PROVE  [task EXCEPT !.pc = pc] \in Task
  BY DEF Task, TaskRecord, Points

(* Whatever a pull ends in, its handler goes on as one. *)
LEMMA ResumeType ==
  ASSUME NEW task \in Task, task.id \in Ids PROVE Resume(task) \in Task
  BY PullPoints, AnsweringType, NextRowType, IdleType DEF Resume, Reports

(* And so it does from any outcome of a pull. *)
LEMMA PulledType ==
  ASSUME NEW task \in Task, task.id \in Ids, NEW outcome \in Outcomes
  PROVE  Pulled(task, outcome) \in Task
  <1> DEFINE done == [task EXCEPT !.got = outcome]
  <1>1. done \in Task /\ done.id \in Ids
    BY DEF Task, TaskRecord
  <1> HIDE DEF done
  <1>2. [done EXCEPT !.pc = "apply"] \in Task /\ Resume(done) \in Task
    BY <1>1, PullPoints, ResumeType
  <1> QED
    BY <1>2 DEF Pulled, done

(* And after a report. *)
LEMMA ReportedType ==
  ASSUME NEW task \in Task, task.id \in Ids, NEW row \in Row
  PROVE  Reported(task, row) \in Task
  <1>1. task.now \in Nat
    BY DEF Task, TaskRecord
  <1>2. Report(row, task.now) \in Reports
    BY <1>1, ReportType
  <1>3. [task EXCEPT !.snap = row, !.pc = "pull", !.promoting = TRUE,
                     !.got = "none"] \in Task
    BY DEF Task, TaskRecord, Points, Outcomes
  <1> QED
    BY <1>2, <1>3, AnsweringType DEF Reported
-----------------------------------------------------------------------------
(* Types.                                                                  *)

(* A step that leaves a handler with a task leaves `proc` well-typed. *)
LEMMA BecomesType ==
  ASSUME Types, NEW p \in Procs, NEW t \in Task, Becomes(p, t)
  PROVE  proc' \in [Procs -> Task]
  BY DEF Types, Becomes

(* The rows a run starts from are rows. *)
LEMMA MintedRowsType == ASSUME NEW i \in Ids PROVE MintedRows(i) \subseteq Row
  <1>1. (CHOOSE t \in Terms : TRUE) \in Terms
    BY TermsAssumption
  <1>2. \A kind \in Kinds : [kind |-> kind, id |-> i, attempt |-> 1] \in Session
    BY MaxAttemptAssumption DEF Session
  <1>3. ASSUME NEW kind \in Kinds, NEW processor \in Kinds \cup {None},
               NEW t \in Terms, NEW s \in Session
        PROVE  [NewRow(t) EXCEPT !.session = s, !.attempt = 1,
                                 !.processor = processor] \in Row
    BY DEF NewRow, NoRow, Row, States
  <1>4. ASSUME NEW kind \in Kinds, NEW processor \in Kinds \cup {None}
        PROVE  Minted(i, kind, processor) \in Row
    BY <1>1, <1>2, <1>3 DEF Minted
  <1>5. \A kind \in InitKinds : kind \in Kinds
    BY InitKindsAssumption
  <1> QED
    BY <1>4, <1>5 DEF MintedRows, Kinds

(* A session some row refers to is a session. *)
LEMMA BoundType == Types => Bound \subseteq Session
  BY DEF Types, Bound, Row

(* The program starts well-typed. *)
LEMMA InitTypes == Init => Types
  <1> SUFFICES ASSUME Init PROVE Types
    OBVIOUS
  <1>1. rows \in [Ids -> Row]
    BY MintedRowsType DEF Init
  <1>2. drifted \in SUBSET Session
    BY <1>1 DEF Init, Bound, Row
  <1>3. proc \in [Procs -> Task]
    BY IdleType DEF Init
  <1> QED
    BY <1>1, <1>2, <1>3 DEF Init, Types, ChargeStates

(* The buyer, the processors and the clock. *)
LEMMA SurroundingsTypes ==
  ASSUME Types, Surroundings PROVE Types'
  <1>1. CASE Tick
    BY <1>1 DEF Tick, Types, store, processors
  <1>2. CASE Restarted
    <2>1. proc' \in [Procs -> Task]
      BY <1>2, IdleType DEF Restarted
    <2> QED
      BY <1>2, <2>1 DEF Restarted, Types, store, processors
  <1>3. ASSUME NEW s \in Session,
               \/ Pay(s) \/ Approve(s) \/ AutoCapture(s)
               \/ CaptureSettles(s) \/ Refund(s) \/ Dispute(s)
        PROVE  Types'
    <2>2. charge' \in [Session -> ChargeStates]
      BY <1>3 DEF Types, ChargeStates, Pay, Approve, AutoCapture, CaptureSettles,
                  Refund, Dispute, ChargeMoves
    <2>3. refundedAt' \in [Session -> Nat \cup {None}]
      BY <1>3 DEF Types, Pay, Approve, AutoCapture, CaptureSettles, Refund, Dispute
    <2>4. UNCHANGED <<rows, seen, drifted, clock, proc, faults>>
      BY <1>3 DEF Pay, Approve, AutoCapture, CaptureSettles, Refund, Dispute,
                  ChargeMoves, store
    <2> QED
      BY <2>2, <2>3, <2>4 DEF Types
  <1> QED
    BY <1>1, <1>2, <1>3 DEF Surroundings

(* The pull, whoever makes it. *)
LEMMA PullTypes ==
  ASSUME Types, NEW p \in Procs, PullStep(p) PROVE Types'
  <1> DEFINE task == proc[p]
  <1>1. task \in Task /\ task.snap \in Row /\ task.now \in Nat
    BY DEF Types, Task, TaskRecord
  <1>0. task.id \in Ids
    BY <1>1 DEF PullStep, Pull, Capture, Apply, At, Task
  <1>2. "unpaid" \in Outcomes /\ "unavailable" \in Outcomes
    BY DEF Outcomes
  <1>3. [task EXCEPT !.pc = "capture"] \in Task
    BY <1>0, <1>1, PullPoints
  <1>4. \A outcome \in Outcomes :
          /\ [task EXCEPT !.got = outcome] \in Task
          /\ [task EXCEPT !.got = outcome].id \in Ids
    BY <1>0, <1>1 DEF Task, TaskRecord
  <1>5. faults' \in Nat
    BY DEF Types, PullStep, Pull, Capture, Apply, Fault, NoFault
  <1>6. CASE Pull(p)
    <2>1. proc' \in [Procs -> Task]
      <3>1. \E t \in Task : Becomes(p, t)
        BY <1>0, <1>1, <1>2, <1>3, <1>6, PulledType, VerdictType DEF Pull
      <3> QED
        BY <3>1 DEF Becomes, Types
    <2> QED
      BY <1>5, <1>6, <2>1 DEF Pull, Types, store, processors
  <1>7. CASE Capture(p)
    <2>1. proc' \in [Procs -> Task]
      <3>1. \A status : \A exact \in BOOLEAN : PaypalVerdict(status, exact) \in Outcomes
        BY DEF PaypalVerdict, Paid, Outcomes
      <3>2. \E t \in Task : Becomes(p, t)
        BY <1>0, <1>1, <1>2, <1>7, <3>1, PulledType DEF Capture
      <3> QED
        BY <3>2 DEF Becomes, Types
    <2>2. charge' \in [Session -> ChargeStates]
      BY <1>7 DEF Capture, Types, ChargeStates
    <2> QED
      BY <1>5, <1>7, <2>1, <2>2 DEF Capture, Types, store
  <1>8. CASE Apply(p)
    <2>1. proc' \in [Procs -> Task]
      <3>1. \E t \in Task : Becomes(p, t)
        BY <1>0, <1>1, <1>2, <1>4, <1>8, ResumeType DEF Apply
      <3> QED
        BY <3>1 DEF Becomes, Types
    <2>2. rows' \in [Ids -> Row]
      <3>1. task.snap.session \in Session \cup {None}
        BY <1>1 DEF Row
      <3>2. \A row \in Row :
              MarkPaid(row, task.got = "matched", task.snap.session, task.now) \in Row
        BY <1>1, <3>1, MarkPaidType
      <3> QED
        BY <1>8, <3>2 DEF Apply, Types
    <2> QED
      BY <1>5, <1>8, <2>1, <2>2 DEF Apply, Types, processors
  <1> QED
    BY <1>6, <1>7, <1>8 DEF PullStep
(* The status endpoint. *)
LEMMA StatusTypes ==
  ASSUME Types, NEW h \in Handlers,
         (\E i \in Ids : StatusRead(h, i)) \/ StatusStep(h)
  PROVE  Types'
  <1> DEFINE task == proc[h]
  <1>0. h \in Procs /\ task \in Task /\ task.snap \in Row /\ clock \in Nat
    BY DEF Types, Task, TaskRecord, Procs
  <1>1. StatusStep(h) => faults' \in Nat
    BY DEF Types, StatusStep, StatusBegin, StatusReread, StatusConfirm, StatusReply,
           Fault, NoFault
  <1>2. ASSUME NEW i \in Ids, StatusRead(h, i) PROVE Types'
    <2>1. rows[i] \in Row
      BY DEF Types
    <2>2. [Idle EXCEPT !.op = "status", !.pc = "begin", !.id = i,
                       !.snap = rows[i]] \in Task
      BY <2>1, BeginType
    <2> QED
      BY <1>0, <1>2, <2>2 DEF StatusRead, Becomes, Types, store, processors
  <1>3. CASE StatusBegin(h)
    <2> DEFINE timed == [task EXCEPT !.now = clock]
    <2>1. timed \in Task /\ timed.snap \in Row /\ timed.id \in Ids
      BY <1>0, <1>3 DEF StatusBegin, At, Task, TaskRecord
    <2>2. [timed EXCEPT !.pc = "pull"] \in Task
      BY <2>1, PullPoints
    <2>3. Reported(timed, timed.snap) \in Task
      BY <2>1, ReportedType
    <2> HIDE DEF timed
    <2>4. \E t \in Task : Becomes(h, t)
      BY <1>3, <2>2, <2>3 DEF StatusBegin, timed
    <2> QED
      BY <1>3, <2>4 DEF StatusBegin, Becomes, Types, store, processors
  <1>4. CASE StatusReread(h)
    <2>1. task.id \in Ids
      BY <1>0, <1>4 DEF StatusReread, At, Task
    <2>2. rows[task.id] \in Row
      BY <2>1 DEF Types
    <2>3. Reported(task, rows[task.id]) \in Task /\ Reported(task, task.snap) \in Task
      BY <1>0, <2>1, <2>2, ReportedType
    <2> QED
      BY <1>0, <1>1, <1>4, <2>3
      DEF StatusReread, StatusStep, Becomes, Types, store, processors
  <1>5. CASE StatusConfirm(h)
    <2>1. task.id \in Ids /\ "confirmed" \in Reports /\ "detected" \in Reports
      BY <1>0, <1>5 DEF StatusConfirm, At, Task, Reports
    <2>2. \E t \in Task : Becomes(h, t)
      BY <1>0, <1>5, <2>1, AnsweringType DEF StatusConfirm
    <2>3. rows' \in [Ids -> Row]
      BY <1>5, MarkConfirmedType DEF StatusConfirm, Types
    <2> QED
      BY <1>1, <1>5, <2>2, <2>3 DEF StatusConfirm, StatusStep, Becomes, Types, processors
  <1>6. CASE StatusReply(h)
    BY <1>0, <1>6, IdleType DEF StatusReply, Becomes, Types, store, processors
  <1> QED
    BY <1>2, <1>3, <1>4, <1>5, <1>6 DEF StatusStep

(* The worker. *)
LEMMA WorkerTypes ==
  ASSUME Types, WorkerList \/ WorkerNext \/ WorkerReread \/ WorkerConfirm
  PROVE  Types'
  <1> DEFINE task == proc[Worker]
  <1>0. Worker \in Procs /\ task \in Task /\ clock \in Nat
    BY DEF Types, Procs
  <1>00. task.batch \in SUBSET [id : Ids, row : Row]
    BY <1>0 DEF Task, TaskRecord
  <1>1. CASE WorkerList
    <2> DEFINE batch == {[id |-> i, row |-> rows[i]] : i \in OpenFiatCorrelations(rows, PollLimit)}
    <2>1. batch \in SUBSET [id : Ids, row : Row]
      <3>1. \A i \in OpenFiatCorrelations(rows, PollLimit) : i \in Ids /\ rows[i] \in Row
        BY DEF Types, OpenFiatCorrelations, Open
      <3>2. \A i \in OpenFiatCorrelations(rows, PollLimit) :
              [id |-> i, row |-> rows[i]] \in [id : Ids, row : Row]
        BY <3>1
      <3> QED
        BY <3>2
    <2> HIDE DEF batch
    <2>2. [Idle EXCEPT !.op = "worker", !.pc = "next", !.batch = batch] \in Task
      BY <2>1, ListedType
    <2>3. proc' \in [Procs -> Task]
      BY <1>0, <1>1, <2>2, BecomesType DEF WorkerList, batch
    <2> QED
      BY <1>1, <2>3 DEF WorkerList, Types, store, processors
  <1>2. CASE WorkerNext
    <2>1. ASSUME NEW item \in task.batch
          PROVE  [Idle EXCEPT !.op = "worker", !.pc = "pull", !.id = item.id,
                              !.snap = item.row, !.now = clock,
                              !.batch = task.batch \ {item}] \in Task
      <3>1. item.id \in Ids /\ item.row \in Row
        BY <1>00
      <3>2. task.batch \ {item} \in SUBSET [id : Ids, row : Row]
        BY <1>00
      <3> QED
        BY <1>0, <3>1, <3>2, VisitType
    <2>2. \E t \in Task : Becomes(Worker, t)
      BY <1>2, <2>1, IdleType DEF WorkerNext
    <2>3. proc' \in [Procs -> Task]
      BY <1>0, <2>2, BecomesType
    <2> QED
      BY <1>2, <2>3 DEF WorkerNext, Types, store, processors
  <1>3. CASE WorkerReread
    <2>1. task.id \in Ids
      BY <1>0, <1>3 DEF WorkerReread, At, Task
    <2>3. [task EXCEPT !.pc = "confirm"] \in Task
      BY <1>0, <2>1, PullPoints
    <2>4. \E t \in Task : Becomes(Worker, t)
      BY <1>0, <1>3, <2>3, NextRowType DEF WorkerReread
    <2>5. proc' \in [Procs -> Task] /\ faults' \in Nat
      BY <1>0, <1>3, <2>4, BecomesType DEF WorkerReread, Types, Fault, NoFault
    <2> QED
      BY <1>3, <2>5 DEF WorkerReread, Types, store, processors
  <1>4. CASE WorkerConfirm
    <2>1. rows' \in [Ids -> Row]
      BY <1>4, MarkConfirmedType DEF WorkerConfirm, Types
    <2> QED
      BY <1>0, <1>4, <2>1, NextRowType
      DEF WorkerConfirm, Becomes, Types, processors, Fault, NoFault
  <1> QED
    BY <1>1, <1>2, <1>3, <1>4

(* The webhooks, and handlers that are lost. *)
LEMMA WebhookTypes ==
  ASSUME Types, NEW h \in Handlers,
         (\E e \in Event : Deliver(h, e)) \/ WebhookStep(h) \/ HangUp(h)
  PROVE  Types'
  <1> DEFINE task == proc[h]
  <1>0. h \in Procs /\ task \in Task /\ clock \in Nat
    BY DEF Types, Procs
  <1>1. ASSUME NEW e \in Event, Deliver(h, e) PROVE Types'
    <2>1. /\ [Idle EXCEPT !.op = "payment", !.pc = "hint", !.now = clock,
                          !.event = e] \in Task
          /\ [Idle EXCEPT !.op = "reversal", !.pc = "verify", !.event = e] \in Task
      BY <1>0, DeliveredType
    <2>3. proc' \in [Procs -> Task]
      BY <1>0, <1>1, <2>1, BecomesType DEF Deliver
    <2> QED
      BY <1>1, <2>3 DEF Deliver, Types, processors
  <1>2. CASE HintRead(h)
    <2> DEFINE i == task.event.session.id
    <2>1. i \in Ids
      BY <1>0, <1>2 DEF HintRead, At, Task, Event, Session
    <2>2. rows[i] \in Row
      BY <2>1 DEF Types
    <2> HIDE DEF i
    <2>3. [task EXCEPT !.pc = "pull", !.id = i, !.snap = rows[i]] \in Task
      BY <1>0, <2>1, <2>2, HintedType
    <2>4. \E t \in Task : Becomes(h, t)
      BY <1>2, <2>3, IdleType DEF HintRead, i
    <2>5. proc' \in [Procs -> Task]
      BY <1>0, <2>4, BecomesType
    <2>6. faults' \in Nat
      BY <1>2 DEF HintRead, Types, Fault, NoFault
    <2> QED
      BY <1>2, <2>5, <2>6 DEF HintRead, Types, store, processors
  <1>3. CASE ReversalVerify(h)
    <2>1. task.event \in Event
      BY <1>0, <1>3 DEF ReversalVerify, At, Task
    <2>2. [task EXCEPT !.pc = "find"] \in Task
      BY <1>0, <2>1 DEF Task, TaskRecord, Points
    <2>3. \E t \in Task : Becomes(h, t)
      BY <1>3, <2>2, IdleType DEF ReversalVerify
    <2>4. proc' \in [Procs -> Task]
      BY <1>0, <2>3, BecomesType
    <2>5. faults' \in Nat
      BY <1>3 DEF ReversalVerify, Types, Fault, NoFault
    <2> QED
      BY <1>3, <2>4, <2>5 DEF ReversalVerify, Types, store, processors
  <1>4. CASE ReversalFind(h)
    <2>1. task.event \in Event
      BY <1>0, <1>4 DEF ReversalFind, At, Task
    <2>2. \A i \in Ids : [task EXCEPT !.pc = "reverse", !.id = i] \in Task
      BY <1>0, <2>1 DEF Task, TaskRecord, Points
    <2>3. Resolved(task.event) \subseteq Ids
      BY <2>1 DEF Resolved, FindByPaymentIntent, Event, Session
    <2>4. \E t \in Task : Becomes(h, t)
      BY <1>4, <2>2, <2>3, IdleType DEF ReversalFind
    <2>5. proc' \in [Procs -> Task]
      BY <1>0, <2>4, BecomesType
    <2>6. faults' \in Nat
      <3>1. Fault \/ NoFault
        BY <1>4, Zenon DEF ReversalFind
      <3> QED
        BY <3>1 DEF Types, Fault, NoFault
    <2> QED
      BY <1>4, <2>5, <2>6 DEF ReversalFind, Types, store, processors
  <1>5. CASE Reverse(h)
    <2>1. rows' \in [Ids -> Row]
      BY <1>5, MarkReversedType DEF Reverse, Types
    <2> QED
      BY <1>0, <1>5, <2>1, IdleType DEF Reverse, Becomes, Types, processors, Fault, NoFault
  <1>6. CASE HangUp(h)
    BY <1>0, <1>6, IdleType DEF HangUp, Becomes, Types, store, processors, Fault
  <1> QED
    BY <1>1, <1>2, <1>3, <1>4, <1>5, <1>6 DEF WebhookStep

(* Every step keeps the types. *)
LEMMA TypesStep ==
  ASSUME Types, AnyStep PROVE Types'
  <1>1. CASE WorkerStep
    BY <1>1, PullTypes, WorkerTypes DEF WorkerStep, Procs
  <1>2. ASSUME NEW h \in Handlers, Serves(h) PROVE Types'
    BY <1>2, PullTypes, StatusTypes, WebhookTypes DEF Serves, Procs
  <1> QED
    BY <1>1, <1>2, SurroundingsTypes DEF AnyStep

(* Settlement's own steps are among them. *)
LEMMA NextIsAnyStep == ASSUME Types, Next PROVE AnyStep
  <1>0. \A s \in Bound : s \in Session
    BY BoundType
  <1>1. CASE Environment
    <2>1. Crash => Restarted
      BY DEF Crash, Restarted, Fault, Types
    <2> QED
      BY <1>0, <1>1, <2>1 DEF Environment, Surroundings, AnyStep
  <1>2. ASSUME NEW h \in Handlers, HandlerStep(h) PROVE Serves(h)
    <2>1. \A t \in EventTypes, s \in Bound : [type |-> t, session |-> s] \in Event
      BY <1>0 DEF Event
    <2> QED
      BY <1>2, <2>1 DEF HandlerStep, Serves
  <1> QED
    BY <1>1, <1>2 DEF Next, AnyStep
=============================================================================
