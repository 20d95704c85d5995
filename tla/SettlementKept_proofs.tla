------------------------ MODULE SettlementKept_proofs ------------------------
(***************************************************************************)
(* What more follows from the invariant of Settlement.                     *)
(*                                                                         *)
(* It implements Ledger: whatever the interleaving of handlers, webhooks   *)
(* and polls, a correlation only ever moves as the Lock Server was         *)
(* promised.  The invariant supplies the guards of Ledger's actions, Grows *)
(* the monotonicity of its books.                                          *)
(*                                                                         *)
(* And of rows that keep their session, which is what Settlement's own     *)
(* steps leave them: a payment refunded in time is not confirmed, one of   *)
(* the wrong amount is not promoted, a reference leads to its row, and an  *)
(* accepted refund takes effect.                                           *)
(***************************************************************************)
EXTENDS SettlementInv_proofs

(* The refinement mapping, one row at a time. *)
Phase(row) == IF row.state = "absent" THEN "created" ELSE row.state
Since(row) == IF row.paidAt = None THEN 0 ELSE row.paidAt

(* Nothing was charged, and nothing detected, at the start. *)
LEMMA InitLedger == Init => L!Init
  <1> SUFFICES ASSUME Init PROVE L!Init
    OBVIOUS
  <1>1. \A i \in Ids : rows[i].state = "created" /\ rows[i].paidAt = None
    <2>1. ASSUME NEW i \in Ids, NEW kind, NEW processor
          PROVE  /\ Minted(i, kind, processor).state = "created"
                 /\ Minted(i, kind, processor).paidAt = None
      BY DEF Minted, NewRow, NoRow
    <2>2. \A i \in Ids : \E kind, processor : rows[i] = Minted(i, kind, processor)
      BY DEF Init, MintedRows
    <2> QED
      BY <2>1, <2>2
  <1>2. \A s \in Session : ~Taken(charge[s]) /\ ~GivenBack(charge[s])
    BY DEF Init, Taken, GivenBack
  <1>3. \A i \in Ids : PaidSessions(i) = {} /\ ExactSessions(i) = {}
    BY <1>2 DEF PaidSessions, ExactSessions
  <1> QED
    BY <1>1, <1>2, <1>3 DEF L!Init, Init

(* A step that leaves rows and clock alone can only move money, one way. *)
LEMMA MoneyLedger ==
  ASSUME Types, Grows, UNCHANGED <<rows, clock>> PROVE L!MoneyMoves
  <1>1. \A i \in Ids : /\ PaidSessions(i) \subseteq PaidSessions(i)'
                       /\ ExactSessions(i) \subseteq ExactSessions(i)'
                       /\ ExactSessions(i)' \subseteq PaidSessions(i)'
    BY DEF Grows, PaidSessions, ExactSessions
  <1>2. \A i \in Ids : (\E s \in Session : s.id = i /\ GivenBack(charge[s]))
                         => \E s \in Session : s.id = i /\ GivenBack(charge'[s])
    BY DEF Grows
  <1> QED
    BY <1>1, <1>2 DEF L!MoneyMoves

(* Time passing is time passing. *)
LEMMA TickLedger == ASSUME Tick PROVE L!Elapse
  BY DEF Tick, L!Elapse, L!money, PaidSessions, ExactSessions, store, processors

(* One row written, seen through the mapping. *)
LEMMA RowLedger ==
  ASSUME Types, NEW i \in Ids, NEW new \in Row, rows' = [rows EXCEPT ![i] = new]
  PROVE  /\ [j \in Ids |-> Phase(rows'[j])]
              = [[j \in Ids |-> Phase(rows[j])] EXCEPT ![i] = Phase(new)]
         /\ [j \in Ids |-> Since(rows'[j])]
              = [[j \in Ids |-> Since(rows[j])] EXCEPT ![i] = Since(new)]
  BY DEF Types

(* A mark_paid that wrote something is a detection. *)
LEMMA DetectLedger ==
  ASSUME Types, RowsSound, NEW p \in Procs, TaskSound(proc[p]), Apply(p), rows' # rows
  PROVE  \E i \in Ids : L!Detect(i)
  <1> DEFINE task == proc[p]
  <1>0. /\ task.pc = "apply" /\ task.id \in Ids /\ task.now \in Nat
        /\ task.snap.session \in Session \cup {None}
    BY TaskParts DEF Apply, At, OnRow, Row
  <1> PICK i \in Ids : i = task.id
    BY <1>0
  <1> PICK row \in Row : row = rows[i]
    BY DEF Types
  <1>1. MarkPaid(row, task.got = "matched", task.snap.session, task.now) \in Row
    BY <1>0, MarkPaidType
  <1> PICK new \in Row :
        new = MarkPaid(row, task.got = "matched", task.snap.session, task.now)
    BY <1>1
  <1>2. rows' = [rows EXCEPT ![i] = new]
    BY DEF Apply
  <1>3. row.state = "created"
    BY <1>2 DEF MarkPaid, Types
  <1>4. new.state = "paid" /\ new.paidAt = task.now
    BY <1>3 DEF MarkPaid, Row
  <1> DEFINE s == task.snap.session
  <1>5. /\ task.now <= clock /\ clock \in Nat
        /\ s \in Session /\ s.id = i /\ Taken(charge[s])
    BY <1>0 DEF TaskSound, SnapSound, RowSound, PullSound, OnRow, Types
  <1>7. PaidSessions(i) # {}
    BY <1>5 DEF PaidSessions
  <1>8. task.now \in 0..clock /\ Since(new) = task.now
    BY <1>0, <1>4, <1>5, NoneAssumption DEF Since
  <1>9. /\ [j \in Ids |-> Phase(rows'[j])]
             = [[j \in Ids |-> Phase(rows[j])] EXCEPT ![i] = "paid"]
        /\ [j \in Ids |-> Since(rows'[j])]
             = [[j \in Ids |-> Since(rows[j])] EXCEPT ![i] = task.now]
    <2>1. /\ [j \in Ids |-> Phase(rows'[j])]
               = [[j \in Ids |-> Phase(rows[j])] EXCEPT ![i] = Phase(new)]
          /\ [j \in Ids |-> Since(rows'[j])]
               = [[j \in Ids |-> Since(rows[j])] EXCEPT ![i] = Since(new)]
      BY <1>2, RowLedger
    <2> QED
      BY <1>4, <1>8, <2>1 DEF Phase
  <1>10. UNCHANGED <<charge, drifted, clock>>
    BY DEF Apply, processors
  <1>11. L!Move(i, {"created"}, "paid")
    BY <1>3, <1>9, <1>10 DEF L!Move, L!money, PaidSessions, ExactSessions, Phase
  <1>12. L!Detect(i)
    BY <1>7, <1>8, <1>9, <1>11 DEF L!Detect, Since
  <1> QED
    BY <1>12

(* A mark_confirmed that wrote something is a confirmation. *)
LEMMA ConfirmLedger ==
  ASSUME Types, RowsSound, NEW p \in Procs, TaskSound(proc[p]),
         StatusConfirm(p) \/ (p = Worker /\ WorkerConfirm), rows' # rows
  PROVE  \E i \in Ids : L!Confirm(i)
  <1>0. /\ At(p, "confirm") /\ rows' = [rows EXCEPT ![proc[p].id] = MarkConfirmed(@)]
        /\ UNCHANGED <<charge, drifted, clock>>
    BY DEF StatusConfirm, WorkerConfirm, processors
  <1> PICK i \in Ids : i = proc[p].id
    BY <1>0, ConfirmEarned
  <1> PICK row \in Row : row = rows[i]
    BY DEF Types
  <1> PICK new \in Row : new = MarkConfirmed(row)
    BY MarkConfirmedType
  <1>1. rows' = [rows EXCEPT ![i] = new]
    BY <1>0
  <1>2. row.state = "paid"
    BY <1>1 DEF MarkConfirmed, Types
  <1>3. new.state = "confirmed" /\ new.paidAt = row.paidAt
    BY <1>2 DEF MarkConfirmed, Row
  <1>4. ExactSessions(i) # {} /\ DelayElapsed(row, clock)
    BY <1>0, ConfirmEarned
  <1>7. clock >= Since(row) + SettlementDelay
    BY <1>4 DEF Since, DelayElapsed
  <1>8. /\ [j \in Ids |-> Phase(rows'[j])]
             = [[j \in Ids |-> Phase(rows[j])] EXCEPT ![i] = "confirmed"]
        /\ \A j \in Ids : Since(rows'[j]) = Since(rows[j])
    BY <1>1, <1>3, RowLedger DEF Phase, Since, Types
  <1>9. L!Move(i, {"paid"}, "confirmed")
    BY <1>0, <1>2, <1>8 DEF L!Move, L!money, PaidSessions, ExactSessions, Phase
  <1>10. L!Confirm(i)
    BY <1>4, <1>7, <1>8, <1>9 DEF L!Confirm, Since
  <1> QED
    BY <1>10

(* A mark_reversed that wrote something is a reversal. *)
LEMMA ReverseLedger ==
  ASSUME Types, RowsSound, NEW p \in Procs, TaskSound(proc[p]), Reverse(p), rows' # rows
  PROVE  \E i \in Ids : L!Reverse(i)
  <1> DEFINE s == proc[p].event.session
  <1>0. s \in Session /\ GivenBack(charge[s]) /\ proc[p].id = s.id /\ s.id \in Ids
    BY TaskParts DEF Reverse, At, TaskSound, EventSound
  <1> PICK i \in Ids : i = proc[p].id
    BY <1>0
  <1> PICK row \in Row : row = rows[i]
    BY DEF Types
  <1> PICK new \in Row : new = MarkReversed(row)
    BY MarkReversedType
  <1>1. rows' = [rows EXCEPT ![i] = new] /\ UNCHANGED <<charge, drifted, clock>>
    BY DEF Reverse, processors
  <1>2. row.state \in {"created", "paid"}
    BY <1>1 DEF MarkReversed, Types
  <1>3. new.state = "reversed" /\ new.paidAt = row.paidAt
    BY <1>2 DEF MarkReversed, Row
  <1>4. /\ [j \in Ids |-> Phase(rows'[j])]
             = [[j \in Ids |-> Phase(rows[j])] EXCEPT ![i] = "reversed"]
        /\ \A j \in Ids : Since(rows'[j]) = Since(rows[j])
    BY <1>1, <1>3, RowLedger DEF Phase, Since, Types
  <1>5. L!Move(i, {"created", "paid"}, "reversed")
    BY <1>1, <1>2, <1>4 DEF L!Move, L!money, PaidSessions, ExactSessions, Phase
  <1>6. L!Reverse(i)
    BY <1>0, <1>4, <1>5 DEF L!Reverse, Since
  <1> QED
    BY <1>6

(* Every other step leaves rows and clock alone, or is the clock's. *)
LEMMA RestLedger ==
  ASSUME Types, AnyStep
  PROVE  \/ UNCHANGED <<rows, clock>>
         \/ Tick
         \/ \E p \in Procs : /\ \/ Apply(p) \/ StatusConfirm(p) \/ Reverse(p)
                                \/ p = Worker /\ WorkerConfirm
                             /\ rows' # rows
  <1> DEFINE Writes(p) == /\ \/ Apply(p) \/ StatusConfirm(p) \/ Reverse(p)
                             \/ p = Worker /\ WorkerConfirm
                          /\ rows' # rows
  <1>1. ASSUME NEW p \in Procs,
               Apply(p) \/ StatusConfirm(p) \/ Reverse(p) \/ (p = Worker /\ WorkerConfirm)
        PROVE  UNCHANGED <<rows, clock>> \/ Writes(p)
    BY <1>1 DEF Apply, StatusConfirm, Reverse, WorkerConfirm
  <1>2. ASSUME NEW p \in Procs, PullStep(p)
        PROVE  UNCHANGED <<rows, clock>> \/ \E q \in Procs : Writes(q)
    BY <1>1, <1>2 DEF PullStep, Pull, Capture, store
  <1>3. CASE Surroundings
    BY <1>3
    DEF Surroundings, Restarted, Pay, Approve, AutoCapture, CaptureSettles, Refund, Dispute,
        ChargeMoves, store
  <1>4. CASE WorkerStep
    BY <1>1, <1>2, <1>4 DEF WorkerStep, WorkerList, WorkerNext, WorkerReread, store, Procs
  <1>5. ASSUME NEW h \in Handlers, Serves(h)
        PROVE  UNCHANGED <<rows, clock>> \/ \E q \in Procs : Writes(q)
    <2>1. h \in Procs
      BY DEF Procs
    <2>2. CASE (\E i \in Ids : StatusRead(h, i)) \/ StatusBegin(h) \/ StatusReread(h)
               \/ StatusReply(h) \/ HintRead(h) \/ ReversalVerify(h) \/ HangUp(h)
      BY <2>2
      DEF StatusRead, StatusBegin, StatusReread, StatusReply, HintRead, ReversalVerify,
          HangUp, store
    <2>3. CASE ReversalFind(h)
      BY <2>3 DEF ReversalFind, store
    <2>4. CASE \E e \in Event : Deliver(h, e)
      BY <2>4 DEF Deliver
    <2>5. CASE PullStep(h)
      BY <1>2, <2>1, <2>5
    <2>6. CASE StatusConfirm(h) \/ Reverse(h)
      BY <1>1, <2>1, <2>6
    <2> QED
      BY <1>5, <2>2, <2>3, <2>4, <2>5, <2>6 DEF Serves, StatusStep, WebhookStep
  <1> QED
    BY <1>3, <1>4, <1>5 DEF AnyStep

(* Every step of the verifier is a step of Ledger, or none. *)
LEMMA StepLedger == ASSUME NothingFalseHeld, AnyStep PROVE L!Next
  <1>1. /\ Types /\ RowsSound /\ Grows
        /\ \A p \in Procs : TaskSound(proc[p])
    BY StepGrows DEF NothingFalseHeld, TasksSound
  <1>2. CASE UNCHANGED <<rows, clock>>
    BY <1>1, <1>2, MoneyLedger DEF L!Next
  <1>3. CASE Tick
    BY <1>3, TickLedger DEF L!Next
  <1>4. ASSUME NEW p \in Procs, rows' # rows,
               Apply(p) \/ StatusConfirm(p) \/ Reverse(p) \/ (p = Worker /\ WorkerConfirm)
        PROVE  \E i \in Ids : L!Detect(i) \/ L!Confirm(i) \/ L!Reverse(i)
    <2>1. CASE Apply(p)
      BY <1>1, <1>4, <2>1, DetectLedger
    <2>2. CASE StatusConfirm(p) \/ (p = Worker /\ WorkerConfirm)
      BY <1>1, <1>4, <2>2, ConfirmLedger
    <2>3. CASE Reverse(p)
      BY <1>1, <1>4, <2>3, ReverseLedger
    <2> QED
      BY <1>4, <2>1, <2>2, <2>3
  <1> QED
    BY <1>1, <1>2, <1>3, <1>4, RestLedger DEF L!Next

(* What the Lock Server relies on, whatever the interleaving of status     *)
(* calls, webhooks and polls: the verifier implements Ledger               *)
(* (verification.rs, worker.rs, http.rs, store.rs).                        *)
THEOREM ImplementsLedger == Spec => LedgerSpec
  <1>1. NothingFalseHeld /\ Next => L!Next
    BY StepLedger, NextIsAnyStep DEF NothingFalseHeld
  <1>3. UNCHANGED vars => UNCHANGED L!vars
    BY DEF vars, L!vars, PaidSessions, ExactSessions
  <1>2. NothingFalseHeld /\ [Next]_vars => [L!Next]_(L!vars)
    BY <1>1, <1>3
  <1> QED
    BY InitLedger, NothingFalse, <1>2, PTL DEF Spec, LedgerSpec, L!Spec

-----------------------------------------------------------------------------
(* What a step leaves as it was.                                           *)

BooksKept ==
  \A s \in Session :
    refundedAt[s] # None => charge[s] = "refunded" /\ refundedAt[s] <= clock

(* Rows keep their session; a refund is dated when it is made. *)
Keeps ==
  /\ clock' \in Nat /\ clock' >= clock
  /\ \A i \in Ids : /\ rows'[i].session = rows[i].session
                    /\ rows'[i].processor = rows[i].processor
  /\ \A s \in Session : \/ refundedAt'[s] = refundedAt[s]
                        \/ refundedAt'[s] = clock

(* What minting writes of a row, which the settlement side leaves alone. *)
MintedPart(row) ==
  <<row.terms, row.processor, row.session, row.expires, row.origin, row.attempt>>

(* The three updates leave the session of a row alone. *)
LEMMA MarksKeep ==
  ASSUME NEW row \in Row, NEW matched, NEW ref, NEW at,
         NEW new \in {row, MarkPaid(row, matched, ref, at), MarkConfirmed(row),
                      MarkReversed(row)}
  PROVE  /\ new.session = row.session /\ new.processor = row.processor
         /\ MintedPart(new) = MintedPart(row)
         /\ row.state # "absent" => new.state # "absent"
         /\ row.state = "absent" => new.state = "absent"
  BY DEF MarkPaid, MarkConfirmed, MarkReversed, Row, MintedPart

(* What one handler, or the worker, writes in a step: of the processors'   *)
(* books a capture, of the rows one, by one of the three updates.          *)
ActorWrites(p) ==
  /\ UNCHANGED <<drifted, refundedAt, clock>>
  /\ UNCHANGED charge \/ Capture(p)
  /\ \/ UNCHANGED rows
     \/ Apply(p)
     \/ At(p, "confirm") /\ rows' = [rows EXCEPT ![proc[p].id] = MarkConfirmed(@)]
     \/ Reverse(p)

(* Buyers, processors and the clock write no row. *)
LEMMA SurroundingsKeep ==
  ASSUME Types, BooksKept, Surroundings PROVE Keeps /\ BooksKept' /\ UNCHANGED rows
  <1>1. CASE Tick
    BY <1>1 DEF Tick, Keeps, BooksKept, Types, store, processors
  <1>2. CASE Restarted
    BY <1>2 DEF Restarted, Keeps, BooksKept, Types, store, processors
  <1>3. ASSUME NEW s \in Session, Refund(s) PROVE Keeps /\ BooksKept' /\ UNCHANGED rows
    BY <1>3, NoneAssumption DEF Refund, ChargeMoves, Keeps, BooksKept, Types, store
  <1>4. ASSUME NEW s \in Session,
               Pay(s) \/ Approve(s) \/ AutoCapture(s) \/ CaptureSettles(s) \/ Dispute(s)
        PROVE  Keeps /\ BooksKept' /\ UNCHANGED rows
    <2>1. /\ UNCHANGED <<rows, refundedAt, clock>> /\ charge[s] # "refunded"
          /\ \E to : charge' = [charge EXCEPT ![s] = to]
      BY <1>4 DEF Pay, Approve, AutoCapture, CaptureSettles, Dispute, ChargeMoves, store
    <2> QED
      BY <2>1 DEF Keeps, BooksKept, Types
  <1> QED
    BY <1>1, <1>2, <1>3, <1>4 DEF Surroundings

(* And that is all. *)
LEMMA ActorWritesOnly ==
  ASSUME NEW p \in Procs, PullStep(p) \/ (p = Worker /\ WorkerStep) \/ Serves(p)
  PROVE  ActorWrites(p)
  <1>1. CASE PullStep(p)
    BY <1>1 DEF PullStep, Pull, Capture, Apply, ActorWrites, store, processors
  <1>2. CASE WorkerList \/ WorkerNext \/ WorkerReread
    BY <1>2 DEF WorkerList, WorkerNext, WorkerReread, ActorWrites, store, processors
  <1>3. CASE StatusConfirm(p) \/ (p = Worker /\ WorkerConfirm)
    BY <1>3 DEF StatusConfirm, WorkerConfirm, ActorWrites, processors
  <1>4. CASE (\E i \in Ids : StatusRead(p, i)) \/ StatusBegin(p) \/ StatusReread(p)
             \/ StatusReply(p)
    BY <1>4
    DEF StatusRead, StatusBegin, StatusReread, StatusReply, ActorWrites, store, processors
  <1>5. CASE HintRead(p) \/ ReversalVerify(p) \/ HangUp(p)
    BY <1>5 DEF HintRead, ReversalVerify, HangUp, ActorWrites, store, processors
  <1>6. CASE ReversalFind(p)
    BY <1>6 DEF ReversalFind, ActorWrites, store, processors
  <1>7. CASE Reverse(p)
    BY <1>7 DEF Reverse, ActorWrites, processors
  <1>8. CASE \E e \in Event : Deliver(p, e)
    BY <1>8 DEF Deliver, ActorWrites, processors
  <1> QED
    BY <1>1, <1>2, <1>3, <1>4, <1>5, <1>6, <1>7, <1>8
    DEF WorkerStep, Serves, StatusStep, WebhookStep

(* A row that is written keeps its session. *)
LEMMA ActorRows ==
  ASSUME Types, NEW p \in Procs, ActorWrites(p), NEW i \in Ids
  PROVE  /\ rows'[i].session = rows[i].session /\ rows'[i].processor = rows[i].processor
         /\ MintedPart(rows'[i]) = MintedPart(rows[i])
         /\ rows[i].state # "absent" <=> rows'[i].state # "absent"
  <1>1. CASE UNCHANGED rows
    BY <1>1
  <1>2. CASE ~UNCHANGED rows
    <2>1. proc[p].id \in Ids
      BY <1>2, TaskParts DEF ActorWrites, Apply, Reverse, At, OnRow
    <2> DEFINE task == proc[p]
               row == rows[task.id]
    <2>2. row \in Row
      BY <2>1 DEF Types
    <2>3. \E new \in {row, MarkPaid(row, task.got = "matched", task.snap.session, task.now),
                      MarkConfirmed(row), MarkReversed(row)} :
            rows' = [rows EXCEPT ![task.id] = new]
      BY <1>2 DEF ActorWrites, Apply, Reverse
    <2> QED
      BY <2>1, <2>2, <2>3, MarksKeep DEF Types
  <1> QED
    BY <1>1, <1>2

(* So a step keeps the sessions, and the books. *)
LEMMA ActorKeeps ==
  ASSUME Types, BooksKept, NEW p \in Procs, ActorWrites(p) PROVE Keeps /\ BooksKept'
  <1>1. Keeps
    BY ActorRows DEF Keeps, ActorWrites, Types
  <1>2. CASE UNCHANGED charge
    BY <1>1, <1>2 DEF ActorWrites, BooksKept
  <1>3. CASE Capture(p)
    BY <1>1, <1>3 DEF Capture, ActorWrites, BooksKept, Types
  <1> QED
    BY <1>1, <1>2, <1>3 DEF ActorWrites
-----------------------------------------------------------------------------
(* Knowledge lasts.                                                        *)

(* A refund made now is not one made before. *)
LEMMA RefundFrame ==
  ASSUME Types, Keeps, NEW s \in Session, NEW t \in Nat, t <= clock, NotRefundedBefore(s, t)
  PROVE  NotRefundedBefore(s, t)'
  BY DEF Types, Keeps, NotRefundedBefore

(* What a handler holds, with the time it holds. *)
TaskKeeps(task) == task.now <= clock /\ TaskKept(task) /\ (task.got \in PaidOutcomes
   /\ task.pc \in {"apply", "reread", "confirm"} => task.snap.session # None)

(* It stays so while the handler does nothing. *)
LEMMA TaskKeptFrame ==
  ASSUME Types, Keeps, NEW task \in Task, TaskKeeps(task) PROVE TaskKept(task)'
  <1>1. /\ task.snap \in Row /\ task.now \in Nat
        /\ task.batch \subseteq [id : Ids, row : Row]
        /\ task.pc \in OnRow => task.id \in Ids
    BY DEF Task, TaskRecord, OnRow
  <1>2. (task.pc \in OnRow => SnapKept(task.snap, task.id))'
    BY <1>1 DEF TaskKeeps, TaskKept, SnapKept, Keeps
  <1>3. (\A item \in task.batch : SnapKept(item.row, item.id))'
    BY <1>1 DEF TaskKeeps, TaskKept, SnapKept, Keeps
  <1>4. (task.pc \in {"apply", "reread", "confirm"} /\ task.got \in PaidOutcomes
           /\ task.snap.session.kind = "paypal" =>
             NotRefundedBefore(task.snap.session, task.now))'
    BY <1>1, RefundFrame DEF TaskKeeps, TaskKept, Row
  <1> QED
    BY <1>2, <1>3, <1>4 DEF TaskKept

(* A row nobody writes goes on having its session. *)
LEMMA RowKeptFrame ==
  ASSUME Types, Keeps, NEW i \in Ids, RowKept(rows[i], i), NEW row \in Row,
         RowSound(row, i), RowKept(row, i)
  PROVE  RowKept(row, i)'
  <1>1. CASE row.state = "confirmed" /\ row.session.kind = "paypal"
    <2>1. /\ row.session \in Session /\ row.paidAt \in Nat
          /\ row.paidAt + SettlementDelay \in Nat
          /\ row.paidAt + SettlementDelay <= clock
      BY <1>1, SettlementDelayAssumption
      DEF RowKept, RowSound, PaymentOnRecord, DelayElapsed, Types
    <2>2. NotRefundedBefore(row.session, row.paidAt + SettlementDelay)'
      BY <1>1, <2>1, RefundFrame DEF RowKept
    <2> QED
      BY <1>1, <2>2 DEF RowKept
  <1>2. CASE ~(row.state = "confirmed" /\ row.session.kind = "paypal")
    BY <1>2 DEF RowKept
  <1> QED
    BY <1>1, <1>2

-----------------------------------------------------------------------------
(* What is written to a row.                                               *)

(* A row promoted is one whose right payment had not been refunded.        *)
LEMMA ConfirmKept ==
  ASSUME NothingFalseHeld, SessionKept, NEW p \in Procs, At(p, "confirm"), NEW i \in Ids,
         i = proc[p].id
  PROVE  RowKept(MarkConfirmed(rows[i]), i)
  <1> PICK row \in Row : row = rows[i]
    BY DEF NothingFalseHeld, Types
  <1> PICK task \in Task : task = proc[p]
    BY TaskParts DEF NothingFalseHeld
  <1>1. RowSound(row, i) /\ RowKept(row, i) /\ TaskSound(task) /\ TaskKept(task)
    BY DEF NothingFalseHeld, RowsSound, TasksSound, SessionKept
  <1>2. /\ task.pc = "confirm" /\ task.got = "matched" /\ task.id = i
        /\ task.snap.session = row.session /\ PullSound(task) /\ PromotionSound(task)
    BY <1>1 DEF At, TaskSound, TaskKept, SnapKept, OnRow
  <1>3. CASE row.state = "paid"
    <2>1. row.session \notin drifted
      BY <1>2 DEF PullSound, PaidOutcomes
    <2>2. row.matched
      BY <1>1, <1>3, <2>1 DEF RowSound, RowKept, PaymentOnRecord
    <2>3. ASSUME row.session.kind = "paypal"
          PROVE  NotRefundedBefore(row.session, row.paidAt + SettlementDelay)
      <3>1. NotRefundedBefore(row.session, task.now) /\ DelayElapsed(row, task.now)
        BY <1>1, <1>2, <2>3 DEF TaskKept, PromotionSound, PaidOutcomes
      <3>2. /\ row.session \in Session /\ refundedAt[row.session] \in Nat \cup {None}
            /\ row.paidAt \in Nat /\ task.now \in Nat
        BY <1>1, <1>3 DEF RowKept, RowSound, PaymentOnRecord, NothingFalseHeld, Types, Task,
           TaskRecord
      <3> QED
        BY <3>1, <3>2, SettlementDelayAssumption DEF NotRefundedBefore, DelayElapsed
    <2>4. /\ MarkConfirmed(row).session = row.session
          /\ MarkConfirmed(row).processor = row.processor
          /\ MarkConfirmed(row).ref = row.ref /\ MarkConfirmed(row).matched = row.matched
          /\ MarkConfirmed(row).paidAt = row.paidAt
          /\ MarkConfirmed(row).state = "confirmed"
      BY <1>3 DEF MarkConfirmed, Row
    <2> QED
      BY <1>1, <2>2, <2>3, <2>4 DEF RowKept, BoundProcessor
  <1>4. CASE row.state # "paid"
    BY <1>1, <1>4 DEF MarkConfirmed
  <1> QED
    BY <1>3, <1>4

(* A payment recorded is one of the session the row has. *)
LEMMA ApplyKept ==
  ASSUME NothingFalseHeld, SessionKept, NEW p \in Procs, At(p, "apply"), NEW i \in Ids,
         i = proc[p].id, NEW matched, NEW at
  PROVE  RowKept(MarkPaid(rows[i], matched, proc[p].snap.session, at), i)
  <1> PICK row \in Row : row = rows[i]
    BY DEF NothingFalseHeld, Types
  <1>1. RowKept(row, i) /\ proc[p].snap.session = row.session
    BY DEF SessionKept, TaskKept, SnapKept, At, OnRow
  <1> QED
    BY <1>1, NoneAssumption DEF RowKept, MarkPaid, BoundProcessor, Row

(* A reversal says nothing of a row's session. *)
LEMMA ReverseKept ==
  ASSUME NEW row \in Row, NEW i, RowKept(row, i) PROVE RowKept(MarkReversed(row), i)
  BY DEF RowKept, MarkReversed, BoundProcessor, Row

(* So every row an actor leaves is kept. *)
LEMMA ActorRowsKept ==
  ASSUME NothingFalseHeld, SessionKept, NEW p \in Procs, ActorWrites(p), NEW i \in Ids
  PROVE  RowKept(rows[i], i)'
  <1>1. rows \in [Ids -> Row] /\ RowKept(rows[i], i) /\ refundedAt' = refundedAt
    BY DEF NothingFalseHeld, Types, SessionKept, ActorWrites
  <1> SUFFICES RowKept(rows'[i], i)
    BY <1>1 DEF RowKept, NotRefundedBefore
  <1>2. CASE rows'[i] = rows[i]
    BY <1>1, <1>2
  <1>3. CASE rows'[i] # rows[i]
    <2> DEFINE task == proc[p]
    <2>1. CASE Apply(p)
      <3>1. /\ At(p, "apply") /\ i = task.id
            /\ rows'[i] = MarkPaid(rows[i], task.got = "matched", task.snap.session,
                                   task.now)
        BY <1>1, <1>3, <2>1 DEF Apply
      <3> QED
        BY <3>1, ApplyKept
    <2>2. CASE At(p, "confirm") /\ rows' = [rows EXCEPT ![task.id] = MarkConfirmed(@)]
      <3>1. i = task.id /\ rows'[i] = MarkConfirmed(rows[i])
        BY <1>1, <1>3, <2>2
      <3> QED
        BY <2>2, <3>1, ConfirmKept
    <2>3. CASE Reverse(p)
      <3>1. rows'[i] = MarkReversed(rows[i])
        BY <1>1, <1>3, <2>3 DEF Reverse
      <3> QED
        BY <1>1, <3>1, ReverseKept
    <2> QED
      BY <1>3, <2>1, <2>2, <2>3 DEF ActorWrites
  <1> QED
    BY <1>2, <1>3

-----------------------------------------------------------------------------
(* What a handler is left holding.                                         *)

LeavesKept(p) == \E t : Becomes(p, t) /\ TaskKeeps(t)

(* What a handler on a row holds, whatever it goes on with. *)
HoldingKept(task) ==
  /\ task.now <= clock /\ SnapKept(task.snap, task.id)
  /\ \A item \in task.batch : SnapKept(item.row, item.id)

(* What a pull established was so when the handler took its `now`. *)
OutcomeKept(task) ==
  LET s == task.snap.session IN
  task.got \in PaidOutcomes =>
    s # None /\ (s.kind = "paypal" => NotRefundedBefore(s, task.now))

LEMMA OnRowKept ==
  ASSUME NEW task \in Task, TaskKeeps(task), task.pc \in OnRow PROVE HoldingKept(task)
  BY DEF TaskKeeps, TaskKept, HoldingKept

LEMMA OutcomeHeld ==
  ASSUME NEW task \in Task, TaskKeeps(task), task.pc \in {"apply", "reread", "confirm"}
  PROVE  OutcomeKept(task)
  BY DEF TaskKeeps, TaskKept, OutcomeKept

(* Whoever holds both may be anywhere on the row. *)
LEMMA MovesKept ==
  ASSUME NEW task \in Task, HoldingKept(task), OutcomeKept(task), NEW pc
  PROVE  TaskKeeps([task EXCEPT !.pc = pc])
  BY DEF TaskKeeps, TaskKept, HoldingKept, OutcomeKept, Task, TaskRecord

(* Before the pull answers nothing is established. *)
LEMMA BeforePull ==
  ASSUME NEW task, HoldingKept(task), task.pc \in {"begin", "pull", "capture"}
  PROVE  TaskKeeps(task)
  BY DEF TaskKeeps, TaskKept, HoldingKept

LEMMA OthersKept ==
  ASSUME clock \in Nat, NEW task \in Task, NEW reply
  PROVE  /\ TaskKeeps(Idle) /\ TaskKeeps(Answering(task, reply))
         /\ (\A item \in task.batch : SnapKept(item.row, item.id)) => TaskKeeps(NextRow(task))
  BY DEF Idle, Answering, NextRow, TaskKeeps, TaskKept, OnRow

(* Going on after a pull, or after the mark_paid that followed it. *)
LEMMA ResumeKeeps ==
  ASSUME clock \in Nat, NEW task \in Task, HoldingKept(task), OutcomeKept(task)
  PROVE  TaskKeeps(Resume(task))
  <1>1. \E pc, reply : Resume(task) \in {[task EXCEPT !.pc = pc], Answering(task, reply),
                                         NextRow(task), Idle}
    BY DEF Resume
  <1>2. \A item \in task.batch : SnapKept(item.row, item.id)
    BY DEF HoldingKept
  <1> QED
    BY <1>1, <1>2, MovesKept, OthersKept

LEMMA PulledKeeps ==
  ASSUME clock \in Nat, NEW task \in Task, HoldingKept(task), NEW outcome \in Outcomes,
         OutcomeKept([task EXCEPT !.got = outcome])
  PROVE  TaskKeeps(Pulled(task, outcome))
  <1> PICK done \in Task : done = [task EXCEPT !.got = outcome]
    BY DEF Task, TaskRecord
  <1>1. HoldingKept(done) /\ OutcomeKept(done)
    BY DEF HoldingKept, Task, TaskRecord
  <1>2. TaskKeeps([done EXCEPT !.pc = "apply"]) /\ TaskKeeps(Resume(done))
    BY <1>1, MovesKept, ResumeKeeps
  <1> QED
    BY <1>2 DEF Pulled

(* PayPal answers "paid" of a payment that has not been refunded.          *)
LEMMA PaidNotRefunded ==
  ASSUME SessionKept, NEW s \in Session, NEW t, NEW exact,
         PaypalVerdict(charge[s], exact) \in PaidOutcomes
  PROVE  NotRefundedBefore(s, t)
  BY DEF SessionKept, PaypalVerdict, PaidOutcomes, NotRefundedBefore

LEMMA PullKeeps ==
  ASSUME NothingFalseHeld, SessionKept, NEW p \in Procs, TaskKeeps(proc[p]), Pull(p)
  PROVE  LeavesKept(p)
  <1> PICK task \in Task : task = proc[p]
    BY TaskParts DEF NothingFalseHeld
  <1> DEFINE s == task.snap.session
             kind == BoundProcessor(task.snap)
             verdict == Verdict(kind, charge[s], s \notin drifted)
  <1>1. /\ task.pc = "pull" /\ task.id \in Ids /\ clock \in Nat
        /\ HoldingKept(task)
    BY TaskParts, OnRowKept DEF Pull, At, OnRow, NothingFalseHeld, Types
  <1>2. s \in Session /\ kind = s.kind
    BY <1>1 DEF HoldingKept, SnapKept, SessionKept, RowKept, BoundProcessor
  <1>3. ASSUME NEW outcome \in Outcomes, Becomes(p, Pulled(task, outcome)),
               outcome \in PaidOutcomes /\ s.kind = "paypal" => NotRefundedBefore(s, task.now)
        PROVE  LeavesKept(p)
    <2>1. OutcomeKept([task EXCEPT !.got = outcome])
      BY <1>2, <1>3, NoneAssumption DEF OutcomeKept, Task, TaskRecord
    <2> QED
      BY <1>1, <1>3, <2>1, PulledKeeps DEF LeavesKept
  <1>4. CASE Becomes(p, [task EXCEPT !.pc = "capture"])
    <2>1. HoldingKept([task EXCEPT !.pc = "capture"])
      BY <1>1 DEF HoldingKept, Task, TaskRecord
    <2>2. [task EXCEPT !.pc = "capture"].pc = "capture"
      BY DEF Task, TaskRecord
    <2> QED
      BY <1>4, <2>1, <2>2, BeforePull DEF LeavesKept
  <1>5. CASE Becomes(p, Pulled(task, "unpaid")) \/ Becomes(p, Pulled(task, "unavailable"))
    BY <1>3, <1>5 DEF Outcomes, PaidOutcomes
  <1>6. CASE Becomes(p, Pulled(task, verdict))
    <2>1. verdict \in Outcomes
      BY VerdictType
    <2>2. verdict \in PaidOutcomes /\ s.kind = "paypal" => NotRefundedBefore(s, task.now)
      BY <1>2, PaidNotRefunded DEF Verdict
    <2> QED
      BY <1>3, <1>6, <2>1, <2>2
  <1> QED
    BY <1>4, <1>5, <1>6 DEF Pull

(* An order captured just now has not been refunded either. *)
LEMMA CaptureKeeps ==
  ASSUME NothingFalseHeld, SessionKept, NEW p \in Procs, TaskKeeps(proc[p]), Capture(p)
  PROVE  LeavesKept(p)
  <1> PICK task \in Task : task = proc[p]
    BY TaskParts DEF NothingFalseHeld
  <1> DEFINE s == task.snap.session
             Judge(status) == PaypalVerdict(status, s \notin drifted)
  <1>1. /\ task.pc = "capture" /\ task.id \in Ids /\ clock \in Nat
        /\ HoldingKept(task)
    BY TaskParts, OnRowKept DEF Capture, At, OnRow, NothingFalseHeld, Types
  <1>2. s \in Session
    BY <1>1 DEF HoldingKept, SnapKept, SessionKept, RowKept
  <1>3. ASSUME NEW outcome \in Outcomes, Becomes(p, Pulled(task, outcome)),
               outcome \in PaidOutcomes => NotRefundedBefore(s, task.now)
        PROVE  LeavesKept(p)
    <2>1. OutcomeKept([task EXCEPT !.got = outcome])
      BY <1>2, <1>3, NoneAssumption DEF OutcomeKept, Task, TaskRecord
    <2> QED
      BY <1>1, <1>3, <2>1, PulledKeeps DEF LeavesKept
  <1>4. CASE Becomes(p, Pulled(task, "unavailable"))
    BY <1>3, <1>4 DEF Outcomes, PaidOutcomes
  <1>5. ASSUME NEW status, Becomes(p, Pulled(task, Judge(status))),
               status = charge[s] \/ charge[s] = "approved"
        PROVE  LeavesKept(p)
    <2>1. Judge(status) \in Outcomes
      BY DEF PaypalVerdict, Paid, Outcomes
    <2>2. CASE charge[s] = "approved"
      BY <1>2, <1>3, <1>5, <2>1, <2>2 DEF SessionKept, NotRefundedBefore
    <2>3. CASE status = charge[s]
      BY <1>2, <1>3, <1>5, <2>1, <2>3, PaidNotRefunded
    <2> QED
      BY <1>5, <2>2, <2>3
  <1>6. \/ Becomes(p, Pulled(task, "unavailable"))
        \/ \E status : /\ Becomes(p, Pulled(task, Judge(status)))
                       /\ status = charge[s] \/ charge[s] = "approved"
    BY DEF Capture
  <1> QED
    BY <1>4, <1>5, <1>6

(* mark_paid changes nothing of what the handler holds. *)
LEMMA ApplyKeeps ==
  ASSUME NothingFalseHeld, NEW p \in Procs, TaskKeeps(proc[p]), Apply(p)
  PROVE  LeavesKept(p)
  <1> PICK task \in Task : task = proc[p]
    BY TaskParts DEF NothingFalseHeld
  <1> PICK failed \in Task : failed = [task EXCEPT !.got = "unavailable"]
    BY DEF Task, TaskRecord, Outcomes
  <1>1. clock \in Nat /\ HoldingKept(task) /\ OutcomeKept(task)
    BY OnRowKept, OutcomeHeld DEF Apply, At, OnRow, NothingFalseHeld, Types
  <1>2. HoldingKept(failed) /\ OutcomeKept(failed)
    BY <1>1 DEF HoldingKept, OutcomeKept, PaidOutcomes, Task, TaskRecord
  <1>3. TaskKeeps(Resume(task)) /\ TaskKeeps(Resume(failed))
    BY <1>1, <1>2, ResumeKeeps
  <1> QED
    BY <1>3 DEF Apply, LeavesKept

(* A row just read is the row it is a snapshot of. *)
LEMMA ReportedKeeps ==
  ASSUME clock \in Nat, NEW task \in Task, task.now <= clock, NEW row \in Row,
         SnapKept(row, task.id), \A item \in task.batch : SnapKept(item.row, item.id)
  PROVE  TaskKeeps(Reported(task, row))
  <1>1. CASE Report(row, task.now) = "promotionDue"
    BY <1>1 DEF Reported, TaskKeeps, TaskKept, Task, TaskRecord
  <1>2. CASE Report(row, task.now) # "promotionDue"
    BY <1>2, OthersKept DEF Reported
  <1> QED
    BY <1>1, <1>2

(* The status endpoint. *)
LEMMA StatusKeeps ==
  ASSUME NothingFalseHeld, NEW h \in Procs, TaskKeeps(proc[h]),
         (\E i \in Ids : StatusRead(h, i)) \/ StatusStep(h)
  PROVE  LeavesKept(h)
  <1> PICK task \in Task : task = proc[h]
    BY TaskParts DEF NothingFalseHeld
  <1>0. clock \in Nat /\ rows \in [Ids -> Row] /\ task.snap \in Row /\ TaskKeeps(task)
    BY TaskParts DEF NothingFalseHeld, Types
  <1>1. ASSUME NEW i \in Ids, StatusRead(h, i) PROVE LeavesKept(h)
    <2> DEFINE t == [Idle EXCEPT !.op = "status", !.pc = "begin", !.id = i, !.snap = rows[i]]
    <2>1. TaskKeeps(t)
      BY <1>0 DEF Idle, TaskKeeps, TaskKept, SnapKept
    <2> QED
      BY <1>1, <2>1 DEF StatusRead, LeavesKept
  <1>2. CASE StatusBegin(h)
    <2> PICK timed \in Task : timed = [task EXCEPT !.now = clock]
      BY <1>0 DEF Task, TaskRecord
    <2>1. /\ timed.now <= clock /\ timed.snap = task.snap
          /\ SnapKept(timed.snap, timed.id)
          /\ \A item \in timed.batch : SnapKept(item.row, item.id)
      BY <1>0, <1>2 DEF StatusBegin, At, TaskKeeps, TaskKept, OnRow, Task, TaskRecord
    <2>2. TaskKeeps([timed EXCEPT !.pc = "pull"])
      BY <2>1 DEF TaskKeeps, TaskKept, Task, TaskRecord
    <2>3. TaskKeeps(Reported(timed, timed.snap))
      BY <1>0, <2>1, ReportedKeeps
    <2> QED
      BY <1>2, <2>1, <2>2, <2>3 DEF StatusBegin, LeavesKept
  <1>3. CASE StatusReread(h)
    <2>1. task.id \in Ids /\ HoldingKept(task)
      BY <1>0, <1>3, OnRowKept DEF StatusReread, At, OnRow, Task
    <2>2. SnapKept(rows[task.id], task.id) /\ rows[task.id] \in Row
      BY <1>0, <2>1 DEF SnapKept
    <2>3. TaskKeeps(Reported(task, rows[task.id])) /\ TaskKeeps(Reported(task, task.snap))
      BY <1>0, <2>1, <2>2, ReportedKeeps DEF HoldingKept
    <2> QED
      BY <1>3, <2>3 DEF StatusReread, LeavesKept
  <1>4. CASE StatusConfirm(h) \/ StatusReply(h)
    BY <1>0, <1>4, OthersKept DEF StatusConfirm, StatusReply, LeavesKept
  <1> QED
    BY <1>1, <1>2, <1>3, <1>4 DEF StatusStep

(* The worker. *)
LEMMA WorkerKeeps ==
  ASSUME NothingFalseHeld, TaskKeeps(proc[Worker]),
         WorkerList \/ WorkerNext \/ WorkerReread \/ WorkerConfirm
  PROVE  LeavesKept(Worker)
  <1> PICK task \in Task : task = proc[Worker]
    BY TaskParts DEF NothingFalseHeld, Procs
  <1>0. /\ clock \in Nat /\ rows \in [Ids -> Row] /\ TaskKeeps(task)
        /\ \A item \in task.batch : SnapKept(item.row, item.id)
    BY DEF NothingFalseHeld, Types, TaskKeeps, TaskKept
  <1>1. CASE WorkerList
    <2> DEFINE open == OpenFiatCorrelations(rows, PollLimit)
               listed == {[id |-> i, row |-> rows[i]] : i \in open}
               t == [Idle EXCEPT !.op = "worker", !.pc = "next", !.batch = listed]
    <2> HIDE DEF open
    <2>1. \A item \in listed : SnapKept(item.row, item.id)
      BY DEF SnapKept
    <2> HIDE DEF listed
    <2>2. TaskKeeps(t)
      BY <1>0, <2>1 DEF Idle, TaskKeeps, TaskKept, OnRow
    <2> QED
      BY <1>1, <2>2 DEF WorkerList, LeavesKept, listed, open
  <1>2. CASE WorkerNext
    <2>1. ASSUME NEW item \in task.batch
          PROVE  TaskKeeps([Idle EXCEPT !.op = "worker", !.pc = "pull", !.id = item.id,
                                        !.snap = item.row, !.now = clock,
                                        !.batch = task.batch \ {item}])
      BY <1>0, <2>1 DEF Idle, TaskKeeps, TaskKept
    <2> QED
      BY <1>0, <1>2, <2>1, OthersKept DEF WorkerNext, LeavesKept
  <1>3. CASE WorkerReread
    <2>1. TaskKeeps([task EXCEPT !.pc = "confirm"])
      BY <1>0, <1>3, OnRowKept, OutcomeHeld, MovesKept DEF WorkerReread, At, OnRow
    <2>2. TaskKeeps(NextRow(task))
      BY <1>0, OthersKept
    <2> QED
      BY <1>3, <2>1, <2>2 DEF WorkerReread, LeavesKept
  <1>4. CASE WorkerConfirm
    BY <1>0, <1>4, OthersKept DEF WorkerConfirm, LeavesKept
  <1> QED
    BY <1>1, <1>2, <1>3, <1>4

(* The webhook endpoints: a hint's snapshot is the row just read. *)
LEMMA WebhookKeeps ==
  ASSUME NothingFalseHeld, NEW h \in Procs, TaskKeeps(proc[h]),
         (\E e \in Event : Deliver(h, e)) \/ WebhookStep(h) \/ HangUp(h)
  PROVE  LeavesKept(h)
  <1> PICK task \in Task : task = proc[h]
    BY TaskParts DEF NothingFalseHeld
  <1>0. clock \in Nat /\ TaskKeeps(task) /\ TaskKeeps(Idle)
    BY OthersKept DEF NothingFalseHeld, Types
  <1>1. CASE Becomes(h, Idle)
    BY <1>0, <1>1 DEF LeavesKept
  <1>2. ASSUME NEW t, t.now <= clock, t.pc \in {"hint", "verify", "find", "reverse"},
               t.batch = {} \/ t.batch = task.batch, Becomes(h, t)
        PROVE  LeavesKept(h)
    <2>1. TaskKeeps(t)
      BY <1>0, <1>2 DEF TaskKeeps, TaskKept, OnRow
    <2> QED
      BY <1>2, <2>1 DEF LeavesKept
  <1>3. ASSUME NEW e \in Event, Deliver(h, e) PROVE LeavesKept(h)
    <2> DEFINE hint == [Idle EXCEPT !.op = "payment", !.pc = "hint", !.now = clock,
                                    !.event = e]
               reversal == [Idle EXCEPT !.op = "reversal", !.pc = "verify", !.event = e]
    <2>1. Becomes(h, hint) \/ Becomes(h, reversal)
      BY <1>3 DEF Deliver
    <2>2. /\ hint.now <= clock /\ hint.pc = "hint" /\ hint.batch = {}
          /\ reversal.now <= clock /\ reversal.pc = "verify" /\ reversal.batch = {}
      BY <1>0 DEF Idle
    <2> QED
      BY <1>2, <2>1, <2>2
  <1>4. CASE HintRead(h)
    <2> DEFINE i == task.event.session.id
               t == [task EXCEPT !.pc = "pull", !.id = i, !.snap = rows[i]]
    <2>1. TaskKeeps(t)
      BY <1>0 DEF TaskKeeps, TaskKept, SnapKept, Task, TaskRecord
    <2> QED
      BY <1>1, <1>4, <2>1 DEF HintRead, LeavesKept
  <1>5. CASE ReversalVerify(h)
    <2>1. \/ Becomes(h, [task EXCEPT !.pc = "find"]) \/ Becomes(h, Idle)
      BY <1>5 DEF ReversalVerify
    <2>2. LET t == [task EXCEPT !.pc = "find"] IN
          t.now = task.now /\ t.pc = "find" /\ t.batch = task.batch
      BY DEF Task, TaskRecord
    <2> QED
      BY <1>0, <1>1, <1>2, <2>1, <2>2 DEF TaskKeeps
  <1>6. CASE ReversalFind(h)
    <2>1. \/ \E i : Becomes(h, [task EXCEPT !.pc = "reverse", !.id = i])
          \/ Becomes(h, Idle)
      BY <1>6, Zenon DEF ReversalFind
    <2>2. \A i : LET t == [task EXCEPT !.pc = "reverse", !.id = i] IN
                 t.now = task.now /\ t.pc = "reverse" /\ t.batch = task.batch
      BY DEF Task, TaskRecord
    <2> QED
      BY <1>0, <1>1, <1>2, <2>1, <2>2 DEF TaskKeeps
  <1>7. CASE Reverse(h) \/ HangUp(h)
    BY <1>1, <1>7 DEF Reverse, HangUp
  <1> QED
    BY <1>3, <1>4, <1>5, <1>6, <1>7 DEF WebhookStep

-----------------------------------------------------------------------------
(* The invariant.                                                          *)

(* The rows the model starts from have the one session they are bound to. *)
LEMMA InitKept == Init => SessionKept
  <1> SUFFICES ASSUME Init PROVE SessionKept
    OBVIOUS
  <1>1. ASSUME NEW i \in Ids PROVE RowKept(rows[i], i)
    <2>1. PICK kind \in Kinds, processor \in Kinds \cup {None} :
            /\ processor = kind \/ (processor = None /\ kind = "stripe")
            /\ rows[i] = Minted(i, kind, processor)
      BY InitKindsAssumption DEF Init, MintedRows, Kinds
    <2>2. /\ rows[i].state = "created" /\ rows[i].ref = None
          /\ rows[i].session \in Session /\ rows[i].session.kind = kind
          /\ rows[i].processor = processor
      BY <2>1, MaxAttemptAssumption DEF Minted, NewRow, NoRow, Session
    <2> QED
      BY <2>1, <2>2, NoneAssumption DEF RowKept, BoundProcessor
  <1>2. ASSUME NEW p \in Procs PROVE TaskKept(proc[p])
    <2>1. proc[p] = Idle
      BY DEF Init
    <2> QED
      BY <2>1 DEF Idle, TaskKept, OnRow
  <1> QED
    BY <1>1, <1>2 DEF SessionKept, Init

(* What each handler holds, it holds with its time. *)
LEMMA EveryTaskKeeps ==
  ASSUME NothingFalseHeld, SessionKept, NEW p \in Procs PROVE TaskKeeps(proc[p])
  BY DEF NothingFalseHeld, TasksSound, TaskSound, PullSound, SessionKept, TaskKeeps

(* Whoever acts is left with something kept. *)
LEMMA ActorHolds ==
  ASSUME NothingFalseHeld, SessionKept, NEW p \in Procs,
         PullStep(p) \/ (p = Worker /\ WorkerStep) \/ Serves(p)
  PROVE  LeavesKept(p)
  <1>1. TaskKeeps(proc[p])
    BY EveryTaskKeeps
  <1>2. CASE PullStep(p)
    BY <1>1, <1>2, PullKeeps, CaptureKeeps, ApplyKeeps DEF PullStep
  <1>3. CASE p = Worker /\ WorkerStep
    BY <1>1, <1>2, <1>3, WorkerKeeps DEF WorkerStep
  <1>4. CASE Serves(p)
    BY <1>1, <1>2, <1>4, StatusKeeps, WebhookKeeps DEF Serves
  <1> QED
    BY <1>2, <1>3, <1>4

(* So an actor's step keeps everything. *)
LEMMA ActorStepKept ==
  ASSUME NothingFalseHeld, Types', SessionKept, NEW p \in Procs,
         PullStep(p) \/ (p = Worker /\ WorkerStep) \/ Serves(p)
  PROVE  SessionKept'
  <1>1. ActorWrites(p) /\ Types /\ BooksKept
    BY ActorWritesOnly DEF NothingFalseHeld, SessionKept, BooksKept
  <1>2. Keeps /\ BooksKept'
    BY <1>1, ActorKeeps
  <1>3. PICK t : Becomes(p, t) /\ TaskKeeps(t)
    BY ActorHolds DEF LeavesKept
  <1>4. ASSUME NEW q \in Procs PROVE TaskKept(proc[q])'
    <2>1. TaskKeeps(proc'[q]) /\ proc'[q] \in Task
      BY <1>3, EveryTaskKeeps DEF Becomes, NothingFalseHeld, Types
    <2> PICK u \in Task : u = proc'[q]
      BY <2>1
    <2>2. TaskKept(u)'
      BY <1>1, <1>2, <2>1, TaskKeptFrame
    <2> QED
      BY <2>2
  <1>5. \A i \in Ids : RowKept(rows[i], i)'
    BY <1>1, ActorRowsKept
  <1> QED
    BY <1>2, <1>4, <1>5 DEF SessionKept, BooksKept

(* And so does a step of the buyers, the processors and the clock. *)
LEMMA SurroundingsStepKept ==
  ASSUME NothingFalseHeld, SessionKept, Surroundings PROVE SessionKept'
  <1>1. Types /\ BooksKept
    BY DEF NothingFalseHeld, SessionKept, BooksKept
  <1>2. Keeps /\ BooksKept' /\ UNCHANGED rows
    BY <1>1, SurroundingsKeep
  <1>3. ASSUME NEW i \in Ids PROVE RowKept(rows[i], i)'
    <2> PICK row \in Row : row = rows[i]
      BY <1>1 DEF Types
    <2>1. RowSound(row, i) /\ RowKept(row, i)
      BY DEF NothingFalseHeld, RowsSound, SessionKept
    <2>2. RowKept(row, i)'
      BY <1>1, <1>2, <2>1, RowKeptFrame
    <2> QED
      BY <1>2, <2>2
  <1>4. ASSUME NEW q \in Procs PROVE TaskKept(proc[q])'
    <2>1. proc'[q] \in {proc[q], Idle}
      BY DEF Surroundings, Tick, Restarted, Pay, Approve, AutoCapture, CaptureSettles, Refund,
             Dispute, ChargeMoves
    <2>2. TaskKeeps(proc[q]) /\ TaskKeeps(Idle) /\ proc[q] \in Task /\ Idle \in Task
      BY <1>1, EveryTaskKeeps, OthersKept, IdleType DEF Types
    <2> PICK u \in Task : u = proc'[q] /\ TaskKeeps(u)
      BY <2>1, <2>2
    <2>3. TaskKept(u)'
      BY <1>1, <1>2, TaskKeptFrame
    <2> QED
      BY <2>3
  <1> QED
    BY <1>2, <1>3, <1>4 DEF SessionKept, BooksKept

(* A row, every snapshot of it and every payment recorded on it are about  *)
(* one session, whose refunds come in time, as long as nothing re-mints it *)
(* (verification.rs, bound_processor and pull_paypal; worker.rs).          *)
THEOREM SessionsKept == Spec => []SessionKept
  <1>1. NothingFalseHeld /\ NothingFalseHeld' /\ SessionKept /\ [Next]_vars => SessionKept'
    <2> SUFFICES ASSUME NothingFalseHeld, Types', SessionKept, [Next]_vars
                 PROVE  SessionKept'
      BY DEF NothingFalseHeld
    <2>1. CASE UNCHANGED vars
      BY <2>1 DEF vars, SessionKept, RowKept, TaskKept, SnapKept, NotRefundedBefore
    <2>2. CASE AnyStep
      <3>1. ASSUME NEW h \in Handlers, Serves(h) PROVE SessionKept'
        <4>1. h \in Procs
          BY DEF Procs
        <4> QED
          BY <3>1, <4>1, ActorStepKept
      <3>2. CASE WorkerStep
        BY <3>2, ActorStepKept DEF Procs
      <3> QED
        BY <2>2, <3>1, <3>2, SurroundingsStepKept DEF AnyStep
    <2> QED
      BY <2>1, <2>2, NextIsAnyStep DEF NothingFalseHeld
  <1> QED
    BY InitKept, NothingFalse, <1>1, PTL DEF Spec

(* The reference of a payment on record leads to its row and to no other,  *)
(* so that a reversal of it can be resolved (find_by_payment_intent).      *)
THEOREM ReferencesResolve == Spec => []ReferenceLeadsToRow
  <1>1. ASSUME NothingFalseHeld, SessionKept PROVE ReferenceLeadsToRow
    <2>1. ASSUME NEW i \in Ids, rows[i].state \in PaymentOnRecord
          PROVE  FindByPaymentIntent(rows, rows[i].session) = {i}
      <3>1. \A j \in Ids : RowSound(rows[j], j)
        BY <1>1 DEF NothingFalseHeld, RowsSound
      <3>2. rows[i].ref = rows[i].session /\ rows[i].session \in Session
        BY <1>1, <2>1, <3>1 DEF RowSound, SessionKept, RowKept
      <3>3. ASSUME NEW j \in Ids, rows[j].ref = rows[i].session PROVE j = i
        BY <3>1, <3>2, <3>3, NoneAssumption DEF RowSound
      <3> QED
        BY <3>2, <3>3 DEF FindByPaymentIntent
    <2> QED
      BY <2>1 DEF ReferenceLeadsToRow, PaymentOnRecord
  <1> QED
    BY NothingFalse, SessionsKept, <1>1, PTL

(* A PayPal payment refunded before its settlement delay was over is never *)
(* confirmed, although no webhook may ever tell of the refund: the pull    *)
(* before the promotion is made after the delay (promote_if_still_paid,    *)
(* the worker's promotion).                                                *)
THEOREM EarlyRefund == Spec => []EarlyRefundNeverConfirmed
  <1>1. ASSUME SessionKept PROVE EarlyRefundNeverConfirmed
    BY <1>1 DEF SessionKept, RowKept, NotRefundedBefore, EarlyRefundNeverConfirmed
  <1> QED
    BY SessionsKept, <1>1, PTL

(* A payment of the wrong amount or currency is never promoted, by the     *)
(* status endpoint or by the worker, while its row keeps its session       *)
(* (state.rs, report; worker.rs).                                          *)
THEOREM MismatchNever == Spec => []MismatchNeverPromoted
  <1>1. ASSUME SessionKept PROVE MismatchNeverPromoted
    BY <1>1 DEF SessionKept, RowKept, MismatchNeverPromoted
  <1> QED
    BY SessionsKept, <1>1, PTL

-----------------------------------------------------------------------------
(* An accepted refund takes effect.                                        *)

(* A failed call is counted. *)
LEMMA CallsSucceed ==
  ASSUME Types, Next, faults' = 0
  PROVE  faults = 0 /\ ~Fault /\ ~Crash /\ \A h \in Handlers : ~HangUp(h)
  <1>0. faults \in Nat /\ ~Fault
    BY DEF Types, Fault
  <1>1. ~Crash /\ \A h \in Handlers : ~HangUp(h)
    BY <1>0 DEF Crash, HangUp
  <1> SUFFICES faults' = faults
    BY <1>0, <1>1
  <1>2. ASSUME NEW p, PullStep(p) PROVE faults' = faults
    BY <1>0, <1>2 DEF PullStep, Pull, Capture, Apply, NoFault
  <1>3. CASE Environment
    <2>1. ASSUME NEW s, \/ Pay(s) \/ Approve(s) \/ AutoCapture(s)
                        \/ CaptureSettles(s) \/ Refund(s) \/ Dispute(s)
          PROVE  faults' = faults
      BY <2>1 DEF Pay, Approve, AutoCapture, CaptureSettles, Refund, Dispute, ChargeMoves, store
    <2> QED
      BY <1>1, <1>3, <2>1 DEF Environment, Tick, store, processors
  <1>4. CASE WorkerStep
    <2>1. CASE WorkerList \/ WorkerNext
      BY <2>1 DEF WorkerList, WorkerNext, store, processors
    <2>2. CASE WorkerReread \/ WorkerConfirm
      BY <1>0, <2>2 DEF WorkerReread, WorkerConfirm, NoFault
    <2> QED
      BY <1>2, <1>4, <2>1, <2>2 DEF WorkerStep
  <1>5. ASSUME NEW h \in Handlers, HandlerStep(h) PROVE faults' = faults
    <2>1. CASE StatusStep(h) \/ \E i \in Ids : StatusRead(h, i)
      BY <1>0, <2>1
      DEF StatusStep, StatusRead, StatusBegin, StatusReread, StatusConfirm, StatusReply, NoFault
    <2>2. CASE HintRead(h) \/ ReversalVerify(h) \/ Reverse(h)
      BY <1>0, <2>2 DEF HintRead, ReversalVerify, Reverse, NoFault
    <2>3. CASE ReversalFind(h)
      BY <1>0, <2>3 DEF ReversalFind, NoFault
    <2>4. ASSUME NEW e, Deliver(h, e) PROVE faults' = faults
      BY <2>4 DEF Deliver
    <2> QED
      BY <1>1, <1>2, <1>5, <2>1, <2>2, <2>3, <2>4 DEF HandlerStep, WebhookStep
  <1> QED
    BY <1>0, <1>1, <1>3, <1>4, <1>5 DEF Next

(* A refund that was made stays, and an event is new only when delivered. *)
LEMMA RefundStays ==
  ASSUME Types, Next
  PROVE  /\ \A s \in Session : CaptureReversed(charge[s]) => CaptureReversed(charge'[s])
         /\ seen \subseteq seen'
         /\ \A e \in seen' \ seen :
              e \in Event /\ \E h \in Handlers : Deliver(h, e)
  <1>0. charge \in [Session -> ChargeStates] /\ AnyStep
    BY NextIsAnyStep DEF Types
  <1>1. CASE UNCHANGED <<charge, seen>>
    BY <1>1
  <1>2. ASSUME NEW s \in Session, NEW to, seen' = seen, charge[s] \notin {"refunded", "declined"},
               charge' = [charge EXCEPT ![s] = to]
        PROVE  /\ \A x \in Session : CaptureReversed(charge[x]) => CaptureReversed(charge'[x])
               /\ seen \subseteq seen' /\ seen' \subseteq seen
    BY <1>0, <1>2 DEF CaptureReversed
  <1>3. CASE Surroundings
    BY <1>1, <1>2, <1>3
    DEF Surroundings, Tick, Restarted, Pay, Approve, AutoCapture, CaptureSettles, Refund, Dispute,
        ChargeMoves, store, processors
  <1>4. ASSUME NEW p \in Procs, PullStep(p)
        PROVE  /\ \A x \in Session : CaptureReversed(charge[x]) => CaptureReversed(charge'[x])
               /\ seen' = seen
    <2>1. CASE Capture(p)
      BY <1>0, <2>1 DEF Capture, store, CaptureReversed
    <2>2. CASE Pull(p) \/ Apply(p)
      BY <2>2 DEF Pull, Apply, store, processors
    <2> QED
      BY <1>4, <2>1, <2>2 DEF PullStep
  <1>5. CASE WorkerStep
    <2>1. CASE PullStep(Worker)
      BY <1>4, <2>1 DEF Procs
    <2>2. CASE WorkerList \/ WorkerNext \/ WorkerReread \/ WorkerConfirm
      BY <1>1, <2>2 DEF WorkerList, WorkerNext, WorkerReread, WorkerConfirm, store, processors
    <2> QED
      BY <1>5, <2>1, <2>2 DEF WorkerStep
  <1>6. ASSUME NEW h \in Handlers, Serves(h)
        PROVE  /\ \A x \in Session : CaptureReversed(charge[x]) => CaptureReversed(charge'[x])
               /\ seen \subseteq seen'
               /\ \A e \in seen' \ seen : e \in Event /\ Deliver(h, e)
    <2>1. CASE PullStep(h)
      BY <1>4, <2>1 DEF Procs
    <2>2. CASE (\E i \in Ids : StatusRead(h, i)) \/ StatusStep(h)
      BY <1>1, <2>2
      DEF StatusRead, StatusStep, StatusBegin, StatusReread, StatusConfirm, StatusReply, store,
          processors
    <2>3. CASE HintRead(h) \/ ReversalVerify(h) \/ Reverse(h) \/ HangUp(h)
      BY <1>1, <2>3 DEF HintRead, ReversalVerify, Reverse, HangUp, store, processors
    <2>4. CASE ReversalFind(h)
      BY <1>1, <2>4 DEF ReversalFind, store, processors
    <2>5. ASSUME NEW e \in Event, Deliver(h, e)
          PROVE  charge' = charge /\ seen' = seen \cup {e}
      BY <2>5 DEF Deliver, processors
    <2> QED
      BY <1>6, <2>1, <2>2, <2>3, <2>4, <2>5 DEF Serves, WebhookStep
  <1> QED
    BY <1>0, <1>3, <1>5, <1>6 DEF AnyStep

(* The handler of a refund goes from step to step, up to the reversal. *)
LEMMA HandlingGoesOn ==
  ASSUME CarriesCustomId, NothingFalseHeld, SessionKept, Next, faults' = 0,
         NEW e \in Event, e.type = "refund", e.session.kind = "paypal",
         CaptureReversed(charge[e.session]), NEW p \in Procs, Handling(p, e)
  PROVE  Handling(p, e)' \/ rows'[e.session.id].state \in {"reversed", "confirmed"}
  <1> PICK task \in Task : task = proc[p]
    BY TaskParts DEF NothingFalseHeld
  <1> PICK i \in Ids : i = e.session.id
    BY DEF Event, Session
  <1>0. /\ ~Fault /\ ~Crash /\ \A h \in Handlers : ~HangUp(h)
        /\ proc \in [Procs -> Task] /\ rows \in [Ids -> Row]
    BY CallsSucceed DEF NothingFalseHeld, Types
  <1>1. CASE proc'[p] = proc[p]
    BY <1>1 DEF Handling
  <1>2. ASSUME NEW h \in Handlers, \E t : Becomes(h, t), p # h PROVE proc'[p] = proc[p]
    BY <1>0, <1>2 DEF Becomes
  <1>3. CASE Environment
    BY <1>0, <1>1, <1>3
    DEF Environment, Tick, Pay, Approve, AutoCapture, CaptureSettles, Refund, Dispute, ChargeMoves
  <1>4. CASE WorkerStep
    <2>1. At(Worker, "verify") \/ At(Worker, "find") \/ At(Worker, "reverse") => FALSE
      BY <1>4
      DEF WorkerStep, PullStep, Pull, Capture, Apply, WorkerList, WorkerNext, WorkerReread,
          WorkerConfirm, At
    <2>2. \E t : Becomes(Worker, t)
      BY <1>4
      DEF WorkerStep, PullStep, Pull, Capture, Apply, WorkerList, WorkerNext, WorkerReread,
          WorkerConfirm
    <2>3. p # Worker
      BY <2>1 DEF Handling, At
    <2> QED
      BY <1>0, <1>1, <2>2, <2>3 DEF Becomes
  <1>5. ASSUME NEW h \in Handlers, HandlerStep(h)
        PROVE  Handling(p, e)' \/ rows'[e.session.id].state \in {"reversed", "confirmed"}
    <2>1. Serves(h)
      <3>1. \A t \in EventTypes, s \in Bound : [type |-> t, session |-> s] \in Event
        BY BoundType DEF Event, NothingFalseHeld
      <3> QED
        BY <1>5, <3>1 DEF HandlerStep, Serves
    <2>2. CASE p # h
      BY <1>1, <1>2, <2>1, <2>2, HandlerBecomes
    <2>3. CASE p = h
      <3>1. ReversalVerify(p) \/ ReversalFind(p) \/ Reverse(p)
        BY <1>0, <2>1, <2>3
        DEF Serves, PullStep, Pull, Capture, Apply, StatusRead, StatusStep, StatusBegin,
            StatusReread, StatusConfirm, StatusReply, Deliver, WebhookStep, HintRead, Handling, At
      <3>2. CASE ReversalVerify(p)
        <4>1. Corroborated(e)
          BY DEF Corroborated
        <4>2. Becomes(p, [task EXCEPT !.pc = "find"])
          BY <1>0, <3>2, <4>1 DEF ReversalVerify, Handling
        <4> QED
          BY <1>0, <4>2 DEF Becomes, Handling, Task, TaskRecord
      <3>3. CASE ReversalFind(p)
        <4>1. Resolved(e) = {i}
          BY DEF Resolved, SessionKept, RowKept
        <4>2. \E j : Becomes(p, [task EXCEPT !.pc = "reverse", !.id = j])
          BY <1>0, <3>3, <4>1 DEF ReversalFind, Handling
        <4> QED
          BY <1>0, <4>2 DEF Becomes, Handling, Task, TaskRecord
      <3>4. CASE Reverse(p)
        <4>1. task.id = i /\ rows[i].state # "absent"
          BY <3>4 DEF Reverse, At, Handling, NothingFalseHeld, TasksSound, TaskSound, EventSound,
             SessionKept, RowKept
        <4>2. rows'[i] = MarkReversed(rows[i])
          BY <1>0, <3>4, <4>1 DEF Reverse
        <4>3. rows'[i].state \in {"reversed", "confirmed"}
          BY <1>0, <4>1, <4>2 DEF MarkReversed, Row, States
        <4> QED
          BY <4>3
      <3> QED
        BY <3>1, <3>2, <3>3, <3>4
    <2> QED
      BY <2>2, <2>3
  <1> QED
    BY <1>3, <1>4, <1>5 DEF Next

(* Where PayPal returns custom_id on a capture, an accepted refund is      *)
(* being handled or has taken effect, unless a call failed (http.rs,       *)
(* paypal_webhook).                                                        *)
THEOREM RefundsHandled == CarriesCustomId => (Spec => []RefundsUnderWay)
  <1> SUFFICES ASSUME CarriesCustomId PROVE Spec => []RefundsUnderWay
    OBVIOUS
  <1>1. Init => RefundsUnderWay
    BY DEF Init, RefundsUnderWay
  <1>2. NothingFalseHeld /\ SessionKept /\ RefundsUnderWay /\ [Next]_vars => RefundsUnderWay'
    <2> SUFFICES ASSUME NothingFalseHeld, SessionKept, RefundsUnderWay, [Next]_vars, faults' = 0,
                        NEW e \in seen', e.type = "refund", e.session.kind = "paypal"
                 PROVE  /\ CaptureReversed(charge'[e.session])
                        /\ \/ \E p \in Procs : Handling(p, e)'
                           \/ rows'[e.session.id].state \in {"reversed", "confirmed"}
      BY DEF RefundsUnderWay
    <2>0. Types /\ seen \subseteq Event
      BY DEF NothingFalseHeld, Types
    <2>1. CASE UNCHANGED vars
      BY <2>1 DEF vars, RefundsUnderWay, Handling
    <2>2. CASE Next /\ e \in seen
      <3>1. /\ faults = 0 /\ e \in Event /\ e.session \in Session /\ e.session.id \in Ids
            /\ CaptureReversed(charge[e.session])
        BY <2>0, <2>2, CallsSucceed DEF RefundsUnderWay, Event, Session
      <3>2. CaptureReversed(charge'[e.session])
        BY <2>0, <2>2, <3>1, RefundStays
      <3>3. CASE \E p \in Procs : Handling(p, e)
        BY <2>2, <3>1, <3>2, <3>3, HandlingGoesOn
      <3>4. CASE rows[e.session.id].state \in {"reversed", "confirmed"}
        <4>1. Grows
          BY <2>0, <2>2, NextIsAnyStep, StepGrows
        <4>2. rows'[e.session.id].state = rows[e.session.id].state
          BY <3>1, <3>4, <4>1 DEF Grows, Moved
        <4> QED
          BY <3>2, <3>4, <4>2
      <3> QED
        BY <2>2, <3>1, <3>3, <3>4 DEF RefundsUnderWay
    <2>3. CASE Next /\ e \notin seen
      <3>1. PICK h \in Handlers : Deliver(h, e)
        BY <2>0, <2>3, RefundStays
      <3>2. CaptureReversed(charge'[e.session])
        BY <3>1 DEF Deliver, Sendable, processors
      <3>3. h \in Procs /\ Handling(h, e)'
        BY <2>0, <3>1 DEF Deliver, Becomes, Handling, Idle, Types, Procs
      <3> QED
        BY <3>2, <3>3
    <2> QED
      BY <2>1, <2>2, <2>3
  <1> QED
    BY <1>1, <1>2, NothingFalse, SessionsKept, PTL DEF Spec

(* So a refund the handler accepted and is done with has its effect,       *)
(* however early it came (mark_paypal_capture_reversed).                   *)
THEOREM RefundsApplied == CarriesCustomId => (Spec => []RecordedRefundApplied)
  <1> SUFFICES ASSUME CarriesCustomId PROVE Spec => []RecordedRefundApplied
    OBVIOUS
  <1>1. RefundsUnderWay => RecordedRefundApplied
    BY DEF RefundsUnderWay, RecordedRefundApplied, Handling
  <1> QED
    BY RefundsHandled, <1>1, PTL
=============================================================================
