--------------------------- MODULE Gateway_proofs ---------------------------
(***************************************************************************)
(* What the whole gateway guarantees, minting included, for every number   *)
(* of correlations, of requests of either kind, of sessions and of faults. *)
(* Every step that is not a mint's is one of Settlement's own (AnyStep),   *)
(* of which SettlementInv_proofs and SettlementKept_proofs have shown      *)
(* what is needed; what is left is that a mint inserts and re-mints rows   *)
(* without making anything false that somebody holds.                      *)
(***************************************************************************)
EXTENDS Gateway, SettlementKept_proofs

-----------------------------------------------------------------------------
(* What is true of minting.                                                *)

(* Where a request is tells what it holds. *)
RequestSound(j) ==
  /\ j.pc \in {"existing", "create", "persist", "lost", "reply"} => j.id \in Ids
  /\ j.pc = "create" => j.kind \in Kinds /\ j.attempt \in 1..MaxAttempt
  /\ j.pc \in {"persist", "reply"} => j.session \in Session /\ j.session.id = j.id

MintsSound ==
  /\ minted \in [Session -> C!Mint \cup {None}]
  /\ job \in [Clients -> C!Job]
  /\ \A c \in Clients : RequestSound(job[c])

(* Nobody is charged for a session whose URL he was not given. *)
ChargedWereHanded ==
  /\ handed \subseteq Session
  /\ \A s \in Session : charge[s] # "unpaid" => s \in handed

GatewayInv == NothingFalseHeld /\ MintsSound /\ ChargedWereHanded

-----------------------------------------------------------------------------
(* The steps that are Settlement's.                                        *)

LEMMA SettlingIsAnyStep ==
  ASSUME Types, handed \subseteq Session, SettleStep \/ BuyerStep \/ ClockStep \/ Restart
  PROVE  AnyStep
  <1>1. CASE SettleStep
    <2>1. \A t \in Events, s \in handed : [type |-> t, session |-> s] \in Event
      BY EventsAssumption DEF Event
    <2>2. CASE WorkerStep
      BY <2>2 DEF AnyStep
    <2>3. ASSUME NEW h \in Handlers,
                 \/ \E i \in Ids : StatusRead(h, i)
                 \/ \E t \in Events, s \in handed : Deliver(h, [type |-> t, session |-> s])
                 \/ PullStep(h) \/ StatusStep(h) \/ WebhookStep(h) \/ HangUp(h)
          PROVE  AnyStep
      BY <2>1, <2>3 DEF Serves, AnyStep
    <2> QED
      BY <1>1, <2>2, <2>3 DEF SettleStep
  <1>2. CASE BuyerStep
    BY <1>2 DEF BuyerStep, Surroundings, AnyStep
  <1>3. CASE ClockStep
    BY <1>3 DEF ClockStep, Surroundings, AnyStep
  <1>4. CASE Restart
    BY <1>4 DEF Restart, Restarted, Fault, Types, Surroundings, AnyStep
  <1> QED
    BY <1>1, <1>2, <1>3, <1>4

(* They leave minting alone, or stop it. *)
LEMMA SettlingMints ==
  ASSUME MintsSound, SettleStep \/ BuyerStep \/ ClockStep \/ Restart PROVE MintsSound'
  <1>1. CASE UNCHANGED minting
    BY <1>1 DEF minting, MintsSound, RequestSound
  <1>2. CASE Restart
    <2>1. C!Idle \in C!Job /\ RequestSound(C!Idle)
      BY DEF C!Idle, C!Job, C!Points, RequestSound
    <2> QED
      BY <1>2, <2>1 DEF Restart, MintsSound
  <1>3. CASE ClockStep
    BY <1>3 DEF ClockStep, C!Tick, MintsSound, RequestSound
  <1> QED
    BY <1>1, <1>2, <1>3 DEF SettleStep, BuyerStep

(* They charge only whom a URL was given: a capture is of an order that    *)
(* was approved.                                                           *)
LEMMA SettlingCharges ==
  ASSUME Types, ChargedWereHanded, SettleStep \/ BuyerStep \/ ClockStep \/ Restart
  PROVE  ChargedWereHanded'
  <1>0. charge \in [Session -> ChargeStates] /\ handed \subseteq Session
    BY DEF Types, ChargedWereHanded
  <1>1. CASE UNCHANGED <<charge, handed>>
    BY <1>1 DEF ChargedWereHanded
  <1>2. ASSUME NEW s \in handed, NEW to, charge' = [charge EXCEPT ![s] = to], handed' = handed
        PROVE  ChargedWereHanded'
    BY <1>0, <1>2 DEF ChargedWereHanded
  <1>3. CASE BuyerStep
    <2>1. handed' = handed /\ \E s \in handed : \E to : charge' = [charge EXCEPT ![s] = to]
      BY <1>3
      DEF BuyerStep, Pay, Approve, AutoCapture, CaptureSettles, Refund, Dispute, ChargeMoves
    <2> QED
      BY <1>2, <2>1
  <1>4. CASE ClockStep \/ Restart
    BY <1>1, <1>4 DEF ClockStep, Tick, Restart, store, processors
  <1>5. ASSUME NEW p \in Procs, Capture(p), handed' = handed PROVE ChargedWereHanded'
    <2> DEFINE s == proc[p].snap.session
    <2>1. CASE UNCHANGED charge
      BY <1>1, <1>5, <2>1
    <2>2. CASE charge[s] = "approved" /\ \E to : charge' = [charge EXCEPT ![s] = to]
      <3>1. CASE s \in Session
        BY <1>2, <1>5, <2>2, <3>1 DEF ChargedWereHanded
      <3>2. CASE s \notin Session
        BY <1>0, <1>1, <1>5, <2>2, <3>2
      <3> QED
        BY <3>1, <3>2
    <2> QED
      BY <1>5, <2>1, <2>2 DEF Capture
  <1>6. CASE SettleStep
    <2>1. PICK p \in Procs : PullStep(p) \/ (p = Worker /\ WorkerStep) \/ Serves(p)
      <3>1. \A t \in Events, s \in handed : [type |-> t, session |-> s] \in Event
        BY <1>0, EventsAssumption DEF Event
      <3> QED
        BY <1>6, <3>1 DEF SettleStep, Serves, Procs
    <2>2. UNCHANGED charge \/ Capture(p)
      BY <2>1, ActorWritesOnly DEF ActorWrites
    <2> QED
      BY <1>1, <1>5, <1>6, <2>2 DEF SettleStep
  <1> QED
    BY <1>3, <1>4, <1>6

-----------------------------------------------------------------------------
(* The steps that mint.                                                    *)

(* What a mint may write over a row. *)
Reminted(i, new) ==
  /\ new \in Row /\ RowSound(new, i) /\ Moved(rows[i], new)
  /\ Phase(new) = Phase(rows[i]) /\ Since(new) = Since(rows[i])

MintWrites ==
  \/ UNCHANGED rows
  \/ \E i \in Ids : \E new : Reminted(i, new) /\ rows' = [rows EXCEPT ![i] = new]

(* Checkout's table is this one. *)
LEMMA SameTable ==
  /\ C!Kinds = Kinds /\ C!Session = Session /\ C!NoRow = NoRow
  /\ \A terms : C!NewRow(terms) = NewRow(terms)
  /\ \A row, s, expires, origin :
       C!SetSession(row, s, expires, origin) = SetSession(row, s, expires, origin)
  /\ \A row : C!BoundProcessor(row) = BoundProcessor(row)
  BY DEF C!Kinds, Kinds, C!Session, Session, C!NoRow, NoRow, C!NewRow, NewRow, C!SetSession,
         SetSession, C!SetSessionApplies, SetSessionApplies, C!BoundProcessor, BoundProcessor

(* insert_new, on a key without a row. *)
LEMMA InsertReminds ==
  ASSUME Types, RowsSound, NEW i \in Ids, rows[i].state = "absent", NEW terms \in Terms
  PROVE  Reminted(i, NewRow(terms))
  <1>1. rows[i] = NoRow
    BY DEF RowsSound, RowSound
  <1>2. NewRow(terms) \in Row
    BY DEF NewRow, NoRow, Row, States
  <1>3. /\ NewRow(terms).state = "created" /\ NewRow(terms).session = None
        /\ NewRow(terms).ref = None /\ NewRow(terms).paidAt = None
        /\ NoRow.state = "absent" /\ NoRow.paidAt = None
    BY DEF NewRow, NoRow
  <1> QED
    BY <1>1, <1>2, <1>3 DEF Reminted, RowSound, Moved, PaymentOnRecord, Phase, Since

(* set_session: another session of the correlation, and no word of any     *)
(* payment.                                                                *)
LEMMA PersistReminds ==
  ASSUME Types, RowsSound, NEW i \in Ids, NEW s \in Session, s.id = i, NEW expires \in Nat,
         NEW origin \in Origins \cup {None}
  PROVE  Reminted(i, SetSession(rows[i], s, expires, origin))
  <1> PICK row \in Row : row = rows[i]
    BY DEF Types
  <1> DEFINE new == SetSession(row, s, expires, origin)
  <1>1. RowSound(row, i)
    BY DEF RowsSound
  <1>2. CASE SetSessionApplies(row, origin)
    <2>1. new \in Row
      <3>1. PICK kind \in Kinds, attempt \in Nat, bound \in Origins \cup {None} :
              /\ kind = s.kind /\ attempt = s.attempt
              /\ bound = IF origin = None THEN row.origin ELSE origin
        <4>1. s.kind \in Kinds /\ s.attempt \in Nat
          BY MaxAttemptAssumption DEF Session
        <4>2. (IF origin = None THEN row.origin ELSE origin) \in Origins \cup {None}
          BY DEF Row
        <4> QED
          BY <4>1, <4>2
      <3>2. [row EXCEPT !.processor = kind, !.session = s, !.expires = expires,
                        !.attempt = attempt, !.origin = bound] \in Row
        BY DEF Row
      <3> QED
        BY <1>2, <3>1, <3>2 DEF SetSession
    <2>2. /\ new.state = row.state /\ new.ref = row.ref /\ new.matched = row.matched
          /\ new.paidAt = row.paidAt /\ new.session = s /\ row.state # "absent"
      BY <1>2 DEF SetSession, SetSessionApplies, Row
    <2> HIDE DEF new
    <2>3. RowSound(new, i)
      BY <1>1, <2>2 DEF RowSound, DelayElapsed
    <2>4. Moved(row, new)
      BY <2>2 DEF Moved, PaymentOnRecord
    <2> QED
      BY <2>1, <2>2, <2>3, <2>4 DEF Reminted, Phase, Since, new
  <1>3. CASE ~SetSessionApplies(row, origin)
    BY <1>1, <1>3, MarksMove DEF SetSession, Reminted
  <1> QED
    BY <1>2, <1>3

(* The request ends, and holds nothing. *)
LEMMA IdleRequest == C!Idle \in C!Job /\ RequestSound(C!Idle)
  BY DEF C!Idle, C!Job, C!Points, RequestSound

(* A request goes on to mint, or answers. *)
LEMMA CreatingRequest ==
  ASSUME NEW j \in C!Job, j.id \in Ids, NEW kind \in Kinds, NEW attempt \in 1..MaxAttempt,
         NEW origin \in Origins \cup {None}
  PROVE  LET t == C!Creating(j, kind, attempt, origin) IN t \in C!Job /\ RequestSound(t)
  <1> PICK k \in C!Kinds, a \in Nat : k = kind /\ a = attempt
    BY SameTable, MaxAttemptAssumption
  <1>1. [j EXCEPT !.pc = "create", !.kind = k, !.attempt = a, !.origin = origin] \in C!Job
    BY DEF C!Job, C!Points
  <1> QED
    BY <1>1 DEF C!Creating, C!Job, RequestSound

LEMMA ServingJob ==
  ASSUME NEW j \in C!Job, NEW s \in C!Session
  PROVE  LET t == C!Serving(j, s) IN
         t \in C!Job /\ t.pc = "reply" /\ t.id = j.id /\ t.session = s
  BY DEF C!Serving, C!Idle, C!Job, C!Points

LEMMA ServingRequest ==
  ASSUME NEW j \in C!Job, NEW s \in Session, j.id = s.id
  PROVE  LET t == C!Serving(j, s) IN t \in C!Job /\ RequestSound(t)
  <1>1. LET t == C!Serving(j, s) IN
        t \in C!Job /\ t.pc = "reply" /\ t.id = j.id /\ t.session = s
    BY SameTable, ServingJob
  <1>2. s.id \in Ids
    BY DEF Session
  <1> QED
    BY <1>1, <1>2 DEF RequestSound

(* What a step of a request leaves: of the table, of the processors'       *)
(* sessions and of its own state.                                          *)
MintLeaves(c) ==
  /\ MintWrites /\ UNCHANGED clock /\ faults' \in Nat
  /\ minted' \in [Session -> C!Mint \cup {None}]
  /\ UNCHANGED job \/ \E j \in C!Job : C!Becomes(c, j) /\ RequestSound(j)

LEMMA EagerKinds == C!Eager \subseteq Kinds
  BY MintingAssumption DEF C!Eager

LEMMA InvoiceLeaves ==
  ASSUME GatewayInv, NEW c \in Clients, NEW i \in Ids, NEW terms \in Terms,
         C!InvoiceInsert(c, i, terms)
  PROVE  MintLeaves(c)
  <1>0. Types /\ RowsSound /\ MintsSound
    BY DEF GatewayInv, NothingFalseHeld
  <1> PICK j \in C!Job : j = [C!Idle EXCEPT !.op = "invoice", !.id = i, !.terms = terms]
    BY DEF C!Idle, C!Job, C!Points
  <1>1. j.id = i
    BY DEF C!Idle
  <1>2. [j EXCEPT !.pc = "existing"] \in C!Job /\ RequestSound([j EXCEPT !.pc = "existing"])
    BY <1>1 DEF C!Job, C!Points, RequestSound
  <1>3. \A kind \in C!Eager : LET t == C!Creating(j, kind, 1, None) IN
          t \in C!Job /\ RequestSound(t)
    BY <1>1, EagerKinds, CreatingRequest, MaxAttemptAssumption, 1 \in 1..MaxAttempt
  <1>4. UNCHANGED <<minted, clock, faults>>
    BY DEF C!InvoiceInsert
  <1>5. MintWrites
    BY <1>0, InsertReminds, SameTable DEF C!InvoiceInsert, MintWrites
  <1>6. UNCHANGED job \/ \E t \in C!Job : C!Becomes(c, t) /\ RequestSound(t)
    BY <1>2, <1>3 DEF C!InvoiceInsert
  <1> QED
    BY <1>0, <1>4, <1>5, <1>6 DEF MintLeaves, MintsSound, Types

LEMMA ExistingLeaves ==
  ASSUME GatewayInv, NEW c \in Clients, C!InvoiceExisting(c)
  PROVE  MintLeaves(c)
  <1>0. Types /\ MintsSound
    BY DEF GatewayInv, NothingFalseHeld
  <1> PICK j \in C!Job : j = job[c]
    BY <1>0 DEF MintsSound
  <1>1. j.id \in Ids
    BY <1>0 DEF MintsSound, RequestSound, C!InvoiceExisting, C!At
  <1> PICK row \in Row : row = rows[j.id]
    BY <1>0, <1>1 DEF Types
  <1>2. ASSUME row.attempt < MaxAttempt, NEW kind \in C!Eager
        PROVE  LET t == C!Creating(j, kind, row.attempt + 1, None) IN
               t \in C!Job /\ RequestSound(t)
    <2>1. row.attempt + 1 \in 1..MaxAttempt
      BY <1>2, MaxAttemptAssumption DEF Row
    <2> QED
      BY <1>1, <2>1, EagerKinds, CreatingRequest
  <1>3. \E t \in C!Job : C!Becomes(c, t) /\ RequestSound(t)
    BY <1>2, IdleRequest DEF C!InvoiceExisting
  <1>4. UNCHANGED <<rows, minted, clock, faults>>
    BY DEF C!InvoiceExisting
  <1> QED
    BY <1>0, <1>3, <1>4 DEF MintLeaves, MintWrites, MintsSound, Types

LEMMA CheckoutLeaves ==
  ASSUME GatewayInv, NEW c \in Clients, NEW i \in Ids, NEW want \in Kinds \cup {None},
         NEW named \in Origins \cup {None}, C!CheckoutRead(c, i, want, named)
  PROVE  MintLeaves(c)
  <1>0. Types /\ RowsSound /\ MintsSound
    BY DEF GatewayInv, NothingFalseHeld
  <1> PICK row \in Row : row = rows[i]
    BY <1>0 DEF Types
  <1> PICK origin \in Origins \cup {None} : origin = C!EffectiveOrigin(row, named)
    BY DEF C!EffectiveOrigin, Row
  <1> PICK j \in C!Job : j = [C!Idle EXCEPT !.op = "checkout", !.id = i, !.terms = row.terms,
                                            !.named = named, !.origin = origin]
    <2>1. row.terms \in Terms \cup {None}
      BY DEF Row
    <2> QED
      BY <2>1 DEF C!Idle, C!Job, C!Points
  <1>1. j.id = i
    BY DEF C!Idle
  <1>2. ASSUME C!Reusable(row, origin)
        PROVE  LET t == C!Serving(j, row.session) IN t \in C!Job /\ RequestSound(t)
    <2>1. row.session \in Session /\ row.session.id = i
      BY <1>0, <1>2 DEF C!Reusable, C!Live, Row, RowsSound, RowSound
    <2> QED
      BY <1>1, <2>1, ServingRequest
  <1>3. ASSUME row.attempt < MaxAttempt
        PROVE  LET t == C!Creating(j, C!ChosenKind(row, want), row.attempt + 1, origin) IN
               t \in C!Job /\ RequestSound(t)
    <2>1. row.attempt + 1 \in 1..MaxAttempt
      BY <1>3, MaxAttemptAssumption DEF Row
    <2>2. C!ChosenKind(row, want) \in Kinds
      BY MintingAssumption, SameTable DEF C!ChosenKind, BoundProcessor, Row, Kinds
    <2> QED
      BY <1>1, <2>1, <2>2, CreatingRequest
  <1>4. \E t \in C!Job : C!Becomes(c, t) /\ RequestSound(t)
    BY <1>2, <1>3 DEF C!CheckoutRead
  <1>5. UNCHANGED <<rows, minted, clock, faults>>
    BY DEF C!CheckoutRead
  <1> QED
    BY <1>0, <1>4, <1>5 DEF MintLeaves, MintWrites, MintsSound, Types

(* The create call answered, for the first time or again. *)
LEMMA CreatedJob ==
  ASSUME NEW j \in C!Job, C!Key(j) \in C!Session, NEW mint \in C!Mint, clock \in Nat
  PROVE  LET t == C!Created(j, mint) IN
         t \in C!Job /\ t.pc = "persist" /\ t.id = j.id /\ t.session = C!Key(j)
  <1> PICK s \in C!Session, expires \in Nat :
             s = C!Key(j) /\ expires = C!RecordedExpiry(j, mint)
    BY MintingAssumption DEF C!RecordedExpiry, C!Mint
  <1>1. LET t == [j EXCEPT !.pc = "persist", !.session = s, !.expires = expires] IN
        t \in C!Job /\ t.pc = "persist" /\ t.id = j.id /\ t.session = s
    BY DEF C!Job, C!Points
  <1> QED
    BY <1>1 DEF C!Created

LEMMA CreateLeaves ==
  ASSUME GatewayInv, NEW c \in Clients, C!Create(c) PROVE MintLeaves(c)
  <1>0. /\ Types /\ MintsSound /\ minted \in [Session -> C!Mint \cup {None}]
        /\ clock \in Nat /\ faults \in Nat
    BY DEF GatewayInv, NothingFalseHeld, Types, MintsSound
  <1> PICK j \in C!Job : j = job[c]
    BY <1>0 DEF MintsSound
  <1> PICK s \in Session : s = C!Key(j) /\ s.id = j.id
    BY <1>0 DEF MintsSound, RequestSound, C!Create, C!At, C!Key, Session
  <1>1. j.id \in Ids
    BY DEF Session
  <1> DEFINE new == [origin |-> j.origin, terms |-> j.terms, expires |-> clock + Ttl]
  <1>2. new \in C!Mint
    BY <1>0, MintingAssumption DEF C!Mint, C!Job
  <1>3. ASSUME NEW mint \in C!Mint
        PROVE  C!Created(j, mint) \in C!Job /\ RequestSound(C!Created(j, mint))
    BY <1>0, <1>1, CreatedJob, SameTable DEF RequestSound
  <1>4. minted[s] # None => minted[s] \in C!Mint
    BY <1>0
  <1>5. \E t \in C!Job : C!Becomes(c, t) /\ RequestSound(t)
    BY <1>2, <1>3, <1>4, IdleRequest DEF C!Create
  <1>6. minted' \in [Session -> C!Mint \cup {None}]
    BY <1>0, <1>2 DEF C!Create
  <1>7. UNCHANGED <<rows, clock>> /\ faults' \in Nat
    BY <1>0 DEF C!Create, C!Fault, C!NoFault
  <1> QED
    BY <1>5, <1>6, <1>7 DEF MintLeaves, MintWrites

LEMMA PersistLeaves ==
  ASSUME GatewayInv, NEW c \in Clients, C!Persist(c) PROVE MintLeaves(c)
  <1>0. /\ Types /\ RowsSound /\ MintsSound /\ faults \in Nat
    BY DEF GatewayInv, NothingFalseHeld, Types
  <1> PICK j \in C!Job : j = job[c]
    BY <1>0 DEF MintsSound
  <1>1. j.pc = "persist" /\ j.id \in Ids /\ j.session \in Session /\ j.session.id = j.id
    BY <1>0 DEF MintsSound, RequestSound, C!Persist, C!At
  <1> DEFINE stored == SetSession(rows[j.id], j.session, j.expires, j.origin)
  <1>2. Reminted(j.id, stored)
    <2>1. j.expires \in Nat /\ j.origin \in Origins \cup {None}
      BY DEF C!Job
    <2> QED
      BY <1>0, <1>1, <2>1, PersistReminds
  <1>3. rows' = rows \/ rows' = [rows EXCEPT ![j.id] = stored]
    BY SameTable DEF C!Persist
  <1>4. MintWrites
    BY <1>1, <1>2, <1>3 DEF MintWrites
  <1>5. C!Serving(j, j.session) \in C!Job /\ RequestSound(C!Serving(j, j.session))
    BY <1>1, ServingRequest
  <1>6. [j EXCEPT !.pc = "lost"] \in C!Job /\ RequestSound([j EXCEPT !.pc = "lost"])
    BY <1>1 DEF C!Job, C!Points, RequestSound
  <1>7. \E t \in C!Job : C!Becomes(c, t) /\ RequestSound(t)
    BY <1>5, <1>6, IdleRequest DEF C!Persist
  <1>8. UNCHANGED <<minted, clock>> /\ faults' \in Nat
    BY <1>0 DEF C!Persist, C!Fault, C!NoFault
  <1> QED
    BY <1>0, <1>4, <1>7, <1>8 DEF MintLeaves, MintsSound

LEMMA EndLeaves ==
  ASSUME GatewayInv, NEW c \in Clients, C!LostRace(c) \/ C!Reply(c) \/ C!Lose(c)
  PROVE  MintLeaves(c)
  <1>0. /\ Types /\ RowsSound /\ MintsSound /\ faults \in Nat
    BY DEF GatewayInv, NothingFalseHeld, Types
  <1> PICK j \in C!Job : j = job[c]
    BY <1>0 DEF MintsSound
  <1>1. ASSUME C!LostRace(c), rows[j.id].session # None
        PROVE  LET t == C!Serving(j, rows[j.id].session) IN t \in C!Job /\ RequestSound(t)
    <2>1. j.id \in Ids
      BY <1>0, <1>1 DEF MintsSound, RequestSound, C!LostRace, C!At
    <2>2. rows[j.id].session \in Session /\ rows[j.id].session.id = j.id
      BY <1>0, <1>1, <2>1 DEF RowsSound, RowSound, Types, Row
    <2> QED
      BY <2>2, ServingRequest
  <1>2. \E t \in C!Job : C!Becomes(c, t) /\ RequestSound(t)
    BY <1>1, IdleRequest DEF C!LostRace, C!Live, C!Reply, C!Lose
  <1>3. UNCHANGED <<rows, minted, clock>> /\ faults' \in Nat
    BY <1>0 DEF C!LostRace, C!Reply, C!Lose, C!Fault
  <1> QED
    BY <1>0, <1>2, <1>3 DEF MintLeaves, MintWrites, MintsSound

(* Whatever a request does. *)
LEMMA StepLeaves ==
  ASSUME GatewayInv, NEW c \in Clients, C!Step(c) PROVE MintLeaves(c)
  <1>1. CASE \E i \in Ids, t \in Terms : C!InvoiceInsert(c, i, t)
    BY <1>1, InvoiceLeaves
  <1>2. CASE \E i \in Ids, want \in Kinds \cup {None}, named \in Origins \cup {None} :
               C!CheckoutRead(c, i, want, named)
    BY <1>2, CheckoutLeaves
  <1> QED
    BY <1>1, <1>2, ExistingLeaves, CreateLeaves, PersistLeaves, EndLeaves, SameTable DEF C!Step

-----------------------------------------------------------------------------
(* The invariant.                                                          *)

(* Tasks that do nothing go on holding nothing false. *)
LEMMA TasksLast ==
  ASSUME Types, RowsSound, TasksSound, Grows, UNCHANGED proc PROVE TasksSound'
  <1>1. ASSUME NEW p \in Procs PROVE TaskSound(proc[p])'
    <2>1. TaskSound(proc[p]) /\ proc[p] \in Task /\ proc'[p] = proc[p]
      BY DEF TasksSound, Types
    <2> QED
      BY <2>1, TaskFrame
  <1> QED
    BY <1>1 DEF TasksSound

(* A mint makes nothing false that a row, or anybody, held. *)
LEMMA MintFalsifiesNothing ==
  ASSUME NothingFalseHeld, NEW c, MintLeaves(c), UNCHANGED settling
  PROVE  NothingFalseHeld'
  <1>0. Types /\ RowsSound /\ TasksSound
    BY DEF NothingFalseHeld
  <1>1. CASE UNCHANGED rows
    <2>1. Types' /\ Grows
      BY <1>0, <1>1, RowsKept, OnlyRowsGrow DEF Types, MintLeaves, settling
    <2>2. ASSUME NEW i \in Ids PROVE RowSound(rows[i], i)'
      <3>1. RowSound(rows[i], i) /\ rows[i] \in Row /\ rows'[i] = rows[i]
        BY <1>0, <1>1 DEF RowsSound, Types
      <3> QED
        BY <1>0, <2>1, <3>1, RowFrame
    <2> QED
      BY <1>0, <2>1, <2>2, TasksLast DEF NothingFalseHeld, RowsSound, settling
  <1>2. ASSUME NEW i \in Ids, NEW new, Reminted(i, new), rows' = [rows EXCEPT ![i] = new]
        PROVE  NothingFalseHeld'
    <2>1. Types'
      BY <1>0, <1>2 DEF Types, MintLeaves, settling, Reminted
    <2>2. Grows
      BY <1>0, <1>2, OneRowMoves, OnlyRowsGrow DEF MintLeaves, settling, Reminted
    <2>3. RowSound(new, i)'
      BY <1>0, <1>2, <2>2, RowFrame DEF Reminted
    <2>4. RowsSound'
      BY <1>0, <1>2, <2>2, <2>3, RowsFrame
    <2> QED
      BY <1>0, <2>1, <2>2, <2>4, TasksLast DEF NothingFalseHeld, settling
  <1> QED
    BY <1>1, <1>2 DEF MintLeaves, MintWrites

(* A step of a request keeps what requests hold, and hands out a session   *)
(* of the processors'.                                                     *)
LEMMA MintStepSound ==
  ASSUME GatewayInv, NEW c \in Clients, MintStep(c) PROVE GatewayInv'
  <1>0. /\ NothingFalseHeld /\ MintsSound /\ ChargedWereHanded
        /\ MintLeaves(c) /\ UNCHANGED settling
    BY StepLeaves DEF GatewayInv, MintStep
  <1>1. NothingFalseHeld'
    BY <1>0, MintFalsifiesNothing
  <1>2. MintsSound'
    <2>1. CASE UNCHANGED job
      BY <1>0, <2>1 DEF MintLeaves, MintsSound, RequestSound
    <2>2. ASSUME NEW j \in C!Job, C!Becomes(c, j), RequestSound(j) PROVE MintsSound'
      BY <1>0, <2>2 DEF MintLeaves, MintsSound, RequestSound, C!Becomes
    <2> QED
      BY <1>0, <2>1, <2>2 DEF MintLeaves
  <1>3. handed \subseteq handed' /\ handed' \subseteq Session
    <2>1. C!At(c, "reply") => job[c].session \in Session
      BY <1>0 DEF MintsSound, RequestSound, C!At
    <2> QED
      BY <1>0, <2>1 DEF MintStep, ChargedWereHanded
  <1>4. ChargedWereHanded'
    BY <1>0, <1>3 DEF ChargedWereHanded, settling
  <1> QED
    BY <1>1, <1>2, <1>4 DEF GatewayInv

(* At first there is nothing. *)
LEMMA GatewayInitSound == GatewayInit => GatewayInv
  <1> SUFFICES ASSUME GatewayInit PROVE GatewayInv
    OBVIOUS
  <1>0. /\ rows = [i \in Ids |-> NoRow] /\ minted = [s \in Session |-> None]
        /\ clock = 0 /\ job = [c \in Clients |-> C!Idle] /\ faults = 0
        /\ proc = [p \in Procs |-> Idle]
    BY SameTable DEF GatewayInit, C!Init
  <1>1. Types
    BY <1>0, NoRowType, IdleType DEF GatewayInit, Types, ChargeStates
  <1>2. ASSUME NEW i \in Ids PROVE RowSound(rows[i], i)
    BY <1>0 DEF NoRow, RowSound, PaymentOnRecord
  <1>3. TaskSound(Idle)
    BY <1>0, IdleSound
  <1>4. Worker \in Procs /\ Idle.op = "idle"
    BY DEF Procs, Idle
  <1>5. NothingFalseHeld
    BY <1>0, <1>1, <1>2, <1>3, <1>4 DEF NothingFalseHeld, RowsSound, TasksSound
  <1>6. MintsSound /\ ChargedWereHanded
    BY <1>0, IdleRequest DEF MintsSound, ChargedWereHanded, GatewayInit
  <1> QED
    BY <1>5, <1>6 DEF GatewayInv

LEMMA SettlingSound ==
  ASSUME GatewayInv, SettleStep \/ BuyerStep \/ ClockStep \/ Restart PROVE GatewayInv'
  <1>1. NothingFalseHeld /\ MintsSound /\ ChargedWereHanded /\ Types /\ handed \subseteq Session
    BY DEF GatewayInv, NothingFalseHeld, ChargedWereHanded
  <1>2. NothingFalseHeld'
    BY <1>1, SettlingIsAnyStep, NothingFalseStep
  <1>3. MintsSound' /\ ChargedWereHanded'
    BY <1>1, SettlingMints, SettlingCharges
  <1> QED
    BY <1>2, <1>3 DEF GatewayInv

(* No handler, no row and no request ever knows anything that is not so,   *)
(* minting and re-minting included.                                        *)
THEOREM GatewaySound == GatewaySpec => []GatewayInv
  <1>1. GatewayInv /\ [GatewayNext]_gvars => GatewayInv'
    <2> SUFFICES ASSUME GatewayInv, [GatewayNext]_gvars PROVE GatewayInv'
      OBVIOUS
    <2>1. CASE UNCHANGED gvars
      <3>1. UNCHANGED vars /\ UNCHANGED <<minted, job, handed, charge>>
        BY <2>1 DEF gvars, minting, vars
      <3>2. NothingFalseHeld'
        BY <3>1, NothingFalseStutter DEF GatewayInv
      <3>3. MintsSound' /\ ChargedWereHanded'
        BY <3>1 DEF GatewayInv, MintsSound, RequestSound, ChargedWereHanded
      <3> QED
        BY <3>2, <3>3 DEF GatewayInv
    <2> QED
      BY <2>1, MintStepSound, SettlingSound DEF GatewayNext
  <1> QED
    BY GatewayInitSound, <1>1, PTL DEF GatewaySpec

-----------------------------------------------------------------------------
(* What it gives.                                                          *)

(* Nobody holds anything false (verification.rs, worker.rs, the webhook    *)
(* handlers of http.rs), also while rows are re-minted under them.         *)
THEOREM GatewayNothingFalse == GatewaySpec => []NothingFalseHeld
  BY GatewaySound, PTL DEF GatewayInv

(* Paid, confirmed and reversed rows are borne out by the processor, over  *)
(* all the sessions a correlation ever had (pull_and_apply,                *)
(* promote_if_still_paid, checkout_session).                               *)
THEOREM GatewayStatesEarned == GatewaySpec => []EveryStateEarned
  BY GatewayNothingFalse, EveryRowEarned, PTL

(* The reference of a recorded payment is a session of this correlation    *)
(* that some buyer was given and was charged for, also if the row has      *)
(* another session by now (pull_and_apply, mark_paid).                     *)
THEOREM GatewayRecordEarned == GatewaySpec => []RecordEarned
  <1>1. ASSUME GatewayInv PROVE RecordEarned
    <2>1. ASSUME NEW i \in Ids, rows[i].ref # None
          PROVE  LET ref == rows[i].ref IN ref \in handed /\ ref.id = i /\ Taken(charge[ref])
      <3>1. RowSound(rows[i], i) /\ rows[i].ref \in Session
        BY <1>1, <2>1 DEF GatewayInv, NothingFalseHeld, RowsSound, Types, Row
      <3>2. rows[i].ref.id = i /\ Taken(charge[rows[i].ref])
        BY <2>1, <3>1 DEF RowSound
      <3>3. charge[rows[i].ref] # "unpaid"
        BY <3>2 DEF Taken
      <3> QED
        BY <1>1, <3>1, <3>2, <3>3 DEF GatewayInv, ChargedWereHanded
    <2> QED
      BY <2>1 DEF RecordEarned
  <1> QED
    BY GatewaySound, <1>1, PTL

(* A mint is no move of Ledger's: it says nothing of a payment. *)
LEMMA MintLedger ==
  ASSUME NothingFalseHeld, NEW c, MintLeaves(c), UNCHANGED settling PROVE UNCHANGED L!vars
  <1>1. \A i \in Ids : Phase(rows'[i]) = Phase(rows[i]) /\ Since(rows'[i]) = Since(rows[i])
    <2>1. CASE UNCHANGED rows
      BY <2>1
    <2>2. ASSUME NEW j \in Ids, NEW new, Reminted(j, new), rows' = [rows EXCEPT ![j] = new],
                 NEW i \in Ids
          PROVE  Phase(rows'[i]) = Phase(rows[i]) /\ Since(rows'[i]) = Since(rows[i])
      BY <2>2 DEF Reminted, NothingFalseHeld, Types
    <2> QED
      BY <2>1, <2>2 DEF MintLeaves, MintWrites
  <1>2. UNCHANGED <<charge, drifted, clock>>
    BY DEF MintLeaves, settling
  <1> QED
    BY <1>1, <1>2 DEF L!vars, PaidSessions, ExactSessions, Phase, Since

(* What the Lock Server relies on, whatever the interleaving of mints,     *)
(* status calls, webhooks and polls: the whole gateway implements Ledger.  *)
THEOREM GatewayImplementsLedger == GatewaySpec => LedgerSpec
  <1>1. GatewayInit => L!Init
    <2> SUFFICES ASSUME GatewayInit PROVE L!Init
      OBVIOUS
    <2>1. rows = [i \in Ids |-> NoRow] /\ clock = 0
      BY SameTable DEF GatewayInit, C!Init
    <2>2. \A i \in Ids : rows[i].state = "absent" /\ rows[i].paidAt = None
      BY <2>1 DEF NoRow
    <2>3. \A s \in Session : ~Taken(charge[s]) /\ ~GivenBack(charge[s])
      BY DEF GatewayInit, Taken, GivenBack
    <2>4. \A i \in Ids : PaidSessions(i) = {} /\ ExactSessions(i) = {}
      BY <2>3 DEF PaidSessions, ExactSessions
    <2> QED
      BY <2>1, <2>2, <2>3, <2>4 DEF L!Init
  <1>2. GatewayInv /\ [GatewayNext]_gvars => [L!Next]_(L!vars)
    <2> SUFFICES ASSUME GatewayInv, [GatewayNext]_gvars PROVE [L!Next]_(L!vars)
      OBVIOUS
    <2>0. NothingFalseHeld /\ Types /\ handed \subseteq Session
      BY DEF GatewayInv, NothingFalseHeld, ChargedWereHanded
    <2>1. CASE UNCHANGED gvars
      BY <2>1 DEF gvars, vars, L!vars, PaidSessions, ExactSessions
    <2>2. ASSUME NEW c \in Clients, MintStep(c) PROVE UNCHANGED L!vars
      BY <2>0, <2>2, StepLeaves, MintLedger DEF MintStep
    <2>3. CASE SettleStep \/ BuyerStep \/ ClockStep \/ Restart
      BY <2>0, <2>3, SettlingIsAnyStep, StepLedger
    <2> QED
      BY <2>1, <2>2, <2>3 DEF GatewayNext
  <1> QED
    BY <1>1, <1>2, GatewaySound, PTL DEF GatewaySpec, LedgerSpec, L!Spec
-----------------------------------------------------------------------------
(* Minting as Checkout_proofs knows it.  The rest of the gateway is, to    *)
(* minting, what its own model calls outside: it leaves what minting wrote *)
(* of a row alone.  So what holds of minting alone holds here.             *)

CP == INSTANCE Checkout_proofs

LEMMA SameAssumptions ==
  /\ CP!IdsAssumption /\ CP!TermsAssumption /\ CP!MaxAttemptAssumption
  /\ CP!NoneAssumption /\ CP!ConfiguredAssumption /\ CP!DefaultAssumption
  /\ CP!TimesAssumption /\ CP!ReplayAssumption /\ CP!NoMintAssumption
  BY IdsAssumption, TermsAssumption, MaxAttemptAssumption, NoneAssumption, MintingAssumption,
     NotMintedAssumption
  DEF CP!IdsAssumption, CP!TermsAssumption, CP!MaxAttemptAssumption, CP!NoneAssumption,
      CP!ConfiguredAssumption, CP!DefaultAssumption, CP!TimesAssumption, CP!ReplayAssumption,
      CP!NoMintAssumption, Kinds, CP!Kinds, Session, CP!Session, C!Mint, CP!Mint

(* The two instances of Checkout are one.                                  *)
LEMMA SameData ==
  /\ CP!Kinds = Kinds /\ CP!Session = Session /\ CP!Row = Row /\ CP!NoRow = NoRow
  /\ CP!Idle = C!Idle /\ CP!Job = C!Job /\ CP!Mint = C!Mint /\ CP!Eager = C!Eager
  /\ CP!Fault = C!Fault /\ CP!NoFault = C!NoFault
  /\ \A terms : CP!NewRow(terms) = C!NewRow(terms)
  /\ \A row : CP!BoundProcessor(row) = C!BoundProcessor(row)
  /\ \A row, origin : CP!SetSessionApplies(row, origin) = C!SetSessionApplies(row, origin)
  /\ \A row, s, expires, origin :
       CP!SetSession(row, s, expires, origin) = C!SetSession(row, s, expires, origin)
  /\ \A c, pc : CP!At(c, pc) = C!At(c, pc)
  /\ \A c, j : CP!Becomes(c, j) = C!Becomes(c, j)
  /\ \A row : CP!Live(row) = C!Live(row)
  <1>1. /\ CP!Kinds = Kinds /\ C!Kinds = Kinds /\ CP!Session = Session /\ C!Session = Session
        /\ CP!NoRow = NoRow /\ C!NoRow = NoRow
    BY DEF CP!Kinds, C!Kinds, Kinds, CP!Session, C!Session, Session, CP!NoRow, C!NoRow, NoRow
  <1>2. CP!Row = Row
    BY <1>1 DEF CP!Row, Row, CP!States, States
  <1>3. CP!Idle = C!Idle /\ CP!Job = C!Job /\ CP!Mint = C!Mint /\ CP!Eager = C!Eager
    <2>1. CP!Points = C!Points
      BY DEF CP!Points, C!Points
    <2>2. CP!Job = C!Job
      BY <1>1, <2>1 DEF CP!Job, C!Job
    <2>3. CP!Idle = C!Idle
      BY DEF CP!Idle, C!Idle
    <2>4. CP!Mint = C!Mint
      BY DEF CP!Mint, C!Mint
    <2>5. CP!Eager = C!Eager
      BY DEF CP!Eager, C!Eager
    <2> QED
      BY <2>2, <2>3, <2>4, <2>5
  <1>4. CP!Fault = C!Fault /\ CP!NoFault = C!NoFault
    BY DEF CP!Fault, C!Fault, CP!NoFault, C!NoFault
  <1>5. \A terms : CP!NewRow(terms) = C!NewRow(terms)
    BY <1>1 DEF CP!NewRow, C!NewRow
  <1>6. \A row : CP!BoundProcessor(row) = C!BoundProcessor(row)
    BY DEF CP!BoundProcessor, C!BoundProcessor
  <1>7. \A row, origin : CP!SetSessionApplies(row, origin) = C!SetSessionApplies(row, origin)
    BY DEF CP!SetSessionApplies, C!SetSessionApplies
  <1>8. \A row, s, expires, origin :
          CP!SetSession(row, s, expires, origin) = C!SetSession(row, s, expires, origin)
    BY <1>7 DEF CP!SetSession, C!SetSession
  <1>9. \A c, pc : CP!At(c, pc) = C!At(c, pc)
    BY DEF CP!At, C!At
  <1>10. \A c, j : CP!Becomes(c, j) = C!Becomes(c, j)
    BY DEF CP!Becomes, C!Becomes
  <1>11. \A row : CP!Live(row) = C!Live(row)
    BY DEF CP!Live, C!Live
  <1> QED
    BY <1>1, <1>2, <1>3, <1>4, <1>5, <1>6, <1>7, <1>8, <1>9, <1>10, <1>11

LEMMA SameJobs ==
  /\ \A j, kind, attempt, origin :
       CP!Creating(j, kind, attempt, origin) = C!Creating(j, kind, attempt, origin)
  /\ \A j, s : CP!Serving(j, s) = C!Serving(j, s)
  /\ \A j : CP!Key(j) = C!Key(j)
  /\ \A j, mint : CP!Created(j, mint) = C!Created(j, mint)
  <1>1. \A j, kind, attempt, origin :
          CP!Creating(j, kind, attempt, origin) = C!Creating(j, kind, attempt, origin)
    BY DEF CP!Creating, C!Creating
  <1>2. \A j, s : CP!Serving(j, s) = C!Serving(j, s)
    BY SameData DEF CP!Serving, C!Serving
  <1>3. \A j : CP!Key(j) = C!Key(j)
    BY DEF CP!Key, C!Key
  <1>4. \A j, mint : CP!Created(j, mint) = C!Created(j, mint)
    BY <1>3 DEF CP!Created, C!Created, CP!RecordedExpiry, C!RecordedExpiry
  <1> QED
    BY <1>1, <1>2, <1>3, <1>4

LEMMA SameSteps ==
  ASSUME NEW c \in Clients, C!Step(c) PROVE CP!Step(c)
  <1>1. ASSUME NEW i, NEW terms, C!InvoiceInsert(c, i, terms)
        PROVE  CP!InvoiceInsert(c, i, terms)
    BY <1>1, SameData, SameJobs DEF CP!InvoiceInsert, C!InvoiceInsert
  <1>2. ASSUME NEW i, NEW want, NEW named, C!CheckoutRead(c, i, want, named)
        PROVE  CP!CheckoutRead(c, i, want, named)
    <2>1. \A row, origin : CP!Reusable(row, origin) = C!Reusable(row, origin)
      BY SameData DEF CP!Reusable, C!Reusable
    <2>2. \A row : CP!ChosenKind(row, want) = C!ChosenKind(row, want)
      BY SameData DEF CP!ChosenKind, C!ChosenKind
    <2>3. \A row : CP!Compatible(row, want, named) = C!Compatible(row, want, named)
      BY SameData DEF CP!Compatible, C!Compatible
    <2>4. \A row : CP!EffectiveOrigin(row, named) = C!EffectiveOrigin(row, named)
      BY DEF CP!EffectiveOrigin, C!EffectiveOrigin
    <2> QED
      BY <1>2, <2>1, <2>2, <2>3, <2>4, SameData, SameJobs DEF CP!CheckoutRead, C!CheckoutRead
  <1>3. C!InvoiceExisting(c) => CP!InvoiceExisting(c)
    BY SameData, SameJobs DEF CP!InvoiceExisting, C!InvoiceExisting
  <1>4. C!Create(c) => CP!Create(c)
    BY SameData, SameJobs DEF CP!Create, C!Create
  <1>5. C!Persist(c) => CP!Persist(c)
    BY SameData, SameJobs DEF CP!Persist, C!Persist
  <1>6. C!LostRace(c) => CP!LostRace(c)
    BY SameData, SameJobs DEF CP!LostRace, C!LostRace
  <1>7. C!Reply(c) => CP!Reply(c)
    BY SameData DEF CP!Reply, C!Reply
  <1>8. C!Lose(c) => CP!Lose(c)
    BY SameData DEF CP!Lose, C!Lose
  <1> QED
    BY <1>1, <1>2, <1>3, <1>4, <1>5, <1>6, <1>7, <1>8, SameData, SameTable DEF CP!Step, C!Step
(* Whatever is no step of a request leaves it what it had, or ends it.     *)
LEMMA SettlingOutside ==
  ASSUME GatewayInv, SettleStep \/ BuyerStep \/ ClockStep \/ Restart PROVE CP!Outside
  <1>0. /\ Types /\ Types' /\ handed \subseteq Session
        /\ rows' \in [Ids -> CP!Row] /\ clock \in Nat /\ clock' \in Nat /\ faults' \in Nat
    BY SettlingSound, SameData DEF GatewayInv, NothingFalseHeld, ChargedWereHanded, Types
  <1>1. CASE SettleStep
    <2>1. PICK p \in Procs : PullStep(p) \/ (p = Worker /\ WorkerStep) \/ Serves(p)
      <3>1. \A t \in Events, s \in handed : [type |-> t, session |-> s] \in Event
        BY <1>0, EventsAssumption DEF Event
      <3> QED
        BY <1>1, <3>1 DEF SettleStep, Serves, Procs
    <2>2. ActorWrites(p)
      BY <2>1, ActorWritesOnly
    <2>3. ASSUME NEW i \in Ids PROVE CP!Settles(rows[i], rows'[i])
      <3>1. /\ MintedPart(rows'[i]) = MintedPart(rows[i])
            /\ rows[i].state # "absent" <=> rows'[i].state # "absent"
        BY <1>0, <2>2, ActorRows
      <3> QED
        BY <3>1 DEF MintedPart, CP!Settles
    <2> QED
      BY <1>0, <1>1, <2>2, <2>3 DEF SettleStep, minting, ActorWrites, CP!Outside
  <1>2. CASE BuyerStep
    <2>1. UNCHANGED <<rows, clock, minted, job>>
      BY <1>2, Zenon
      DEF BuyerStep, minting, Pay, Approve, AutoCapture, CaptureSettles, Refund, Dispute,
          ChargeMoves, store
    <2> QED
      BY <1>0, <2>1 DEF CP!Outside, CP!Settles
  <1>3. CASE ClockStep
    BY <1>0, <1>3 DEF ClockStep, C!Tick, CP!Outside, CP!Settles
  <1>4. CASE Restart
    BY <1>0, <1>4, SameData DEF Restart, store, CP!Outside, CP!Settles
  <1> QED
    BY <1>1, <1>2, <1>3, <1>4

(* Minting is sound, and its attempts form a ladder.                       *)
MintingHeld == CP!Inv /\ (CP!Strict /\ CP!Lasting => CP!LadderInv)

(* It stays so, and no step of the gateway takes back a bound origin or    *)
(* what was minted under a key.                                            *)
LEMMA MintingStep == GatewayInv /\ MintingHeld /\ [GatewayNext]_gvars => MintingHeld' /\ CP!Grown
  <1> SUFFICES ASSUME GatewayInv, MintingHeld, [GatewayNext]_gvars
               PROVE  MintingHeld' /\ CP!Grown
    OBVIOUS
  <1>1. ASSUME NEW c \in Clients, MintStep(c) PROVE MintingHeld' /\ CP!Grown
    <2>1. CP!Step(c)
      BY <1>1, SameSteps DEF MintStep
    <2> QED
      BY <2>1, SameAssumptions, CP!StepSound, CP!LadderStep DEF MintingHeld
  <1>2. CASE CP!Outside
    BY <1>2, SameAssumptions, CP!OutsideSound, CP!OutsideLadder DEF MintingHeld
  <1>3. CASE UNCHANGED gvars
    <2>1. UNCHANGED <<rows, clock, minted, job, faults>>
      BY <1>3 DEF gvars, vars, minting
    <2>2. Types /\ clock \in Nat
      BY DEF GatewayInv, NothingFalseHeld, Types
    <2>3. CP!Outside
      BY <2>1, <2>2, SameData DEF Types, CP!Outside, CP!Settles
    <2> QED
      BY <1>2, <2>3
  <1> QED
    BY <1>1, <1>2, <1>3, SettlingOutside DEF GatewayNext

(* So what Checkout_proofs shows of minting on its own is true of it in    *)
(* the whole gateway, where rows are paid, confirmed and reversed by       *)
(* status calls, webhooks and the worker while they are being minted for.  *)
THEOREM GatewayMinting == GatewaySpec => []MintingHeld
  <1>1. GatewayInit => MintingHeld
    <2>1. C!Init => CP!Init
      BY SameData, SameTable DEF C!Init, CP!Init
    <2> QED
      BY <2>1, SameAssumptions, CP!InitSound, CP!LadderInit DEF GatewayInit, MintingHeld
  <1> QED
    BY <1>1, MintingStep, GatewaySound, PTL DEF GatewaySpec

(* A return origin, once bound, stays what it is, also through payment,    *)
(* confirmation, reversal and restart (set_session's guard).               *)
THEOREM GatewayOriginKept == GatewaySpec => C!OriginNeverRebound
  <1>1. CP!Grown => \A i \in Ids : rows[i].origin # None => rows'[i].origin = rows[i].origin
    BY DEF CP!Grown, CP!Grows, CP!RowGrows
  <1> QED
    BY <1>1, MintingStep, GatewaySound, GatewayMinting, PTL DEF GatewaySpec, C!OriginNeverRebound

(* The redirect URLs of the session on a row are those of the origin it is *)
(* bound to, as long as the processors refuse a repeated key whose         *)
(* parameters differ (set_session's guard, mint_session).                  *)
THEOREM GatewayUrlsMatch ==
  ASSUME ReplayOnMismatch = FALSE
  PROVE  GatewaySpec => []C!RowUrlsMatchBinding
  <1>1. MintingHeld => C!RowUrlsMatchBinding
    BY DEF MintingHeld, CP!Inv, CP!RowSound, CP!Strict, C!RowUrlsMatchBinding
  <1> QED
    BY <1>1, GatewayMinting, PTL

(* And a buyer who named a shop is sent back to it, or to the one a        *)
(* concurrent request bound the row to, also if his payment is recorded    *)
(* meanwhile (checkout_session, persisted_session_after_lost_race).        *)
THEOREM GatewayBuyersReturn ==
  ASSUME ReplayOnMismatch = FALSE
  PROVE  GatewaySpec => []C!ServedUrlsAreBound
  <1>1. MintingHeld => C!ServedUrlsAreBound
    BY DEF MintingHeld, CP!Inv, CP!JobSound, CP!Leads, CP!Strict, C!ServedUrlsAreBound, C!At
  <1> QED
    BY <1>1, GatewayMinting, PTL

(* The session on a row was created for this very correlation, by the      *)
(* processor on record and for the amount it was invoiced at, also if it   *)
(* is replaced while its payment is being recorded (insert_new,            *)
(* set_session).                                                           *)
THEOREM GatewaySessionFits == GatewaySpec => []C!RowSessionFits
  <1>1. MintingHeld => C!RowSessionFits
    <2> SUFFICES ASSUME CP!Inv, NEW i \in Ids, rows[i].session # None
                 PROVE  /\ rows[i].session.kind = rows[i].processor
                        /\ rows[i].session.id = i
                        /\ rows[i].session.attempt = rows[i].attempt
                        /\ minted[rows[i].session] # None
                        /\ minted[rows[i].session].terms = rows[i].terms
      BY DEF C!RowSessionFits, MintingHeld
    <2>1. CP!RowSound(i, rows, minted) /\ rows[i].session \in Session
      BY SameData DEF CP!Inv, CP!Types, Row
    <2>2. CP!MintSound(rows[i].session, rows, minted)
      BY <2>1, SameData DEF CP!Inv
    <2> QED
      BY <2>1, <2>2 DEF CP!RowSound, CP!MintSound
  <1> QED
    BY <1>1, GatewayMinting, PTL

(* The same of the lifetime: no settlement, retry or restart makes a row   *)
(* promise more than Stripe does (mint_stripe_session, checkout_session).  *)
THEOREM GatewayStripePayable == GatewaySpec => []C!StripeSessionPayable
  <1>1. MintingHeld => C!StripeSessionPayable
    <2> SUFFICES ASSUME CP!Inv, NEW i \in Ids, rows[i].processor = "stripe", C!Live(rows[i])
                 PROVE  minted[rows[i].session].expires > clock + Slack
      BY DEF C!StripeSessionPayable, MintingHeld
    <2>1. rows[i].session # None /\ rows[i].expires > clock + Slack
      BY DEF C!Live
    <2>2. CP!RowSound(i, rows, minted)
      BY DEF CP!Inv
    <2> QED
      BY <2>1, <2>2 DEF CP!RowSound
  <1> QED
    BY <1>1, GatewayMinting, PTL

(* While the page of a session some buyer was given still works, a later   *)
(* attempt at the same processor takes the row from it only to bind the    *)
(* buyer to a shop, as long as the processors refuse a repeated key whose  *)
(* parameters differ and an order lives no longer than is recorded         *)
(* (checkout_session's reuse of the live session).                         *)
THEOREM GatewayAbandons ==
  ASSUME ReplayOnMismatch = FALSE, Ttl <= OrderTtl
  PROVE  GatewaySpec => []AbandonedOnlyForShop
  <1>1. GatewayInv /\ MintingHeld => AbandonedOnlyForShop
    <2> SUFFICES ASSUME GatewayInv, MintingHeld, NEW s \in handed, NEW row, row = rows[s.id],
                        minted[s].expires > clock + Slack, row.session # None,
                        row.session.kind = s.kind, row.session.attempt > s.attempt
                 PROVE  minted[s].origin = None /\ row.origin # None
      BY DEF AbandonedOnlyForShop
    <2> PICK t : t = row.session
      OBVIOUS
    <2>1. CP!Strict /\ CP!Inv /\ CP!LadderInv
      BY DEF CP!Strict, CP!Lasting, MintingHeld
    <2>2. s \in Session /\ s.id \in Ids /\ s.attempt \in Nat
      BY MaxAttemptAssumption DEF GatewayInv, ChargedWereHanded, Session
    <2>3. t \in Session /\ t.attempt \in Nat /\ clock \in Nat
      BY <2>2, MaxAttemptAssumption DEF GatewayInv, NothingFalseHeld, Types, Row, Session
    <2>4. t.id = s.id /\ minted[t] # None /\ minted[t].origin = row.origin
      BY <2>1, <2>2 DEF CP!Inv, CP!RowSound
    <2>5. minted[s] # None /\ CP!Yields(minted[s], minted[t].origin, clock)
      BY <2>1, <2>2, <2>3, <2>4, SameData DEF CP!LadderInv, CP!Ladder
    <2>6. minted[s].expires \in Nat
      BY <2>2, <2>5 DEF GatewayInv, MintsSound, C!Mint
    <2>7. ~(minted[s].expires <= clock + Slack)
      BY <2>3, <2>6, MintingAssumption
    <2> QED
      BY <2>4, <2>5, <2>7 DEF CP!Yields
  <1> QED
    BY <1>1, GatewaySound, GatewayMinting, PTL

(* And no two of a buyer's sessions at one processor, for the same shop,   *)
(* are good for more than the slack, under the same two conditions         *)
(* (idempotency_key, checkout_session).                                    *)
THEOREM GatewayOneLive ==
  ASSUME ReplayOnMismatch = FALSE, Ttl <= OrderTtl
  PROVE  GatewaySpec => []C!OneLiveSession
  <1>1. MintingHeld => C!OneLiveSession
    <2> SUFFICES ASSUME MintingHeld, NEW s \in Session, NEW t \in Session, s # t,
                        s.id = t.id, s.kind = t.kind, minted[s] # None, minted[t] # None,
                        minted[s].origin = minted[t].origin
                 PROVE  \/ minted[s].expires <= clock + Slack
                        \/ minted[t].expires <= clock + Slack
      BY SameTable DEF C!OneLiveSession
    <2>1. s.attempt # t.attempt /\ s.attempt \in Nat /\ t.attempt \in Nat
      BY MaxAttemptAssumption DEF Session
    <2>2. CP!Ladder(minted, clock)
      BY DEF CP!Strict, CP!Lasting, MintingHeld, CP!LadderInv
    <2>3. CASE s.attempt < t.attempt
      BY <2>2, <2>3, SameData DEF CP!Ladder, CP!Yields
    <2>4. CASE t.attempt < s.attempt
      BY <2>2, <2>4, SameData DEF CP!Ladder, CP!Yields
    <2> QED
      BY <2>1, <2>3, <2>4
  <1> QED
    BY <1>1, GatewayMinting, PTL
=============================================================================
