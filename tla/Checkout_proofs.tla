-------------------------- MODULE Checkout_proofs ---------------------------
(***************************************************************************)
(* What minting guarantees for every number of concurrent requests, every  *)
(* criterion, shop, lifetime and number of faults.                         *)
(*                                                                         *)
(* The invariant says of every request in flight what it may rely on: the  *)
(* terms it mints for are those of the row, the session in its hand was    *)
(* created by the processor, and a shop its buyer named is the one the     *)
(* session leads back to.  It lasts because the table and the processors'  *)
(* books only grow (Grows): a row keeps its terms and, once bound, its     *)
(* origin, and what was created under a key stays what it is.              *)
(*                                                                         *)
(* That no two sessions of a buyer are live at once needs more: that the   *)
(* attempts of a correlation at a processor form a ladder (LadderInv), on  *)
(* which each was made when the ones below it were of no use any more.     *)
(***************************************************************************)
EXTENDS Checkout, TLAPS

(* The processor refuses a key whose parameters differ.  The redirect URLs *)
(* are only as bound as that.                                              *)
Strict == ~ReplayOnMismatch

(* PayPal's orders are approvable for no longer than is recorded.          *)
Lasting == Ttl <= OrderTtl

RowSound(i, R, M) ==
  LET row == R[i] IN
  /\ row.state = "absent" => row.session = None /\ row.origin = None
  /\ row.processor = None <=> row.session = None
  /\ row.session # None =>
       /\ row.session.kind = row.processor /\ row.session.id = i
       /\ row.session.attempt = row.attempt
       /\ M[row.session] # None
       /\ Strict => M[row.session].origin = row.origin
       /\ row.processor = "stripe" => row.expires = M[row.session].expires

MintSound(s, R, M) ==
  M[s] # None => R[s.id].state # "absent" /\ M[s].terms = R[s.id].terms

(* A buyer who named a shop is sent to it, or to the one the row is bound  *)
(* to.                                                                     *)
Leads(origin, named, row) ==
  named # None => origin # None /\ origin \in {named, row.origin}

JobSound(j, R, M) ==
  /\ j.pc # "idle" => j.id \in Ids /\ R[j.id].state # "absent"
  /\ j.pc \in {"existing", "create"} => j.terms = R[j.id].terms
  /\ j.pc \in {"create", "persist"} => Leads(j.origin, j.named, R[j.id])
  /\ j.pc = "existing" => j.named = None
  /\ j.pc = "create" => j.kind \in Kinds /\ j.attempt \in 1..MaxAttempt
  /\ j.pc \in {"persist", "reply"} => j.session \in Session /\ M[j.session] # None
  /\ j.pc = "persist" =>
       /\ j.session.id = j.id
       /\ Strict => M[j.session].origin = j.origin
       /\ j.session.kind = "stripe" => j.expires = M[j.session].expires
  /\ j.pc = "lost" => R[j.id].origin # None
  /\ j.pc = "reply" /\ Strict => Leads(M[j.session].origin, j.named, R[j.id])

Types ==
  /\ rows \in [Ids -> Row]
  /\ minted \in [Session -> Mint \cup {None}]
  /\ clock \in Nat
  /\ job \in [Clients -> Job]
  /\ faults \in Nat

Inv ==
  /\ Types
  /\ \A i \in Ids : RowSound(i, rows, minted)
  /\ \A s \in Session : MintSound(s, rows, minted)
  /\ \A c \in Clients : JobSound(job[c], rows, minted)

(* The table and the processors' books from one state to a later one. *)
RowGrows(row, later) ==
  /\ row.state # "absent" => later.state # "absent" /\ later.terms = row.terms
  /\ row.origin # None => later.origin = row.origin

Grows(R, M, R2, M2) ==
  /\ \A i \in Ids : RowGrows(R[i], R2[i])
  /\ \A s \in Session : M[s] # None => M2[s] = M[s]

Grown == Grows(rows, minted, rows', minted')

-----------------------------------------------------------------------------
(* What lasts. *)

LEMMA Unmoved ==
  ASSUME NEW R, NEW M
  PROVE  Grows(R, M, R, M)
BY DEF Grows, RowGrows

LEMMA JobFrame ==
  ASSUME NEW R, NEW M, NEW R2, NEW M2, Grows(R, M, R2, M2),
         NEW j \in Job, JobSound(j, R, M)
  PROVE  JobSound(j, R2, M2)
<1>1. CASE j.pc = "idle"
  BY <1>1 DEF JobSound
<1>2. CASE j.pc # "idle"
  <2>1. j.id \in Ids /\ R[j.id].state # "absent" /\ RowGrows(R[j.id], R2[j.id])
    BY <1>2 DEF JobSound, Grows
  <2>2. /\ R2[j.id].state # "absent" /\ R2[j.id].terms = R[j.id].terms
        /\ R[j.id].origin # None => R2[j.id].origin = R[j.id].origin
    BY <2>1 DEF RowGrows
  <2>3. j.pc \in {"persist", "reply"} => M2[j.session] = M[j.session]
    BY DEF JobSound, Grows
  <2>4. \A o, n : Leads(o, n, R[j.id]) => Leads(o, n, R2[j.id])
    BY <2>2 DEF Leads
  <2> QED BY <2>1, <2>2, <2>3, <2>4 DEF JobSound
<1> QED BY <1>1, <1>2

LEMMA RowFrame ==
  ASSUME NEW R, NEW M, NEW R2, NEW M2, Grows(R, M, R2, M2),
         NEW i \in Ids, R[i] \in Row, R2[i] = R[i], RowSound(i, R, M)
  PROVE  RowSound(i, R2, M2)
<1>1. R[i].session # None => R[i].session \in Session
  BY DEF Row
<1>2. R[i].session # None => M2[R[i].session] = M[R[i].session]
  BY <1>1 DEF Grows, RowSound
<1> QED BY <1>2 DEF RowSound

LEMMA MintFrame ==
  ASSUME NEW R, NEW M, NEW R2, NEW M2, Grows(R, M, R2, M2),
         NEW s \in Session, M2[s] = M[s], MintSound(s, R, M)
  PROVE  MintSound(s, R2, M2)
<1>1. s.id \in Ids
  BY DEF Session
<1> QED BY <1>1 DEF MintSound, Grows, RowGrows

(* A request that takes a step leaves what the others know. *)
LEMMA Update ==
  ASSUME Inv, NEW c \in Clients, NEW j \in Job, Becomes(c, j), Grown,
         JobSound(j, rows', minted'),
         rows' \in [Ids -> Row], minted' \in [Session -> Mint \cup {None}],
         \A i \in Ids : RowSound(i, rows', minted'),
         \A s \in Session : MintSound(s, rows', minted'),
         clock' = clock, faults' \in Nat
  PROVE  Inv'
<1>1. job' \in [Clients -> Job]
  BY DEF Inv, Types, Becomes
<1>2. \A d \in Clients : JobSound(job'[d], rows', minted')
  <2> SUFFICES ASSUME NEW d \in Clients PROVE JobSound(job'[d], rows', minted')
    OBVIOUS
  <2>1. CASE d = c
    BY <2>1 DEF Inv, Types, Becomes
  <2>2. CASE d # c
    <3>1. job'[d] = job[d] /\ job[d] \in Job /\ JobSound(job[d], rows, minted)
      BY <2>2 DEF Inv, Types, Becomes
    <3> QED BY <3>1, JobFrame DEF Grown
  <2> QED BY <2>1, <2>2
<1>3. clock' \in Nat
  BY DEF Inv, Types
<1> QED BY <1>1, <1>2, <1>3 DEF Inv, Types

(* A step of none of them. *)
LEMMA Standstill ==
  ASSUME Inv, job' = job, Grown,
         rows' \in [Ids -> Row], minted' \in [Session -> Mint \cup {None}],
         \A i \in Ids : RowSound(i, rows', minted'),
         \A s \in Session : MintSound(s, rows', minted'),
         clock' \in Nat, faults' \in Nat
  PROVE  Inv'
<1>1. \A d \in Clients : JobSound(job'[d], rows', minted')
  <2> SUFFICES ASSUME NEW d \in Clients PROVE JobSound(job'[d], rows', minted')
    OBVIOUS
  <2>1. job'[d] = job[d] /\ job[d] \in Job /\ JobSound(job[d], rows, minted)
    BY DEF Inv, Types
  <2> QED BY <2>1, JobFrame DEF Grown
<1> QED BY <1>1 DEF Inv, Types

LEMMA JobStep ==
  ASSUME Inv, NEW c \in Clients, NEW j \in Job, Becomes(c, j),
         JobSound(j, rows, minted), UNCHANGED <<rows, minted, clock>>,
         faults' \in Nat
  PROVE  Inv' /\ Grown
<1>1. Grown
  BY Unmoved DEF Grown
<1> QED BY <1>1, Update DEF Inv, Types

(* A step that changes one row that is there, keeping what is to be kept.  *)
LEMMA RowStep ==
  ASSUME Inv, NEW i \in Ids, NEW row \in Row, RowGrows(rows[i], row),
         rows' = [rows EXCEPT ![i] = row], minted' = minted,
         RowSound(i, rows', minted')
  PROVE  /\ Grown
         /\ rows' \in [Ids -> Row]
         /\ \A k \in Ids : RowSound(k, rows', minted')
         /\ \A s \in Session : MintSound(s, rows', minted')
<1>1. rows' \in [Ids -> Row] /\ rows'[i] = row
  BY DEF Inv, Types
<1>2. \A k \in Ids : k # i => rows'[k] = rows[k] /\ rows[k] \in Row
  BY DEF Inv, Types
<1>3. Grown
  BY <1>1, <1>2 DEF Grown, Grows, RowGrows
<1>4. \A k \in Ids : RowSound(k, rows', minted')
  <2> SUFFICES ASSUME NEW k \in Ids, k # i PROVE RowSound(k, rows', minted')
    OBVIOUS
  <2>1. RowSound(k, rows, minted)
    BY DEF Inv
  <2> QED BY <1>2, <1>3, <2>1, RowFrame DEF Grown
<1>5. \A s \in Session : MintSound(s, rows', minted')
  <2> SUFFICES ASSUME NEW s \in Session PROVE MintSound(s, rows', minted')
    OBVIOUS
  <2>1. MintSound(s, rows, minted) /\ minted'[s] = minted[s]
    BY DEF Inv
  <2> QED BY <1>3, <2>1, MintFrame DEF Grown
<1> QED BY <1>1, <1>3, <1>4, <1>5

-----------------------------------------------------------------------------
(* Jobs and rows as they are built. *)

LEMMA IdleJob == Idle \in Job /\ Idle.pc = "idle"
BY DEF Idle, Job, Points

LEMMA IdleSound ==
  ASSUME NEW R, NEW M
  PROVE  JobSound(Idle, R, M)
BY IdleJob DEF JobSound

LEMMA CreatingJob ==
  ASSUME NEW j \in Job, NEW kind \in Kinds, NEW attempt \in Nat,
         NEW origin \in Origins \cup {None}
  PROVE  LET new == Creating(j, kind, attempt, origin) IN
         /\ new \in Job
         /\ new.pc = "create" /\ new.kind = kind /\ new.attempt = attempt
         /\ new.origin = origin /\ new.id = j.id /\ new.terms = j.terms
         /\ new.named = j.named
BY DEF Creating, Job, Points

LEMMA ServingJob ==
  ASSUME NEW j \in Job, NEW s \in Session
  PROVE  LET new == Serving(j, s) IN
         /\ new \in Job
         /\ new.pc = "reply" /\ new.id = j.id /\ new.named = j.named
         /\ new.session = s
BY DEF Serving, Idle, Job, Points

LEMMA NewRowIs ==
  ASSUME NEW t \in Terms
  PROVE  LET new == NewRow(t) IN
         /\ new \in Row
         /\ new.state = "created" /\ new.terms = t /\ new.session = None
         /\ new.processor = None /\ new.origin = None
BY DEF NewRow, NoRow, Row, States

LEMMA SetSessionIs ==
  ASSUME NEW row \in Row, NEW s \in Session, NEW e \in Nat,
         NEW o \in Origins \cup {None}, SetSessionApplies(row, o)
  PROVE  LET new == SetSession(row, s, e, o) IN
         /\ new \in Row
         /\ new.state = row.state /\ new.terms = row.terms
         /\ new.processor = s.kind /\ new.session = s /\ new.attempt = s.attempt
         /\ new.expires = e
         /\ new.origin = IF o = None THEN row.origin ELSE o
<1>1. PICK k \in Kinds, a \in Nat, p \in Origins \cup {None} :
        /\ k = s.kind /\ a = s.attempt
        /\ p = IF o = None THEN row.origin ELSE o
  <2>1. s.kind \in Kinds /\ s.attempt \in Nat
    BY MaxAttemptAssumption DEF Session
  <2>2. (IF o = None THEN row.origin ELSE o) \in Origins \cup {None}
    BY DEF Row
  <2> QED BY <2>1, <2>2
<1> DEFINE new == [row EXCEPT !.processor = k, !.session = s, !.expires = e,
                              !.attempt = a, !.origin = p]
<1>2. /\ new \in Row
      /\ new.state = row.state /\ new.terms = row.terms
      /\ new.processor = k /\ new.session = s /\ new.attempt = a
      /\ new.expires = e /\ new.origin = p
  BY DEF Row
<1>3. SetSession(row, s, e, o) = new
  BY <1>1 DEF SetSession
<1> HIDE DEF new
<1> QED BY <1>1, <1>2, <1>3
-----------------------------------------------------------------------------
(* The steps of a request. *)

LEMMA Faults ==
  ASSUME faults \in Nat, Fault \/ NoFault
  PROVE  faults' \in Nat
BY DEF Fault, NoFault

(* A request that ends, whatever it did. *)
LEMMA EndsSound ==
  ASSUME Inv, NEW c \in Clients, Becomes(c, Idle), Fault \/ NoFault,
         UNCHANGED <<rows, minted, clock>>
  PROVE  Inv' /\ Grown
<1>1. faults' \in Nat
  BY Faults DEF Inv, Types
<1>2. JobSound(Idle, rows, minted) /\ Idle \in Job
  BY IdleSound, IdleJob
<1> QED BY <1>1, <1>2, JobStep

LEMMA InvoiceInsertSound ==
  ASSUME Inv, NEW c \in Clients, NEW i \in Ids, NEW terms \in Terms,
         InvoiceInsert(c, i, terms)
  PROVE  Inv' /\ Grown
<1> DEFINE j == [Idle EXCEPT !.op = "invoice", !.id = i, !.terms = terms]
<1>1. /\ j \in Job /\ j.id = i /\ j.terms = terms /\ j.named = None
      /\ [j EXCEPT !.pc = "existing"] \in Job
      /\ [j EXCEPT !.pc = "existing"].pc = "existing"
      /\ [j EXCEPT !.pc = "existing"].id = i
      /\ [j EXCEPT !.pc = "existing"].terms = terms
      /\ [j EXCEPT !.pc = "existing"].named = None
  BY DEF Idle, Job, Points
<1>2. minted' = minted /\ clock' = clock /\ faults' = faults /\ faults \in Nat
  BY DEF InvoiceInsert, Inv, Types
<1>3. CASE /\ rows[i].state = "absent"
           /\ rows' = [rows EXCEPT ![i] = NewRow(terms)]
           /\ \/ \E kind \in Eager : Becomes(c, Creating(j, kind, 1, None))
              \/ Eager = {} /\ UNCHANGED job
  <2> DEFINE row == NewRow(terms)
  <2>1. /\ row \in Row /\ row.state = "created" /\ row.terms = terms
        /\ row.session = None /\ row.processor = None /\ row.origin = None
    BY NewRowIs
  <2>2. rows' = [rows EXCEPT ![i] = row] /\ rows'[i] = row
    BY <1>3 DEF Inv, Types
  <2> HIDE DEF row
  <2>3. RowGrows(rows[i], row) /\ RowSound(i, rows', minted')
    BY <1>3, <2>1, <2>2 DEF Inv, RowSound, RowGrows
  <2>4. /\ Grown
        /\ rows' \in [Ids -> Row]
        /\ \A k \in Ids : RowSound(k, rows', minted')
        /\ \A s \in Session : MintSound(s, rows', minted')
    BY <1>2, <2>1, <2>2, <2>3, RowStep
  <2>5. minted' \in [Session -> Mint \cup {None}] /\ faults' \in Nat
    BY <1>2 DEF Inv, Types
  <2>6. ASSUME NEW kind \in Eager, Becomes(c, Creating(j, kind, 1, None))
        PROVE  Inv'
    <3> DEFINE k == Creating(j, kind, 1, None)
    <3>1. kind \in Kinds /\ 1 \in Nat /\ 1 \in 1..MaxAttempt
      BY ConfiguredAssumption, MaxAttemptAssumption DEF Eager
    <3>2. /\ k \in Job /\ k.pc = "create" /\ k.kind = kind /\ k.attempt = 1
          /\ k.id = i /\ k.terms = terms /\ k.named = None
      <4>1. j \in Job /\ j.id = i /\ j.terms = terms /\ j.named = None
        BY <1>1
      <4>2. None \in Origins \cup {None}
        OBVIOUS
      <4> HIDE DEF j
      <4> QED BY <3>1, <4>1, <4>2, CreatingJob
    <3> HIDE DEF k
    <3>3. JobSound(k, rows', minted')
      BY <2>1, <2>2, <3>1, <3>2 DEF JobSound, Leads
    <3>4. Becomes(c, k)
      BY <2>6 DEF k
    <3> QED BY <1>2, <2>4, <2>5, <3>2, <3>3, <3>4, Update
  <2>7. CASE UNCHANGED job
    <3>1. clock' \in Nat
      BY <1>2 DEF Inv, Types
    <3> QED BY <2>4, <2>5, <2>7, <3>1, Standstill
  <2> QED BY <1>3, <2>4, <2>6, <2>7
<1>4. CASE /\ rows[i].state # "absent"
           /\ rows[i].terms = terms
           /\ Becomes(c, [j EXCEPT !.pc = "existing"])
           /\ UNCHANGED rows
  <2> DEFINE k == [j EXCEPT !.pc = "existing"]
  <2>1. k \in Job /\ k.pc = "existing" /\ k.id = i /\ k.terms = terms /\ k.named = None
    BY <1>1
  <2>2. Becomes(c, k)
    BY <1>4
  <2> HIDE DEF k
  <2>3. JobSound(k, rows, minted)
    BY <1>4, <2>1 DEF JobSound
  <2> QED BY <1>2, <1>4, <2>1, <2>2, <2>3, JobStep
<1> QED BY <1>3, <1>4 DEF InvoiceInsert

LEMMA InvoiceExistingSound ==
  ASSUME Inv, NEW c \in Clients, InvoiceExisting(c)
  PROVE  Inv' /\ Grown
<1> DEFINE row == rows[job[c].id]
<1>1. /\ job[c] \in Job /\ job[c].id \in Ids /\ row.state # "absent"
      /\ job[c].terms = row.terms /\ job[c].named = None
      /\ row \in Row /\ row.attempt \in Nat
  <2>1. job[c] \in Job /\ JobSound(job[c], rows, minted) /\ job[c].pc = "existing"
    BY DEF Inv, Types, InvoiceExisting, At
  <2>2. job[c].id \in Ids /\ row.state # "absent" /\ job[c].terms = row.terms /\ job[c].named = None
    BY <2>1 DEF JobSound
  <2>3. row \in Row
    BY <2>2 DEF Inv, Types
  <2> QED BY <2>1, <2>2, <2>3 DEF Row
<1>2. UNCHANGED <<rows, minted, clock, faults>> /\ faults' \in Nat
  BY DEF InvoiceExisting, Inv, Types
<1>3. ASSUME NEW kind \in Eager, row.attempt < MaxAttempt,
             Becomes(c, Creating(job[c], kind, row.attempt + 1, None))
      PROVE  Inv' /\ Grown
  <2> DEFINE k == Creating(job[c], kind, row.attempt + 1, None)
  <2>1. kind \in Kinds /\ row.attempt + 1 \in Nat /\ row.attempt + 1 \in 1..MaxAttempt
    BY <1>1, <1>3, ConfiguredAssumption, MaxAttemptAssumption DEF Eager
  <2>2. None \in Origins \cup {None}
    OBVIOUS
  <2>3. /\ k \in Job /\ k.pc = "create" /\ k.kind = kind
        /\ k.attempt = row.attempt + 1 /\ k.id = job[c].id
        /\ k.terms = job[c].terms /\ k.named = job[c].named /\ k.origin = None
    BY <1>1, <2>1, <2>2, CreatingJob
  <2>4. Becomes(c, k)
    BY <1>3
  <2> HIDE DEF k
  <2>5. JobSound(k, rows, minted)
    BY <1>1, <2>1, <2>3 DEF JobSound, Leads
  <2> QED BY <1>2, <2>3, <2>4, <2>5, JobStep
<1>4. CASE Becomes(c, Idle)
  BY <1>2, <1>4, EndsSound DEF NoFault
<1> QED BY <1>3, <1>4 DEF InvoiceExisting

LEMMA CheckoutReadSound ==
  ASSUME Inv, NEW c \in Clients, NEW i \in Ids, NEW want \in Kinds \cup {None},
         NEW named \in Origins \cup {None}, CheckoutRead(c, i, want, named)
  PROVE  Inv' /\ Grown
<1> DEFINE row == rows[i]
           origin == EffectiveOrigin(row, named)
           j == [Idle EXCEPT !.op = "checkout", !.id = i, !.terms = row.terms,
                             !.named = named, !.origin = origin]
<1>1. /\ row \in Row /\ row.state = "created" /\ row.attempt \in Nat
      /\ row.terms \in Terms \cup {None} /\ row.origin \in Origins \cup {None}
      /\ row.session \in Session \cup {None}
      /\ RowSound(i, rows, minted)
  BY DEF Inv, Types, Row, CheckoutRead, Compatible
<1>2. /\ origin \in Origins \cup {None}
      /\ Leads(origin, named, row)
  BY <1>1 DEF EffectiveOrigin, Leads, CheckoutRead, Compatible
<1>3. PICK o \in Origins \cup {None}, t \in Terms \cup {None} : o = origin /\ t = row.terms
  BY <1>1, <1>2
<1>4. /\ j \in Job /\ j.id = i /\ j.terms = row.terms /\ j.named = named
      /\ j.origin = origin
  <2> DEFINE k == [Idle EXCEPT !.op = "checkout", !.id = i, !.terms = t,
                               !.named = named, !.origin = o]
  <2>1. k \in Job /\ k.id = i /\ k.terms = t /\ k.named = named /\ k.origin = o
    BY DEF Idle, Job, Points
  <2> QED BY <1>3, <2>1
<1>5. UNCHANGED <<rows, minted, clock, faults>> /\ faults' \in Nat
  BY DEF CheckoutRead, Inv, Types
<1>6. CASE Reusable(row, origin) /\ Becomes(c, Serving(j, row.session))
  <2> DEFINE k == Serving(j, row.session)
  <2>1. row.session \in Session /\ row.origin = origin
    BY <1>1, <1>6 DEF Reusable, Live
  <2>2. /\ k \in Job /\ k.pc = "reply" /\ k.id = i /\ k.named = named
        /\ k.session = row.session
    <3>1. j \in Job /\ j.id = i /\ j.named = named
      BY <1>4
    <3> HIDE DEF j
    <3> QED BY <2>1, <3>1, ServingJob
  <2>3. Becomes(c, k)
    BY <1>6
  <2> HIDE DEF k
  <2>4. row.session # None
    BY <1>6 DEF Reusable, Live
  <2>5. JobSound(k, rows, minted)
    BY <1>1, <1>2, <2>1, <2>2, <2>4 DEF JobSound, RowSound
  <2> QED BY <1>5, <2>2, <2>3, <2>5, JobStep
<1>7. CASE /\ ChosenKind(row, want) \in Configured
           /\ row.attempt < MaxAttempt
           /\ Becomes(c, Creating(j, ChosenKind(row, want), row.attempt + 1, origin))
  <2> DEFINE kind == ChosenKind(row, want)
             k == Creating(j, kind, row.attempt + 1, origin)
  <2>1. kind \in Kinds /\ row.attempt + 1 \in Nat /\ row.attempt + 1 \in 1..MaxAttempt
    BY <1>1, <1>7, ConfiguredAssumption, MaxAttemptAssumption
  <2>2. /\ k \in Job /\ k.pc = "create" /\ k.kind = kind
        /\ k.attempt = row.attempt + 1 /\ k.id = i
        /\ k.terms = row.terms /\ k.named = named /\ k.origin = origin
    <3>1. j \in Job /\ j.id = i /\ j.terms = row.terms /\ j.named = named
      BY <1>4
    <3>2. PICK n \in Nat : n = row.attempt + 1
      BY <2>1
    <3> HIDE DEF j, kind, origin, row
    <3> QED BY <1>2, <2>1, <3>1, <3>2, CreatingJob
  <2>3. Becomes(c, k)
    BY <1>7
  <2> HIDE DEF k
  <2>4. JobSound(k, rows, minted)
    BY <1>1, <1>2, <2>1, <2>2 DEF JobSound
  <2> QED BY <1>5, <2>2, <2>3, <2>4, JobStep
<1> QED BY <1>6, <1>7 DEF CheckoutRead

LEMMA LostRaceSound ==
  ASSUME Inv, NEW c \in Clients, LostRace(c)
  PROVE  Inv' /\ Grown
<1> DEFINE row == rows[job[c].id]
           k == Serving(job[c], row.session)
<1>1. job[c] \in Job /\ JobSound(job[c], rows, minted) /\ job[c].pc = "lost"
  BY DEF Inv, Types, LostRace, At
<1>2. /\ job[c].id \in Ids /\ row.state # "absent" /\ row.origin # None
      /\ row \in Row /\ row.session \in Session \cup {None}
      /\ RowSound(job[c].id, rows, minted)
  BY <1>1 DEF JobSound, Inv, Types, Row
<1>3. UNCHANGED <<rows, minted, clock, faults>> /\ faults' \in Nat
  BY DEF LostRace, Inv, Types
<1>4. CASE Live(row) /\ Becomes(c, k)
  <2>1. row.session \in Session
    BY <1>2, <1>4 DEF Live
  <2>2. /\ k \in Job /\ k.pc = "reply" /\ k.id = job[c].id
        /\ k.named = job[c].named /\ k.session = row.session
    BY <1>1, <2>1, ServingJob
  <2>3. Becomes(c, k)
    BY <1>4
  <2> HIDE DEF k
  <2>4. row.session # None
    BY <1>4 DEF Live
  <2>5. JobSound(k, rows, minted)
    BY <1>2, <2>1, <2>2, <2>4 DEF JobSound, RowSound, Leads
  <2> QED BY <1>3, <2>2, <2>3, <2>5, JobStep
<1>5. CASE Becomes(c, Idle)
  BY <1>3, <1>5, EndsSound DEF NoFault
<1> QED BY <1>4, <1>5 DEF LostRace

(* What an answered create call leaves in hand. *)
LEMMA CreatedJob ==
  ASSUME NEW j \in Job, Key(j) \in Session, NEW mint \in Mint,
         clock \in Nat
  PROVE  LET new == Created(j, mint) IN
         /\ new \in Job
         /\ new.pc = "persist" /\ new.session = Key(j) /\ new.id = j.id
         /\ new.named = j.named /\ new.origin = j.origin
         /\ new.session.kind = "stripe" => new.expires = mint.expires
         /\ new.expires = RecordedExpiry(j, mint)
<1>1. PICK s \in Session, e \in Nat : s = Key(j) /\ e = RecordedExpiry(j, mint)
  <2>1. RecordedExpiry(j, mint) \in Nat
    BY TimesAssumption DEF RecordedExpiry, Mint
  <2> QED BY <2>1
<1> DEFINE new == [j EXCEPT !.pc = "persist", !.session = s, !.expires = e]
<1>2. /\ new \in Job
      /\ new.pc = "persist" /\ new.session = s /\ new.id = j.id
      /\ new.named = j.named /\ new.origin = j.origin /\ new.expires = e
  BY DEF Job, Points
<1>3. Created(j, mint) = new
  BY <1>1 DEF Created
<1>4. s.kind = "stripe" => e = mint.expires
  BY <1>1 DEF Key, RecordedExpiry
<1> HIDE DEF new
<1> QED BY <1>1, <1>2, <1>3, <1>4

(* A new entry in the processors' books. *)
LEMMA MintStep ==
  ASSUME Inv, NEW s \in Session, NEW mint \in Mint, minted[s] = None,
         minted' = [minted EXCEPT ![s] = mint], rows' = rows,
         rows[s.id].state # "absent", mint.terms = rows[s.id].terms
  PROVE  /\ Grown
         /\ minted' \in [Session -> Mint \cup {None}]
         /\ \A i \in Ids : RowSound(i, rows', minted')
         /\ \A t \in Session : MintSound(t, rows', minted')
<1>1. /\ minted' \in [Session -> Mint \cup {None}] /\ minted'[s] = mint
      /\ \A t \in Session : t # s => minted'[t] = minted[t]
  BY DEF Inv, Types
<1>2. Grown
  BY <1>1 DEF Grown, Grows, RowGrows
<1>3. \A i \in Ids : RowSound(i, rows', minted')
  <2> SUFFICES ASSUME NEW i \in Ids PROVE RowSound(i, rows', minted')
    OBVIOUS
  <2>1. RowSound(i, rows, minted) /\ rows[i] \in Row /\ rows'[i] = rows[i]
    BY DEF Inv, Types
  <2> QED BY <1>2, <2>1, RowFrame DEF Grown
<1>4. \A t \in Session : MintSound(t, rows', minted')
  <2> SUFFICES ASSUME NEW t \in Session PROVE MintSound(t, rows', minted')
    OBVIOUS
  <2>1. CASE t = s
    BY <1>1, <2>1 DEF MintSound
  <2>2. CASE t # s
    <3>1. MintSound(t, rows, minted) /\ minted'[t] = minted[t]
      BY <1>1, <2>2 DEF Inv
    <3> QED BY <1>2, <3>1, MintFrame DEF Grown
  <2> QED BY <2>1, <2>2
<1> QED BY <1>1, <1>2, <1>3, <1>4

LEMMA CreateSound ==
  ASSUME Inv, NEW c \in Clients, Create(c)
  PROVE  Inv' /\ Grown
<1> DEFINE j == job[c]
           s == Key(j)
           old == minted[s]
           new == [origin |-> j.origin, terms |-> j.terms, expires |-> clock + Ttl]
           same == old # None /\ old.origin = j.origin /\ old.terms = j.terms
<1>1. j \in Job /\ JobSound(j, rows, minted) /\ j.pc = "create"
  BY DEF Inv, Types, Create, At
<1>2. /\ j.id \in Ids /\ rows[j.id].state # "absent" /\ j.terms = rows[j.id].terms
      /\ Leads(j.origin, j.named, rows[j.id])
      /\ s \in Session /\ s.id = j.id
  BY <1>1 DEF JobSound, Key, Session
<1>3. rows' = rows /\ clock' = clock /\ clock \in Nat /\ faults \in Nat
  BY DEF Create, Inv, Types
<1>4. CASE /\ old = None
           /\ minted' = [minted EXCEPT ![s] = new]
           /\ \/ Becomes(c, Created(j, new)) /\ NoFault
              \/ Becomes(c, Idle) /\ Fault
  <2>1. new \in Mint /\ new.terms = rows[s.id].terms /\ new.origin = j.origin
    BY <1>1, <1>2, <1>3, TimesAssumption DEF Mint, Job
  <2>2. minted'[s] = new /\ new # None
    BY <1>2, <1>4, <2>1, NoMintAssumption DEF Inv, Types
  <2>3. minted' = [minted EXCEPT ![s] = new]
    BY <1>4
  <2> HIDE DEF new
  <2>4. /\ Grown
        /\ minted' \in [Session -> Mint \cup {None}]
        /\ \A i \in Ids : RowSound(i, rows', minted')
        /\ \A t \in Session : MintSound(t, rows', minted')
    BY <1>2, <1>3, <1>4, <2>1, <2>3, MintStep
  <2>5. faults' \in Nat /\ rows' \in [Ids -> Row]
    BY <1>3, <1>4, Faults DEF Inv, Types
  <2>6. CASE Becomes(c, Created(j, new))
    <3> DEFINE k == Created(j, new)
    <3>1. /\ k \in Job /\ k.pc = "persist" /\ k.session = s /\ k.id = j.id
          /\ k.named = j.named /\ k.origin = j.origin
          /\ k.session.kind = "stripe" => k.expires = new.expires
      BY <1>1, <1>2, <1>3, <2>1, CreatedJob
    <3>2. Becomes(c, k)
      BY <2>6
    <3> HIDE DEF k, j, s
    <3>3. JobSound(k, rows', minted')
      BY <1>2, <1>3, <2>1, <2>2, <3>1 DEF JobSound
    <3> QED BY <1>3, <2>4, <2>5, <3>1, <3>2, <3>3, Update
  <2>7. CASE Becomes(c, Idle)
    <3>1. Idle \in Job /\ JobSound(Idle, rows', minted')
      BY IdleJob, IdleSound
    <3> QED BY <1>3, <2>4, <2>5, <2>7, <3>1, Update
  <2> QED BY <1>4, <2>4, <2>6, <2>7 DEF new
<1>5. CASE /\ old # None
           /\ same \/ ReplayOnMismatch
           /\ Becomes(c, Created(j, old))
           /\ NoFault /\ UNCHANGED minted
  <2>1. old \in Mint /\ (Strict => old.origin = j.origin)
    BY <1>2, <1>5 DEF Inv, Types, Strict
  <2>2. faults' \in Nat /\ minted' = minted
    BY <1>3, <1>5, Faults
  <2> DEFINE k == Created(j, old)
  <2>3. /\ k \in Job /\ k.pc = "persist" /\ k.session = s /\ k.id = j.id
        /\ k.named = j.named /\ k.origin = j.origin
        /\ k.session.kind = "stripe" => k.expires = old.expires
    BY <1>1, <1>2, <1>3, <2>1, CreatedJob
  <2>4. Becomes(c, k) /\ minted[s] # None
    BY <1>5
  <2> HIDE DEF k, j, s
  <2>5. JobSound(k, rows, minted)
    BY <1>2, <2>1, <2>3, <2>4 DEF JobSound
  <2> QED BY <1>3, <2>2, <2>3, <2>4, <2>5, JobStep
<1>6. CASE Becomes(c, Idle) /\ (Fault \/ NoFault) /\ UNCHANGED minted
  BY <1>3, <1>6, EndsSound
<1> QED BY <1>4, <1>5, <1>6 DEF Create

LEMMA PersistSound ==
  ASSUME Inv, NEW c \in Clients, Persist(c)
  PROVE  Inv' /\ Grown
<1> DEFINE j == job[c]
           row == rows[j.id]
           stored == SetSession(row, j.session, j.expires, j.origin)
<1>1. j \in Job /\ JobSound(j, rows, minted) /\ j.pc = "persist"
  BY DEF Inv, Types, Persist, At
<1>2. /\ j.id \in Ids /\ row.state # "absent" /\ row \in Row
      /\ j.session \in Session /\ minted[j.session] # None /\ j.session.id = j.id
      /\ Strict => minted[j.session].origin = j.origin
      /\ j.session.kind = "stripe" => j.expires = minted[j.session].expires
      /\ Leads(j.origin, j.named, row)
      /\ j.expires \in Nat /\ j.origin \in Origins \cup {None}
  BY <1>1 DEF JobSound, Inv, Types, Job
<1>3. minted' = minted /\ clock' = clock /\ faults' \in Nat
  BY Faults DEF Persist, Inv, Types
<1>4. ASSUME SetSessionApplies(row, j.origin), NEW k \in Job, Becomes(c, k),
             rows' = [rows EXCEPT ![j.id] = stored],
             JobSound(k, rows', minted')
      PROVE  Inv' /\ Grown
  <2>1. /\ stored \in Row
        /\ stored.state = row.state /\ stored.terms = row.terms
        /\ stored.processor = j.session.kind /\ stored.session = j.session
        /\ stored.attempt = j.session.attempt /\ stored.expires = j.expires
        /\ stored.origin = IF j.origin = None THEN row.origin ELSE j.origin
    BY <1>2, <1>4, SetSessionIs
  <2>2. rows'[j.id] = stored
    BY <1>2, <1>4 DEF Inv, Types
  <2>3. rows' = [rows EXCEPT ![j.id] = stored]
    BY <1>4
  <2> HIDE DEF stored
  <2>4. RowGrows(row, stored)
    BY <1>2, <1>4, <2>1 DEF RowGrows, SetSessionApplies
  <2>5. stored.origin = j.origin
    BY <1>4, <2>1 DEF SetSessionApplies
  <2>6. stored.processor # None /\ stored.session # None
    BY <1>2, <2>1, NoneAssumption DEF Session
  <2>7. RowSound(j.id, rows', minted')
    BY <1>2, <1>3, <2>1, <2>2, <2>5, <2>6 DEF RowSound
  <2>8. /\ Grown
        /\ rows' \in [Ids -> Row]
        /\ \A i \in Ids : RowSound(i, rows', minted')
        /\ \A s \in Session : MintSound(s, rows', minted')
    BY <1>2, <1>3, <2>1, <2>3, <2>4, <2>7, RowStep
  <2>9. minted' \in [Session -> Mint \cup {None}]
    BY <1>3 DEF Inv, Types
  <2> QED BY <1>3, <1>4, <2>8, <2>9, Update
<1>5. CASE /\ SetSessionApplies(row, j.origin)
           /\ rows' = [rows EXCEPT ![j.id] = stored]
           /\ Becomes(c, Serving(j, j.session))
  <2> DEFINE k == Serving(j, j.session)
  <2>1. /\ k \in Job /\ k.pc = "reply" /\ k.id = j.id /\ k.named = j.named
        /\ k.session = j.session
    BY <1>1, <1>2, ServingJob
  <2>2. Becomes(c, k)
    BY <1>5
  <2>3. /\ rows'[j.id] = stored /\ stored.state = row.state
        /\ stored.origin = IF j.origin = None THEN row.origin ELSE j.origin
    <3>1. rows'[j.id] = stored
      BY <1>2, <1>5 DEF Inv, Types
    <3> QED BY <1>2, <1>5, <3>1, SetSessionIs
  <2> HIDE DEF k, stored
  <2>4. stored.origin = j.origin
    BY <1>5, <2>3 DEF SetSessionApplies
  <2>5. Leads(j.origin, j.named, stored)
    BY <1>2, <2>4 DEF Leads
  <2>6. JobSound(k, rows', minted')
    BY <1>2, <1>3, <2>1, <2>3, <2>5 DEF JobSound
  <2> QED BY <1>4, <1>5, <2>1, <2>2, <2>6 DEF stored
<1>6. CASE /\ ~SetSessionApplies(row, j.origin)
           /\ Becomes(c, [j EXCEPT !.pc = "lost"])
           /\ UNCHANGED rows
  <2> DEFINE k == [j EXCEPT !.pc = "lost"]
  <2>1. k \in Job /\ k.pc = "lost" /\ k.id = j.id
    BY <1>1 DEF Job, Points
  <2>2. row.origin # None
    BY <1>2, <1>6 DEF SetSessionApplies
  <2>3. Becomes(c, k)
    BY <1>6
  <2> HIDE DEF k
  <2>4. JobSound(k, rows, minted)
    BY <1>2, <2>1, <2>2 DEF JobSound
  <2> QED BY <1>3, <1>6, <2>1, <2>3, <2>4, JobStep
<1>7. CASE Becomes(c, Idle) /\ rows' \in {rows, [rows EXCEPT ![j.id] = stored]}
  <2>1. Idle \in Job /\ JobSound(Idle, rows', minted') /\ JobSound(Idle, rows, minted)
    BY IdleJob, IdleSound
  <2>2. CASE rows' = rows
    BY <1>3, <1>7, <2>1, <2>2, JobStep
  <2>3. CASE SetSessionApplies(row, j.origin) /\ rows' = [rows EXCEPT ![j.id] = stored]
    BY <1>4, <1>7, <2>1, <2>3
  <2>4. CASE ~SetSessionApplies(row, j.origin) /\ rows' = [rows EXCEPT ![j.id] = stored]
    <3>1. stored = row
      BY <2>4 DEF SetSession
    <3>2. rows' = rows
      BY <1>2, <2>4, <3>1 DEF Inv, Types
    <3> QED BY <2>2, <3>2
  <2> QED BY <1>7, <2>2, <2>3, <2>4
<1> QED BY <1>5, <1>6, <1>7 DEF Persist

(* What is no step of a request: the settlement side writes of a row what  *)
(* it knows of the payment, time passes, the process restarts.             *)
Settles(row, later) ==
  /\ later.state = "absent" <=> row.state = "absent"
  /\ later.terms = row.terms /\ later.origin = row.origin
  /\ later.processor = row.processor /\ later.session = row.session
  /\ later.attempt = row.attempt /\ later.expires = row.expires

Outside ==
  /\ rows' \in [Ids -> Row]
  /\ \A i \in Ids : Settles(rows[i], rows'[i])
  /\ clock' \in Nat /\ clock <= clock'
  /\ minted' = minted /\ faults' \in Nat
  /\ job' = job \/ job' = [c \in Clients |-> Idle]

LEMMA OutsideSound ==
  ASSUME Inv, Outside
  PROVE  Inv' /\ Grown
<1>1. Grown
  BY DEF Outside, Settles, Grown, Grows, RowGrows
<1>2. \A i \in Ids : RowSound(i, rows', minted')
  <2> SUFFICES ASSUME NEW i \in Ids PROVE RowSound(i, rows', minted')
    OBVIOUS
  <2>1. RowSound(i, rows, minted) /\ Settles(rows[i], rows'[i]) /\ minted' = minted
    BY DEF Inv, Outside
  <2> QED BY <2>1 DEF RowSound, Settles
<1>3. \A s \in Session : MintSound(s, rows', minted')
  <2> SUFFICES ASSUME NEW s \in Session PROVE MintSound(s, rows', minted')
    OBVIOUS
  <2>1. MintSound(s, rows, minted) /\ minted'[s] = minted[s]
    BY DEF Inv, Outside
  <2> QED BY <1>1, <2>1, MintFrame DEF Grown
<1>4. \A c \in Clients : job'[c] \in Job /\ JobSound(job'[c], rows', minted')
  <2> SUFFICES ASSUME NEW c \in Clients
               PROVE  job'[c] \in Job /\ JobSound(job'[c], rows', minted')
    OBVIOUS
  <2>1. CASE job' = job
    <3>1. job'[c] = job[c] /\ job[c] \in Job /\ JobSound(job[c], rows, minted)
      BY <2>1 DEF Inv, Types
    <3> QED BY <1>1, <3>1, JobFrame DEF Grown
  <2>2. CASE job' = [d \in Clients |-> Idle]
    BY <2>2, IdleJob, IdleSound
  <2> QED BY <2>1, <2>2 DEF Outside
<1>5. Types'
  BY <1>4 DEF Outside, Inv, Types
<1> QED BY <1>1, <1>2, <1>3, <1>4, <1>5 DEF Inv

LEMMA SettledOutside ==
  ASSUME Inv, NEW i \in Ids, Settled(i)
  PROVE  Outside
<1>1. PICK move \in {<<"created", "paid">>, <<"created", "reversed">>,
                      <<"paid", "confirmed">>, <<"paid", "reversed">>} :
        rows[i].state = move[1] /\ rows' = [rows EXCEPT ![i].state = move[2]]
  BY DEF Settled
<1>2. PICK to \in States : to = move[2] /\ to # "absent" /\ rows[i].state # "absent"
  BY <1>1 DEF States
<1>3. PICK row \in Row : row = rows[i]
  BY DEF Inv, Types
<1>4. rows' = [rows EXCEPT ![i] = [row EXCEPT !.state = to]]
  BY <1>1, <1>2, <1>3
<1>5. [row EXCEPT !.state = to] \in Row /\ Settles(row, [row EXCEPT !.state = to])
  BY <1>2, <1>3 DEF Row, Settles
<1>6. rows' \in [Ids -> Row] /\ \A k \in Ids : Settles(rows[k], rows'[k])
  BY <1>3, <1>4, <1>5 DEF Inv, Types, Settles
<1>7. clock \in Nat /\ faults \in Nat /\ UNCHANGED <<minted, clock, job, faults>>
  BY DEF Inv, Types, Settled
<1> QED BY <1>6, <1>7 DEF Outside

(* Time passes, or nothing happens. *)
LEMMA StillOutside ==
  ASSUME Inv, Tick \/ UNCHANGED vars
  PROVE  Outside
<1>1. /\ UNCHANGED <<rows, minted, job, faults>> /\ rows \in [Ids -> Row]
      /\ clock' = clock \/ clock' = clock + 1
      /\ clock \in Nat /\ faults \in Nat
  BY DEF Tick, vars, Inv, Types
<1> QED BY <1>1 DEF Outside, Settles

LEMMA StepSound ==
  ASSUME Inv, NEW c \in Clients, Step(c)
  PROVE  Inv' /\ Grown
<1>1. CASE \E i \in Ids, t \in Terms : InvoiceInsert(c, i, t)
  BY <1>1, InvoiceInsertSound
<1>2. CASE \E i \in Ids, want \in Kinds \cup {None}, named \in Origins \cup {None} :
             CheckoutRead(c, i, want, named)
  BY <1>2, CheckoutReadSound
<1>3. CASE InvoiceExisting(c) BY <1>3, InvoiceExistingSound
<1>4. CASE Create(c) BY <1>4, CreateSound
<1>5. CASE Persist(c) BY <1>5, PersistSound
<1>6. CASE LostRace(c) BY <1>6, LostRaceSound
<1>7. CASE Reply(c) BY <1>7, EndsSound DEF Reply, NoFault
<1>8. CASE Lose(c) BY <1>8, EndsSound DEF Lose
<1> QED BY <1>1, <1>2, <1>3, <1>4, <1>5, <1>6, <1>7, <1>8 DEF Step

LEMMA NextSound == Inv /\ [Next]_vars => Inv' /\ Grown
BY StillOutside, SettledOutside, OutsideSound, StepSound DEF Next

LEMMA InitSound == Init => Inv
<1> SUFFICES ASSUME Init PROVE Inv
  OBVIOUS
<1>1. /\ rows = [i \in Ids |-> NoRow] /\ minted = [s \in Session |-> None]
      /\ clock = 0 /\ job = [c \in Clients |-> Idle] /\ faults = 0
  BY DEF Init
<1>2. /\ NoRow \in Row /\ NoRow.state = "absent" /\ NoRow.session = None
      /\ NoRow.processor = None /\ NoRow.origin = None
  BY DEF NoRow, Row, States
<1>3. Idle \in Job /\ JobSound(Idle, rows, minted)
  BY IdleJob, IdleSound
<1>4. \A i \in Ids : RowSound(i, rows, minted)
  BY <1>1, <1>2 DEF RowSound
<1>5. \A s \in Session : MintSound(s, rows, minted)
  BY <1>1 DEF MintSound
<1> QED BY <1>1, <1>2, <1>3, <1>4, <1>5 DEF Inv, Types

LEMMA Always == Spec => []Inv
BY InitSound, NextSound, PTL DEF Spec

-----------------------------------------------------------------------------
(* Every variable keeps its type, and a row has a processor exactly if it  *)
(* has a session (store.rs, set_session).                                  *)
THEOREM TypeCorrect == Spec => []TypeOK
<1>1. Inv => TypeOK
  BY DEF Inv, Types, RowSound, TypeOK
<1> QED BY <1>1, Always, PTL

(* The session on a row was created for this very correlation, by the      *)
(* processor on record and for the amount it was invoiced at, however many *)
(* requests raced, died or were repeated (insert_new, set_session).        *)
THEOREM SessionFits == Spec => []RowSessionFits
<1>1. Inv => RowSessionFits
  <2> SUFFICES ASSUME Inv, NEW i \in Ids, rows[i].session # None
               PROVE  /\ rows[i].session.kind = rows[i].processor
                      /\ rows[i].session.id = i
                      /\ rows[i].session.attempt = rows[i].attempt
                      /\ minted[rows[i].session] # None
                      /\ minted[rows[i].session].terms = rows[i].terms
    BY DEF RowSessionFits
  <2>1. RowSound(i, rows, minted) /\ rows[i].session \in Session
    BY DEF Inv, Types, Row
  <2>2. MintSound(rows[i].session, rows, minted)
    BY <2>1 DEF Inv
  <2> QED BY <2>1, <2>2 DEF RowSound, MintSound
<1> QED BY <1>1, Always, PTL

(* A return origin, once bound, stays what it is (set_session's guard).    *)
THEOREM OriginKept == Spec => OriginNeverRebound
<1>1. Grown => \A i \in Ids : rows[i].origin # None => rows'[i].origin = rows[i].origin
  BY DEF Grown, Grows, RowGrows
<1> QED BY <1>1, Always, NextSound, PTL DEF Spec, OriginNeverRebound

(* A Stripe session that counts as live can still be paid, for longer than *)
(* the slack: no retry, no race and no lost answer makes the row's expiry  *)
(* another one than Stripe's own (mint_stripe_session, checkout_session).  *)
THEOREM StripePayable == Spec => []StripeSessionPayable
<1>1. Inv => StripeSessionPayable
  <2> SUFFICES ASSUME Inv, NEW i \in Ids, rows[i].processor = "stripe", Live(rows[i])
               PROVE  minted[rows[i].session].expires > clock + Slack
    BY DEF StripeSessionPayable
  <2>1. rows[i].session # None /\ rows[i].expires > clock + Slack
    BY DEF Live
  <2>2. RowSound(i, rows, minted)
    BY DEF Inv
  <2> QED BY <2>1, <2>2 DEF RowSound
<1> QED BY <1>1, Always, PTL

(* With processors that refuse a repeated key whose parameters differ, the *)
(* session on a row leads back to the shop the row is bound to, or to the  *)
(* fallback if it is bound to none (set_session).                          *)
THEOREM UrlsMatch ==
  ASSUME Strict
  PROVE  Spec => []RowUrlsMatchBinding
<1>1. Inv => RowUrlsMatchBinding
  BY DEF Inv, RowSound, RowUrlsMatchBinding
<1> QED BY <1>1, Always, PTL

(* And a buyer who named a shop is sent back to it, or to the one a        *)
(* concurrent request bound the row to (checkout_session,                  *)
(* persisted_session_after_lost_race).                                     *)
THEOREM BuyersReturn ==
  ASSUME Strict
  PROVE  Spec => []ServedUrlsAreBound
<1>1. Inv => ServedUrlsAreBound
  BY DEF Inv, JobSound, Leads, ServedUrlsAreBound, At
<1> QED BY <1>1, Always, PTL

-----------------------------------------------------------------------------
(* One live session.  What a session was created with decides what a later *)
(* attempt may be created for, and no replay changes it: as long as the    *)
(* processors refuse a key whose parameters differ (Strict), the attempts  *)
(* form a ladder.                                                          *)

(* A session created as `mint` is of no use any more to a buyer who comes  *)
(* with `origin`: it has expired, or leads to the fallback and he has      *)
(* named a shop.                                                           *)
Yields(mint, origin, time) ==
  \/ mint.origin = origin /\ mint.expires <= time + Slack
  \/ mint.origin = None /\ origin # None

Prior(j) == [kind |-> j.kind, id |-> j.id, attempt |-> j.attempt - 1]

RowLasts(row, M) ==
  /\ row.session = None => row.attempt = 0
  /\ row.session # None => M[row.session].expires <= row.expires

JobFollows(j, M, time) ==
  /\ j.pc = "create" /\ j.attempt > 1 =>
       M[Prior(j)] # None /\ Yields(M[Prior(j)], j.origin, time)
  /\ j.pc = "persist" => M[j.session].expires <= j.expires

(* The attempts of a correlation at a processor are made one after the     *)
(* other, and each of them when the earlier ones were of no use.           *)
Ladder(M, time) ==
  \A s, t \in Session :
    s.kind = t.kind /\ s.id = t.id /\ s.attempt < t.attempt /\ M[t] # None =>
      M[s] # None /\ Yields(M[s], M[t].origin, time)

LadderInv ==
  /\ \A i \in Ids : RowLasts(rows[i], minted)
  /\ \A s \in Session : minted[s] # None => minted[s].expires <= clock + Ttl
  /\ \A c \in Clients : JobFollows(job[c], minted, clock)
  /\ Ladder(minted, clock)

LEMMA YieldsLater ==
  ASSUME NEW mint \in Mint, NEW origin, NEW time \in Nat, NEW later \in Nat,
         time <= later, Yields(mint, origin, time)
  PROVE  Yields(mint, origin, later)
<1>1. mint.expires \in Nat
  BY DEF Mint
<1> QED BY <1>1, TimesAssumption, SMT DEF Yields

LEMMA MintedMint ==
  ASSUME Inv, NEW s \in Session, minted[s] # None
  PROVE  minted[s] \in Mint /\ minted[s].expires \in Nat
BY DEF Inv, Types, Mint

LEMMA PriorIs ==
  ASSUME NEW j, j.kind \in Kinds, j.id \in Ids, j.attempt \in 1..MaxAttempt, j.attempt > 1
  PROVE  /\ Prior(j) \in Session
         /\ Prior(j).kind = j.kind /\ Prior(j).id = j.id
         /\ Prior(j).attempt = j.attempt - 1
<1>1. j.attempt - 1 \in 1..MaxAttempt
  BY MaxAttemptAssumption, SMT
<1> QED BY <1>1 DEF Prior, Session

(* A step that creates nothing, and changes one request.                   *)
LEMMA LadderKept ==
  ASSUME Inv, LadderInv, NEW c \in Clients, NEW j, Becomes(c, j),
         UNCHANGED <<minted, clock>>, JobFollows(j, minted, clock),
         \A i \in Ids : RowLasts(rows'[i], minted)
  PROVE  LadderInv'
<1>1. \A d \in Clients : JobFollows(job'[d], minted, clock)
  BY DEF Inv, Types, Becomes, LadderInv
<1> QED BY <1>1 DEF LadderInv

LEMMA LadderSame ==
  ASSUME Inv, LadderInv, NEW c \in Clients, NEW j, Becomes(c, j),
         UNCHANGED <<rows, minted, clock>>, JobFollows(j, minted, clock)
  PROVE  LadderInv'
BY LadderKept DEF LadderInv

LEMMA FollowsNothing ==
  ASSUME NEW j, j.pc \notin {"create", "persist"}, NEW M, NEW time
  PROVE  JobFollows(j, M, time)
BY DEF JobFollows

LEMMA LadderEnds ==
  ASSUME Inv, LadderInv, NEW c \in Clients, Becomes(c, Idle),
         UNCHANGED <<rows, minted, clock>>
  PROVE  LadderInv'
BY LadderSame, FollowsNothing, IdleJob

LEMMA InvoiceInsertLadder ==
  ASSUME Inv, LadderInv, NEW c \in Clients, NEW i \in Ids, NEW terms \in Terms,
         InvoiceInsert(c, i, terms)
  PROVE  LadderInv'
<1> DEFINE j == [Idle EXCEPT !.op = "invoice", !.id = i, !.terms = terms]
<1>1. j \in Job /\ [j EXCEPT !.pc = "existing"].pc = "existing"
  BY DEF Idle, Job, Points
<1>2. minted' = minted /\ clock' = clock
  BY DEF InvoiceInsert
<1>3. CASE rows' = [rows EXCEPT ![i] = NewRow(terms)]
  <2>1. NewRow(terms).session = None /\ NewRow(terms).attempt = 0
    BY DEF NewRow, NoRow
  <2>2. \A k \in Ids : RowLasts(rows'[k], minted)
    BY <1>3, <2>1 DEF Inv, Types, LadderInv, RowLasts
  <2>3. ASSUME NEW kind \in Eager, Becomes(c, Creating(j, kind, 1, None))
        PROVE  LadderInv'
    <3>1. kind \in Kinds /\ None \in Origins \cup {None} /\ 1 \in Nat
      BY ConfiguredAssumption DEF Eager
    <3>2. Creating(j, kind, 1, None).pc = "create" /\ Creating(j, kind, 1, None).attempt = 1
      <4> HIDE DEF j
      <4> QED BY <1>1, <3>1, CreatingJob
    <3>3. JobFollows(Creating(j, kind, 1, None), minted, clock)
      BY <3>2, SMT DEF JobFollows
    <3> HIDE DEF j
    <3> QED BY <1>2, <2>2, <2>3, <3>3, LadderKept
  <2>4. CASE job' = job
    BY <1>2, <2>2, <2>4 DEF LadderInv
  <2>5. CASE Becomes(c, [j EXCEPT !.pc = "existing"])
    BY <1>1, <1>2, <2>2, <2>5, LadderKept, FollowsNothing
  <2> QED BY <2>3, <2>4, <2>5 DEF InvoiceInsert
<1>4. CASE rows' = rows /\ Becomes(c, [j EXCEPT !.pc = "existing"])
  BY <1>1, <1>2, <1>4, LadderSame, FollowsNothing
<1> QED BY <1>3, <1>4 DEF InvoiceInsert

LEMMA InvoiceExistingLadder ==
  ASSUME Inv, LadderInv, NEW c \in Clients, InvoiceExisting(c)
  PROVE  LadderInv'
<1> DEFINE row == rows[job[c].id]
<1>1. job[c] \in Job /\ job[c].id \in Ids
  BY DEF Inv, Types, JobSound, InvoiceExisting, At
<1>2. UNCHANGED <<rows, minted, clock>>
  BY DEF InvoiceExisting
<1>3. ASSUME NEW kind \in Eager, row.session = None,
             Becomes(c, Creating(job[c], kind, row.attempt + 1, None))
      PROVE  LadderInv'
  <2> DEFINE k == Creating(job[c], kind, 1, None)
  <2>1. row.attempt + 1 = 1
    BY <1>1, <1>3, SMT DEF LadderInv, RowLasts
  <2>2. kind \in Kinds /\ None \in Origins \cup {None} /\ 1 \in Nat
    BY ConfiguredAssumption DEF Eager
  <2>3. k.pc = "create" /\ k.attempt = 1
    BY <1>1, <2>2, CreatingJob
  <2>4. JobFollows(k, minted, clock)
    BY <2>3, SMT DEF JobFollows
  <2>5. Becomes(c, k)
    BY <1>3, <2>1
  <2> HIDE DEF k
  <2> QED BY <1>2, <2>4, <2>5, LadderSame
<1>4. CASE Becomes(c, Idle)
  BY <1>2, <1>4, LadderEnds
<1> QED BY <1>3, <1>4 DEF InvoiceExisting

(* A new attempt is made from a row whose session is no longer live, or    *)
(* leads to the fallback when the buyer has named a shop.                  *)
LEMMA CheckoutReadLadder ==
  ASSUME Strict, Inv, LadderInv, NEW c \in Clients, NEW i \in Ids,
         NEW want \in Kinds \cup {None}, NEW named \in Origins \cup {None},
         CheckoutRead(c, i, want, named)
  PROVE  LadderInv'
<1> DEFINE row == rows[i]
           origin == EffectiveOrigin(row, named)
           j == [Idle EXCEPT !.op = "checkout", !.id = i, !.terms = row.terms,
                             !.named = named, !.origin = origin]
<1>1. /\ row \in Row /\ row.attempt \in Nat /\ row.expires \in Nat
      /\ row.terms \in Terms \cup {None} /\ row.origin \in Origins \cup {None}
      /\ row.session \in Session \cup {None}
      /\ RowSound(i, rows, minted) /\ RowLasts(row, minted)
  BY DEF Inv, Types, Row, LadderInv
<1>2. /\ origin \in Origins \cup {None}
      /\ row.origin # None => origin = row.origin
  BY <1>1 DEF EffectiveOrigin
<1>3. j \in Job /\ j.id = i
  <2>1. PICK o \in Origins \cup {None}, t \in Terms \cup {None} : o = origin /\ t = row.terms
    BY <1>1, <1>2
  <2> DEFINE k == [Idle EXCEPT !.op = "checkout", !.id = i, !.terms = t,
                               !.named = named, !.origin = o]
  <2>2. k \in Job /\ k.id = i
    BY DEF Idle, Job, Points
  <2> QED BY <2>1, <2>2
<1>4. UNCHANGED <<rows, minted, clock>>
  BY DEF CheckoutRead
<1>5. CASE Becomes(c, Serving(j, row.session)) /\ row.session # None
  <2>1. Serving(j, row.session).pc = "reply"
    <3> HIDE DEF j
    <3> QED BY <1>1, <1>3, <1>5, ServingJob
  <2> HIDE DEF j
  <2> QED BY <1>4, <1>5, <2>1, LadderSame, FollowsNothing
<1>6. CASE /\ ~Reusable(row, origin)
           /\ ChosenKind(row, want) \in Configured
           /\ row.attempt < MaxAttempt
           /\ Becomes(c, Creating(j, ChosenKind(row, want), row.attempt + 1, origin))
  <2> DEFINE kind == ChosenKind(row, want)
             k == Creating(j, kind, row.attempt + 1, origin)
  <2>1. kind \in Kinds /\ row.attempt + 1 \in Nat /\ row.attempt + 1 \in 1..MaxAttempt
    BY <1>1, <1>6, ConfiguredAssumption, MaxAttemptAssumption
  <2>2. /\ k.pc = "create" /\ k.kind = kind /\ k.attempt = row.attempt + 1
        /\ k.id = i /\ k.origin = origin
    <3>1. PICK n \in Nat : n = row.attempt + 1
      BY <2>1
    <3> HIDE DEF j, kind, origin, row
    <3> QED BY <1>2, <1>3, <2>1, <3>1, CreatingJob
  <2>3. Becomes(c, k)
    BY <1>6
  <2>4. ASSUME row.attempt + 1 > 1
        PROVE  /\ row.session # None /\ row.processor # None
               /\ Prior(k) = row.session /\ minted[row.session] # None
               /\ Yields(minted[row.session], origin, clock)
    <3>1. row.session # None
      BY <1>1, <2>4, SMT DEF RowLasts
    <3>2. /\ row.processor # None /\ row.session.kind = row.processor
          /\ row.session.id = i /\ row.session.attempt = row.attempt
          /\ minted[row.session] # None /\ minted[row.session].origin = row.origin
      BY <1>1, <3>1 DEF RowSound
    <3>3. kind = row.processor /\ BoundProcessor(row) # None
      BY <3>2 DEF ChosenKind, BoundProcessor
    <3>4. Prior(k) = row.session
      <4>1. row.session \in [kind : Kinds, id : Ids, attempt : 1..MaxAttempt]
        BY <1>1, <3>1 DEF Session
      <4>2. (row.attempt + 1) - 1 = row.attempt
        BY <1>1
      <4>3. Prior(k) = [kind |-> row.processor, id |-> i, attempt |-> row.attempt]
        BY <2>2, <3>3, <4>2 DEF Prior
      <4> HIDE DEF k, row
      <4> QED BY <3>2, <4>1, <4>3
    <3>5. CASE row.origin # origin
      <4>1. row.origin = None /\ origin # None
        BY <1>2, <3>5
      <4> QED BY <3>1, <3>2, <3>4, <4>1 DEF Yields
    <3>6. CASE row.origin = origin
      <4>1. ~(row.expires > clock + Slack)
        BY <1>6, <3>1, <3>3, <3>6 DEF Reusable, Live
      <4>2. minted[row.session].expires <= row.expires
        BY <1>1, <3>1 DEF RowLasts
      <4>3. minted[row.session].expires \in Nat /\ clock \in Nat
        BY <1>1, <3>1, <3>2, MintedMint DEF Inv, Types
      <4>4. minted[row.session].expires <= clock + Slack
        BY <1>1, <4>1, <4>2, <4>3, TimesAssumption, SMT
      <4> QED BY <3>1, <3>2, <3>4, <3>6, <4>4 DEF Yields
    <3> QED BY <3>5, <3>6
  <2>5. JobFollows(k, minted, clock)
    <3> HIDE DEF k, kind, row, origin
    <3> QED BY <2>2, <2>4 DEF JobFollows
  <2> HIDE DEF k
  <2> QED BY <1>4, <2>3, <2>5, LadderSame
<1> QED BY <1>5, <1>6 DEF CheckoutRead, Reusable, Live

(* An answered create call records an expiry that is not before the        *)
(* session's own: for PayPal, three hours from the answer.                 *)
LEMMA RecordedLater ==
  ASSUME Lasting, NEW j \in Job, Key(j) \in Session, NEW mint \in Mint,
         clock \in Nat, mint.expires <= clock + Ttl, NEW M, M[Key(j)] = mint
  PROVE  JobFollows(Created(j, mint), M, clock)
<1>1. mint.expires \in Nat
  BY DEF Mint
<1>2. mint.expires <= RecordedExpiry(j, mint)
  BY <1>1, TimesAssumption, SMT DEF RecordedExpiry, Lasting
<1>3. /\ Created(j, mint).pc = "persist" /\ Created(j, mint).session = Key(j)
      /\ Created(j, mint).expires = RecordedExpiry(j, mint)
  BY CreatedJob
<1> QED BY <1>2, <1>3 DEF JobFollows

(* A new rung: the attempt just before was of no use to it, and so were    *)
(* the ones before that.                                                   *)
LEMMA RungAdded ==
  ASSUME Inv, LadderInv, NEW c \in Clients, job[c].pc = "create",
         minted[Key(job[c])] = None,
         NEW mint \in Mint, mint.origin = job[c].origin,
         minted' = [minted EXCEPT ![Key(job[c])] = mint]
  PROVE  Ladder(minted', clock)
<1> DEFINE j == job[c]
           y == Key(j)
<1>1. /\ j.kind \in Kinds /\ j.id \in Ids /\ j.attempt \in 1..MaxAttempt
      /\ y \in Session /\ y.kind = j.kind /\ y.id = j.id /\ y.attempt = j.attempt
  BY DEF Inv, JobSound, Key, Session
<1>2. minted'[y] = mint /\ \A s \in Session : s # y => minted'[s] = minted[s]
  BY <1>1 DEF Inv, Types
<1>3. ASSUME NEW s \in Session, s.kind = y.kind, s.id = y.id, s.attempt < y.attempt
      PROVE  minted[s] # None /\ Yields(minted[s], mint.origin, clock)
  <2> DEFINE p == Prior(j)
  <2>1. j.attempt > 1 /\ s.attempt \in 1..MaxAttempt
    BY <1>1, <1>3, MaxAttemptAssumption, SMT DEF Session
  <2>2. /\ p \in Session /\ p.kind = j.kind /\ p.id = j.id /\ p.attempt = j.attempt - 1
    BY <1>1, <2>1, PriorIs
  <2>3. minted[p] # None /\ Yields(minted[p], mint.origin, clock)
    BY <2>1 DEF LadderInv, JobFollows
  <2> HIDE DEF p, j, y
  <2>4. CASE s = p
    BY <2>3, <2>4
  <2>5. CASE s # p
    <3>1. s.attempt # p.attempt
      <4> SUFFICES ASSUME s.attempt = p.attempt PROVE FALSE
        OBVIOUS
      <4> QED BY <1>1, <1>3, <2>2, <2>5 DEF Session
    <3>2. s.attempt < p.attempt
      BY <1>1, <1>3, <2>1, <2>2, <3>1, MaxAttemptAssumption, SMT
    <3>3. minted[s] # None /\ Yields(minted[s], minted[p].origin, clock)
      BY <1>1, <1>3, <2>2, <2>3, <3>2 DEF LadderInv, Ladder
    <3> QED BY <2>3, <3>3 DEF Yields
  <2> QED BY <2>4, <2>5
<1>4. ASSUME NEW t \in Session, t.kind = y.kind, t.id = y.id, y.attempt < t.attempt
      PROVE  minted[t] = None
  BY <1>1, <1>4 DEF LadderInv, Ladder
<1>5. ASSUME NEW s \in Session, NEW t \in Session, s.kind = t.kind, s.id = t.id,
             s.attempt < t.attempt, minted'[t] # None
      PROVE  minted'[s] # None /\ Yields(minted'[s], minted'[t].origin, clock)
  <2>1. s.attempt \in Nat /\ t.attempt \in Nat
    BY MaxAttemptAssumption, SMT DEF Session
  <2>2. s # t
    BY <1>5, <2>1
  <2> HIDE DEF y
  <2>3. CASE t = y
    BY <1>2, <1>3, <1>5, <2>2, <2>3
  <2>4. CASE t # y
    <3>1. minted'[t] = minted[t] /\ minted[t] # None
      BY <1>2, <1>5, <2>4
    <3>2. s # y
      BY <1>4, <1>5, <3>1
    <3>3. minted[s] # None /\ Yields(minted[s], minted[t].origin, clock)
      BY <1>5, <3>1 DEF LadderInv, Ladder
    <3> QED BY <1>2, <3>1, <3>2, <3>3
  <2> QED BY <2>3, <2>4
<1> QED BY <1>5 DEF Ladder

LEMMA CreateLadder ==
  ASSUME Lasting, Inv, LadderInv, NEW c \in Clients, Create(c)
  PROVE  LadderInv'
<1> DEFINE j == job[c]
           s == Key(j)
           old == minted[s]
           new == [origin |-> j.origin, terms |-> j.terms, expires |-> clock + Ttl]
<1>1. /\ j \in Job /\ JobSound(j, rows, minted) /\ j.pc = "create"
      /\ s \in Session
  BY DEF Inv, Types, Create, At, JobSound, Key, Session
<1>2. rows' = rows /\ clock' = clock /\ clock \in Nat
  BY DEF Create, Inv, Types
<1>3. CASE old = None /\ minted' = [minted EXCEPT ![s] = new]
  <2>1. new \in Mint /\ new.origin = j.origin /\ new.expires = clock + Ttl
    BY <1>1, <1>2, TimesAssumption DEF Mint, Job
  <2>2. /\ minted'[s] = new /\ \A t \in Session : t # s => minted'[t] = minted[t]
    BY <1>1, <1>3 DEF Inv, Types
  <2>3. minted' = [minted EXCEPT ![s] = new] /\ minted[s] = None
    BY <1>3
  <2>4. Becomes(c, Created(j, new)) \/ Becomes(c, Idle)
    BY <1>3 DEF Create
  <2> HIDE DEF new
  <2>5. Ladder(minted', clock)
    BY <1>1, <2>1, <2>3, RungAdded
  <2>6. \A t \in Session : minted[t] # None => t # s /\ minted'[t] = minted[t]
    BY <2>2, <2>3
  <2>7. \A i \in Ids : RowLasts(rows'[i], minted')
    <3> SUFFICES ASSUME NEW i \in Ids PROVE RowLasts(rows[i], minted')
      BY <1>2
    <3>1. /\ RowLasts(rows[i], minted) /\ RowSound(i, rows, minted)
          /\ rows[i].session \in Session \cup {None}
      BY DEF LadderInv, Inv, Types, Row
    <3> QED BY <2>6, <3>1 DEF RowLasts, RowSound
  <2>8. \A t \in Session : minted'[t] # None => minted'[t].expires <= clock + Ttl
    <3> SUFFICES ASSUME NEW t \in Session, minted'[t] # None
                 PROVE  minted'[t].expires <= clock + Ttl
      OBVIOUS
    <3>1. CASE t = s
      <4>1. clock + Ttl \in Nat
        BY <1>2, TimesAssumption
      <4> QED BY <2>1, <2>2, <3>1, <4>1
    <3>2. CASE t # s
      BY <2>2, <3>2 DEF LadderInv
    <3> QED BY <3>1, <3>2
  <2>9. ASSUME NEW d \in Clients PROVE JobFollows(job'[d], minted', clock)
    <3>1. CASE d # c
      <4>1. job'[d] = job[d] /\ JobFollows(job[d], minted, clock)
        BY <2>4, <3>1 DEF Becomes, Inv, Types, LadderInv
      <4>2. job[d].pc = "create" /\ job[d].attempt > 1 => Prior(job[d]) \in Session
        BY PriorIs DEF Inv, JobSound
      <4>3. job[d].pc = "persist" => job[d].session \in Session /\ minted[job[d].session] # None
        BY DEF Inv, JobSound
      <4> QED BY <2>6, <4>1, <4>2, <4>3 DEF JobFollows
    <3>2. CASE d = c
      <4>1. job'[c] = Created(j, new) \/ job'[c] = Idle
        BY <2>4 DEF Becomes, Inv, Types
      <4>2. JobFollows(Created(j, new), minted', clock)
        <5>1. new.expires <= clock + Ttl
          BY <1>2, <2>1, TimesAssumption
        <5> HIDE DEF j
        <5> QED BY <1>1, <1>2, <2>1, <2>2, <5>1, RecordedLater
      <4>3. JobFollows(Idle, minted', clock)
        BY FollowsNothing, IdleJob
      <4> QED BY <3>2, <4>1, <4>2, <4>3
    <3> QED BY <3>1, <3>2
  <2> QED BY <1>2, <2>5, <2>7, <2>8, <2>9 DEF LadderInv
<1>4. CASE old # None /\ Becomes(c, Created(j, old)) /\ UNCHANGED minted
  <2>1. old \in Mint /\ old.expires <= clock + Ttl
    BY <1>1, <1>4, MintedMint DEF LadderInv
  <2>2. JobFollows(Created(j, old), minted, clock)
    <3> HIDE DEF j
    <3> QED BY <1>1, <1>2, <2>1, RecordedLater
  <2> QED BY <1>2, <1>4, <2>2, LadderSame
<1>5. CASE Becomes(c, Idle) /\ UNCHANGED minted
  BY <1>2, <1>5, LadderEnds
<1> QED BY <1>3, <1>4, <1>5 DEF Create

LEMMA PersistLadder ==
  ASSUME Inv, LadderInv, NEW c \in Clients, Persist(c)
  PROVE  LadderInv'
<1> DEFINE j == job[c]
           row == rows[j.id]
           stored == SetSession(row, j.session, j.expires, j.origin)
<1>1. /\ j \in Job /\ j.pc = "persist" /\ j.id \in Ids /\ row \in Row
      /\ j.session \in Session /\ minted[j.session] # None
      /\ minted[j.session].expires <= j.expires
      /\ j.expires \in Nat /\ j.origin \in Origins \cup {None}
  BY DEF Inv, Types, Persist, At, JobSound, LadderInv, JobFollows, Job
<1>2. minted' = minted /\ clock' = clock
  BY DEF Persist
<1>3. RowLasts(stored, minted)
  <2>1. CASE SetSessionApplies(row, j.origin)
    <3>1. stored.session = j.session /\ stored.expires = j.expires
      BY <1>1, <2>1, SetSessionIs
    <3>2. j.session # None
      BY <1>1, NoneAssumption DEF Session
    <3> QED BY <1>1, <3>1, <3>2 DEF RowLasts
  <2>2. CASE ~SetSessionApplies(row, j.origin)
    BY <1>1, <2>2 DEF SetSession, LadderInv
  <2> QED BY <2>1, <2>2
<1>4. rows' = rows \/ rows' = [rows EXCEPT ![j.id] = stored]
  BY DEF Persist
<1>5. \A i \in Ids : RowLasts(rows'[i], minted)
  <2> HIDE DEF stored
  <2> QED BY <1>1, <1>3, <1>4 DEF LadderInv, Inv, Types
<1>6. ASSUME NEW k, Becomes(c, k), k.pc \notin {"create", "persist"}
      PROVE  LadderInv'
  BY <1>2, <1>5, <1>6, LadderKept, FollowsNothing
<1>7. Serving(j, j.session).pc = "reply"
  BY <1>1, ServingJob
<1>8. [j EXCEPT !.pc = "lost"].pc = "lost"
  BY <1>1 DEF Job
<1> QED BY <1>6, <1>7, <1>8, IdleJob DEF Persist

LEMMA LadderStep ==
  ASSUME Strict, Lasting, Inv, LadderInv, NEW c \in Clients, Step(c)
  PROVE  LadderInv'
<1>1. CASE \E i \in Ids, t \in Terms : InvoiceInsert(c, i, t)
  BY <1>1, InvoiceInsertLadder
<1>2. CASE \E i \in Ids, want \in Kinds \cup {None}, named \in Origins \cup {None} :
             CheckoutRead(c, i, want, named)
  BY <1>2, CheckoutReadLadder
<1>3. CASE LostRace(c)
  <2> DEFINE row == rows[job[c].id]
  <2>1. UNCHANGED <<rows, minted, clock>>
    BY <1>3 DEF LostRace
  <2>2. CASE Live(row) /\ Becomes(c, Serving(job[c], row.session))
    <3>1. job[c] \in Job /\ row.session \in Session
      BY <1>3, <2>2 DEF Inv, Types, JobSound, LostRace, At, Live, Row
    <3>2. Serving(job[c], row.session).pc = "reply"
      BY <3>1, ServingJob
    <3> QED BY <2>1, <2>2, <3>2, LadderSame, FollowsNothing
  <2>3. CASE Becomes(c, Idle)
    BY <2>1, <2>3, LadderEnds
  <2> QED BY <1>3, <2>2, <2>3 DEF LostRace
<1>4. CASE Reply(c) \/ Lose(c)
  BY <1>4, LadderEnds DEF Reply, Lose
<1> QED
  BY <1>1, <1>2, <1>3, <1>4, InvoiceExistingLadder, CreateLadder, PersistLadder DEF Step

(* What has expired stays expired, and the settlement side leaves the      *)
(* session of a row, its expiry and its attempt alone.                     *)
LEMMA OutsideLadder ==
  ASSUME Inv, LadderInv, Outside
  PROVE  LadderInv'
<1>1. /\ clock \in Nat /\ clock' \in Nat /\ clock <= clock' /\ minted' = minted
      /\ \A i \in Ids : Settles(rows[i], rows'[i])
  BY DEF Inv, Types, Outside
<1>2. \A s \in Session : minted[s] # None => minted[s].expires <= clock' + Ttl
  BY <1>1, MintedMint, TimesAssumption, SMT DEF LadderInv
<1>3. ASSUME NEW s \in Session, NEW origin, minted[s] # None,
             Yields(minted[s], origin, clock)
      PROVE  Yields(minted[s], origin, clock')
  BY <1>1, <1>3, MintedMint, YieldsLater
<1>4. Ladder(minted, clock')
  BY <1>3 DEF LadderInv, Ladder
<1>5. \A d \in Clients : JobFollows(job[d], minted, clock')
  <2> SUFFICES ASSUME NEW d \in Clients PROVE JobFollows(job[d], minted, clock')
    OBVIOUS
  <2>1. job[d].pc = "create" /\ job[d].attempt > 1 => Prior(job[d]) \in Session
    BY PriorIs DEF Inv, JobSound
  <2> QED BY <1>3, <2>1 DEF LadderInv, JobFollows
<1>6. \A d \in Clients : JobFollows(job'[d], minted, clock')
  <2>1. CASE job' = job
    BY <1>5, <2>1
  <2>2. CASE job' = [d \in Clients |-> Idle]
    BY <2>2, IdleJob, FollowsNothing
  <2> QED BY <2>1, <2>2 DEF Outside
<1>7. \A i \in Ids : RowLasts(rows'[i], minted)
  BY <1>1 DEF LadderInv, RowLasts, Settles
<1> QED BY <1>1, <1>2, <1>4, <1>6, <1>7 DEF LadderInv

LEMMA LadderInit == Init => LadderInv
<1> SUFFICES ASSUME Init PROVE LadderInv
  OBVIOUS
<1>1. NoRow.session = None /\ NoRow.attempt = 0
  BY DEF NoRow
<1> QED BY <1>1, IdleJob, FollowsNothing DEF Init, LadderInv, RowLasts, Ladder

LEMMA LadderAlways ==
  ASSUME Strict, Lasting
  PROVE  Spec => [](Inv /\ LadderInv)
<1>1. Inv /\ LadderInv /\ [Next]_vars => LadderInv'
  BY StillOutside, SettledOutside, OutsideLadder, LadderStep DEF Next
<1> QED BY <1>1, InitSound, LadderInit, NextSound, PTL DEF Spec

(* No buyer can pay twice through the same shop: of two sessions of one    *)
(* correlation at one processor that lead back to the same shop, the       *)
(* earlier has expired but for the slack, as long as an order lives no     *)
(* longer than is recorded (idempotency_key, the reuse of the live session *)
(* in checkout_session).                                                   *)
THEOREM OneLive ==
  ASSUME Strict, Lasting
  PROVE  Spec => []OneLiveSession
<1>1. Inv /\ LadderInv => OneLiveSession
  <2> SUFFICES ASSUME Inv, LadderInv, NEW s \in Session, NEW t \in Session, s # t,
                      s.id = t.id, s.kind = t.kind, minted[s] # None, minted[t] # None,
                      minted[s].origin = minted[t].origin
               PROVE  minted[s].expires <= clock + Slack \/ minted[t].expires <= clock + Slack
    BY DEF OneLiveSession
  <2>1. s.attempt # t.attempt /\ s.attempt \in Nat /\ t.attempt \in Nat
    BY MaxAttemptAssumption DEF Session
  <2>2. CASE s.attempt < t.attempt
    BY <2>2 DEF LadderInv, Ladder, Yields
  <2>3. CASE t.attempt < s.attempt
    BY <2>3 DEF LadderInv, Ladder, Yields
  <2> QED BY <2>1, <2>2, <2>3
<1> QED BY <1>1, LadderAlways, PTL
=============================================================================
