------------------------------ MODULE Checkout ------------------------------
(***************************************************************************)
(* Minting hosted checkouts: POST /invoices on the fiat path (http.rs,     *)
(* create_invoice), POST /checkout-sessions (checkout_session) and what    *)
(* both call (mint_session, mint_stripe_session,                           *)
(* persisted_session_after_lost_race), concurrently, over the correlations *)
(* table and the processors' idempotent create calls.                      *)
(*                                                                         *)
(* One action per await: the read of the row and the decision taken on it, *)
(* the create call, the conditional persist, the re-read after a lost      *)
(* race.  A request can be lost between any two of them.                   *)
(*                                                                         *)
(* Not here: signatures, parsing, the criterion fetch, the rate limit, and *)
(* the origin allowlist, all of which come before any state is touched;    *)
(* what moves a row out of `created` (Settlement) is one outside action.   *)
(***************************************************************************)
EXTENDS Correlations

CONSTANTS
  Clients,          \* requests the HTTP server can be working on at a time
  Configured,       \* the processors with credentials
  DefaultKind,      \* FIAT_DEFAULT_PROCESSOR, or the only one configured
  Ttl,              \* the processors' own lifetime of a session or order
  OrderTtl,         \* PAYPAL_ORDER_TTL_SECONDS, what is recorded of an order's
  Slack,            \* SESSION_EXPIRY_SLACK_SECONDS
  ReplayOnMismatch, \* a processor replays a create whose parameters differ
  MaxTime,          \* bound on the clock
  MaxFaults         \* bound on failed calls and lost requests

ASSUME ConfiguredAssumption == Configured \subseteq Kinds
ASSUME DefaultAssumption == DefaultKind \in Kinds
ASSUME TimesAssumption == Ttl \in Nat /\ OrderTtl \in Nat /\ Slack \in Nat
ASSUME ReplayAssumption == ReplayOnMismatch \in BOOLEAN

VARIABLES
  rows,    \* the correlations table
  minted,  \* what the processors created under each idempotency key
  clock,
  job,     \* what each request is doing
  faults   \* faults so far

vars == <<rows, minted, clock, job, faults>>

(* The parameters of a create call that differ between two mints of the    *)
(* same correlation, and the processor's own expiry: success_url and       *)
(* cancel_url are derived from the origin, or are the fallback (None).     *)
Mint == [origin : Origins \cup {None}, terms : Terms \cup {None}, expires : Nat]

ASSUME NoMintAssumption == None \notin Mint

Points == {"idle", "existing", "create", "persist", "lost", "reply"}

(***************************************************************************)
(* `named` is the return origin of the request, `origin` the one the       *)
(* session is to be minted with, `session` the session in hand.            *)
(***************************************************************************)
Job == [pc : Points, op : {"none", "invoice", "checkout"},
        id : Ids \cup {None}, terms : Terms \cup {None},
        kind : Kinds \cup {None}, attempt : Nat,
        named : Origins \cup {None}, origin : Origins \cup {None},
        session : Session \cup {None}, expires : Nat]

Idle == [pc |-> "idle", op |-> "none", id |-> None, terms |-> None,
         kind |-> None, attempt |-> 0, named |-> None, origin |-> None,
         session |-> None, expires |-> 0]

At(c, pc) == job[c].pc = pc

Becomes(c, j) == job' = [job EXCEPT ![c] = j]

Fault == faults < MaxFaults /\ faults' = faults + 1

NoFault == UNCHANGED faults

Init ==
  /\ rows = [i \in Ids |-> NoRow]
  /\ minted = [s \in Session |-> None]
  /\ clock = 0
  /\ job = [c \in Clients |-> Idle]
  /\ faults = 0

-----------------------------------------------------------------------------
(* The processors a request for a new session is eagerly sent to: the only *)
(* one configured; with both, minting waits for the buyer's choice.        *)
Eager == {kind \in Configured : Configured = {kind}}

(* A session minted for the correlation, of `kind`, at the next attempt.   *)
Creating(j, kind, attempt, origin) ==
  [j EXCEPT !.pc = "create", !.kind = kind, !.attempt = attempt, !.origin = origin]

(* A response with a checkout URL. *)
Serving(j, s) ==
  [Idle EXCEPT !.pc = "reply", !.op = j.op, !.id = j.id, !.named = j.named,
               !.origin = j.origin, !.session = s]

(* The session on the row may still be handed out. *)
Live(row) == row.session # None /\ row.expires > clock + Slack

(* POST /invoices: insert_new, the first write of a correlation, or its    *)
(* comparison with the row that is there.                                  *)
InvoiceInsert(c, i, terms) ==
  LET j == [Idle EXCEPT !.op = "invoice", !.id = i, !.terms = terms] IN
  /\ At(c, "idle")
  /\ Configured # {}
  /\ \/ /\ rows[i].state = "absent"
        /\ rows' = [rows EXCEPT ![i] = NewRow(terms)]
        /\ \/ \E kind \in Eager : Becomes(c, Creating(j, kind, 1, None))
           \/ Eager = {} /\ UNCHANGED job
     \/ /\ rows[i].state # "absent"
        /\ rows[i].terms = terms
        /\ Becomes(c, [j EXCEPT !.pc = "existing"])
        /\ UNCHANGED rows
  /\ UNCHANGED <<minted, clock, faults>>

(* An exact replay: the session is created if an earlier request died      *)
(* before it was; a row that has one, or a deferred mint, is done.         *)
InvoiceExisting(c) ==
  LET row == rows[job[c].id] IN
  /\ At(c, "existing")
  /\ \/ /\ row.session = None
        /\ row.attempt < MaxAttempt
        /\ \E kind \in Eager :
             Becomes(c, Creating(job[c], kind, row.attempt + 1, None))
     \/ /\ row.session # None \/ Eager = {}
        /\ Becomes(c, Idle)
  /\ UNCHANGED <<rows, minted, clock, faults>>

(* POST /checkout-sessions: the row is read and the request is refused     *)
(* (409), served from the row, or goes on to mint.                         *)
Compatible(row, want, named) ==
  /\ row.state = "created"
  /\ row.origin # None => named \in {None, row.origin}
  /\ BoundProcessor(row) # None => want \in {None, BoundProcessor(row)}

EffectiveOrigin(row, named) == IF row.origin # None THEN row.origin ELSE named

ChosenKind(row, want) ==
  CASE BoundProcessor(row) # None -> BoundProcessor(row)
    [] BoundProcessor(row) = None /\ want # None -> want
    [] OTHER -> DefaultKind

(* Slips: reused whatever its origin; never reused. *)
ReusableAnyOrigin(row, origin) == BoundProcessor(row) # None /\ Live(row)
ReusableNever(row, origin) == FALSE

(* The live session is reused only under the origin it was minted with. *)
Reusable(row, origin) ==
  BoundProcessor(row) # None /\ row.origin = origin /\ Live(row)

CheckoutRead(c, i, want, named) ==
  LET row == rows[i]
      origin == EffectiveOrigin(row, named)
      j == [Idle EXCEPT !.op = "checkout", !.id = i, !.terms = row.terms,
                        !.named = named, !.origin = origin] IN
  /\ At(c, "idle")
  /\ Configured # {}
  /\ Compatible(row, want, named)
  /\ \/ /\ Reusable(row, origin)
        /\ Becomes(c, Serving(j, row.session))
     \/ /\ ~Reusable(row, origin)
        /\ ChosenKind(row, want) \in Configured
        /\ row.attempt < MaxAttempt
        /\ Becomes(c, Creating(j, ChosenKind(row, want), row.attempt + 1, origin))
  /\ UNCHANGED <<rows, minted, clock, faults>>

-----------------------------------------------------------------------------
(* mint_session.                                                           *)

Key(j) == [kind |-> j.kind, id |-> j.id, attempt |-> j.attempt]

(* Slip: Stripe's own expiry is not used either. *)
RecordedExpiryGuessed(j, mint) == clock + OrderTtl

(* The expiry that is recorded: Stripe's own; for PayPal, which names      *)
(* none, three hours from the answer, even if the answer is a replay, and  *)
(* whatever the order's own lifetime is.                                   *)
RecordedExpiry(j, mint) == IF j.kind = "stripe" THEN mint.expires ELSE clock + OrderTtl

Created(j, mint) ==
  [j EXCEPT !.pc = "persist", !.session = Key(j), !.expires = RecordedExpiry(j, mint)]

(* The create call.  A key seen before yields the session it created, as   *)
(* long as the parameters are the same; if they are not, the processor     *)
(* replays it all the same, or refuses.  The answer can be lost.           *)
Create(c) ==
  LET j == job[c]
      old == minted[Key(j)]
      new == [origin |-> j.origin, terms |-> j.terms, expires |-> clock + Ttl]
      same == old # None /\ old.origin = j.origin /\ old.terms = j.terms IN
  /\ At(c, "create")
  /\ \/ /\ old = None
        /\ minted' = [minted EXCEPT ![Key(j)] = new]
        /\ \/ Becomes(c, Created(j, new)) /\ NoFault
           \/ Becomes(c, Idle) /\ Fault
     \/ /\ old # None
        /\ same \/ ReplayOnMismatch
        /\ Becomes(c, Created(j, old))
        /\ NoFault /\ UNCHANGED minted
     \/ /\ old # None /\ ~same /\ ~ReplayOnMismatch
        /\ Becomes(c, Idle)
        /\ NoFault /\ UNCHANGED minted
     \/ /\ Becomes(c, Idle)
        /\ Fault /\ UNCHANGED minted
  /\ UNCHANGED <<rows, clock>>

(* set_session: persisted, the session is served; refused by the origin    *)
(* guard, it is not.                                                       *)
Persist(c) ==
  LET j == job[c]
      row == rows[j.id]
      Stored == [rows EXCEPT ![j.id] = SetSession(@, j.session, j.expires, j.origin)] IN
  /\ At(c, "persist")
  /\ \/ /\ SetSessionApplies(row, j.origin)
        /\ rows' = Stored
        /\ Becomes(c, Serving(j, j.session))
        /\ NoFault
     \/ /\ ~SetSessionApplies(row, j.origin)
        /\ Becomes(c, [j EXCEPT !.pc = "lost"])
        /\ NoFault /\ UNCHANGED rows
     \/ /\ rows' \in {rows, Stored}
        /\ Becomes(c, Idle)
        /\ Fault
  /\ UNCHANGED <<minted, clock>>

(* persisted_session_after_lost_race: the winner's session, if it lives.   *)
LostRace(c) ==
  LET row == rows[job[c].id] IN
  /\ At(c, "lost")
  /\ \/ /\ row.state = "created" /\ Live(row)
        /\ Becomes(c, Serving(job[c], row.session))
     \/ /\ ~(row.state = "created" /\ Live(row))
        /\ Becomes(c, Idle)
  /\ UNCHANGED <<rows, minted, clock, faults>>

Reply(c) ==
  /\ At(c, "reply")
  /\ Becomes(c, Idle)
  /\ UNCHANGED <<rows, minted, clock, faults>>

-----------------------------------------------------------------------------
(* A request is lost: its client hung up, or the process died. *)
Lose(c) ==
  /\ ~At(c, "idle")
  /\ Fault
  /\ Becomes(c, Idle)
  /\ UNCHANGED <<rows, minted, clock>>

(* A payment, its confirmation or its reversal is recorded by the          *)
(* settlement side.                                                        *)
Settled(i) ==
  /\ rows[i].session # None
  /\ \E move \in {<<"created", "paid">>, <<"created", "reversed">>,
                   <<"paid", "confirmed">>, <<"paid", "reversed">>} :
       /\ rows[i].state = move[1]
       /\ rows' = [rows EXCEPT ![i].state = move[2]]
  /\ UNCHANGED <<minted, clock, job, faults>>

Tick ==
  /\ clock < MaxTime
  /\ clock' = clock + 1
  /\ UNCHANGED <<rows, minted, job, faults>>

Step(c) ==
  \/ \E i \in Ids, t \in Terms : InvoiceInsert(c, i, t)
  \/ \E i \in Ids, want \in Kinds \cup {None}, named \in Origins \cup {None} :
       CheckoutRead(c, i, want, named)
  \/ InvoiceExisting(c) \/ Create(c) \/ Persist(c) \/ LostRace(c) \/ Reply(c)
  \/ Lose(c)

Next == Tick \/ (\E i \in Ids : Settled(i)) \/ (\E c \in Clients : Step(c))

Spec == Init /\ [][Next]_vars

-----------------------------------------------------------------------------
(* Types; and a row has a processor exactly if it has a session. *)
TypeOK ==
  /\ rows \in [Ids -> Row]
  /\ \A i \in Ids : rows[i].processor = None <=> rows[i].session = None
  /\ minted \in [Session -> Mint \cup {None}]
  /\ clock \in Nat
  /\ job \in [Clients -> Job]
  /\ faults \in Nat

(* The session on a row is its own: created by the processor on record,    *)
(* for this correlation, at this attempt and for the amount of the terms   *)
(* the correlation was created with -- whatever invoices were repeated,    *)
(* with whatever terms, and whoever minted (insert_new, set_session).      *)
RowSessionFits ==
  \A i \in Ids : LET row == rows[i] IN
    row.session # None =>
      /\ row.session.kind = row.processor /\ row.session.id = i
      /\ row.session.attempt = row.attempt
      /\ minted[row.session] # None
      /\ minted[row.session].terms = row.terms

(* A bound return origin is never rebound (store.rs, set_session). *)
OriginNeverRebound ==
  [][\A i \in Ids : rows[i].origin # None => rows'[i].origin = rows[i].origin]_vars

(* The redirect URLs of the session on a row are those of the origin the   *)
(* row is bound to, or the fallback ones (set_session's guard).            *)
RowUrlsMatchBinding ==
  \A i \in Ids : rows[i].session # None =>
    minted[rows[i].session].origin = rows[i].origin

(* A buyer who named a shop is sent back to it, or to the one a concurrent *)
(* request bound the correlation to, and never to the fallback or to some  *)
(* other shop (checkout_session, persisted_session_after_lost_race).       *)
ServedUrlsAreBound ==
  \A c \in Clients : LET j == job[c] IN
    At(c, "reply") /\ j.named # None =>
      minted[j.session].origin \in {j.named, rows[j.id].origin} \ {None}

(* A session that counts as live, and is reused without asking the         *)
(* processor, can still be paid (checkout_session, RecordedExpiry).  It    *)
(* holds for Stripe, whose own expiry is recorded.                         *)
LiveSessionPayable ==
  \A i \in Ids : rows[i].session # None /\ Live(rows[i]) =>
    minted[rows[i].session].expires > clock

StripeSessionPayable ==
  \A i \in Ids : rows[i].processor = "stripe" /\ Live(rows[i]) =>
    minted[rows[i].session].expires > clock + Slack

(* The processor binding is permanent (README, processor selection). *)
ProcessorNeverRebound ==
  [][\A i \in Ids : rows[i].processor # None =>
       rows'[i].processor = rows[i].processor]_vars

(* No buyer can pay twice through the same shop: two sessions of one       *)
(* correlation on one processor with the same redirect URLs are never both *)
(* good for more than the slack -- retries, races and lost requests find   *)
(* the session there is (idempotency_key, the reuse of the live session).  *)
OneLiveSession ==
  \A s, t \in Session :
    /\ s # t /\ s.id = t.id /\ s.kind = t.kind
    /\ minted[s] # None /\ minted[t] # None
    /\ minted[s].origin = minted[t].origin
    => minted[s].expires <= clock + Slack \/ minted[t].expires <= clock + Slack
=============================================================================
