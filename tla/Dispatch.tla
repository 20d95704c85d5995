------------------------------ MODULE Dispatch ------------------------------
(***************************************************************************)
(* The surface the Lock Server sees: POST /invoices, dispatched by the     *)
(* criterion of the content lock (http.rs, create_invoice; lock_fetch.rs), *)
(* and POST /transactions/status, dispatched by whether there is a row     *)
(* (transaction_status), with the pass-through to the Paykit Server        *)
(* (proxy.rs) for what is not fiat.                                        *)
(*                                                                         *)
(* The two calls dispatch on different things, and neither is fixed: the   *)
(* author can edit the lock between two calls, or during one, and the      *)
(* process can be restarted with another configuration.                    *)
(*                                                                         *)
(* A call is genuine: signature, canonical JSON and the form of the        *)
(* request come before all else and change nothing.  The mint after the    *)
(* insert (Checkout) is whether it succeeds; what a fiat status says       *)
(* (Settlement) is that the row answered.                                  *)
(***************************************************************************)
EXTENDS Config

CONSTANTS
  Ids,        \* the (creator, bundle_id) identities
  Calls,      \* calls in flight at a time
  Criteria,   \* what a lock may ask: [asset, sound, n]
  MaxEdits,   \* bound on edits of locks
  MaxFaults,  \* bound on failed calls and restarts
  Nil         \* no criterion, no row, no invoice

VARIABLES
  conf,      \* the configuration the process runs with
  lock,      \* the criterion in each bundle's lock; Nil: no or no valid lock
  fiat,      \* the terms of each correlation row; Nil: no row
  paykit,    \* the same for the invoices of the Paykit Server
  request,   \* what is in flight
  accepted,  \* history: what the Lock Server was answered 204 for
  edits, faults

dvars == <<conf, lock, fiat, paykit, request, accepted, edits, faults>>

Stages == {"idle", "criterion", "forward", "insert", "mint", "row", "ask", "answer"}
Replies == {"none", "accepted", "fiat", "paykit", "unknown", "error"}

(* `terms` is the criterion the call was dispatched on, `rail` where it    *)
(* went, `before` what had been accepted when a status call began.         *)
Unasked == [pc |-> "idle", id |-> Nil, rail |-> "none", terms |-> Nil,
            before |-> {}, reply |-> "none"]

AtStage(c, pc) == request[c].pc = pc

Turns(c, r) == request' = [request EXCEPT ![c] = r]

Goes(c, pc) == Turns(c, [request[c] EXCEPT !.pc = pc])

Replied(c, reply) == Turns(c, [request[c] EXCEPT !.pc = "answer", !.reply = reply])

Fault == faults < MaxFaults /\ faults' = faults + 1

NoFault == UNCHANGED faults

(* The process boots with an environment config.rs accepts. *)
DispatchInit ==
  /\ \E env \in Env : Boots(env) /\ conf = Loaded(env)
  /\ lock \in [Ids -> Criteria \cup {Nil}]
  /\ fiat = [i \in Ids |-> Nil]
  /\ paykit = [i \in Ids |-> Nil]
  /\ request = [c \in Calls |-> Unasked]
  /\ accepted = [i \in Ids |-> {}]
  /\ edits = 0 /\ faults = 0

-----------------------------------------------------------------------------
(* POST /invoices *)

InvoiceBegin(c, i) ==
  /\ AtStage(c, "idle")
  /\ Turns(c, [Unasked EXCEPT !.pc = "criterion", !.id = i])
  /\ UNCHANGED <<conf, lock, fiat, paykit, accepted, edits, faults>>

(* The fiat rail takes the criterion: the asset is enabled, the recipient  *)
(* is the creator, the amount a positive i64, and a processor is there.    *)
Takes(terms) == terms.asset \in conf.assets /\ terms.sound /\ conf.processors # {}

(* CriterionSource::criterion, unless the fetch fails: what the lock asks  *)
(* for; Nil if it is missing, too large or no lock.                        *)
Criterion(i) == lock[i]

(* The lock is fetched and its criterion dispatched on. *)
ReadCriterion(c) ==
  LET terms == Criterion(request[c].id) IN
  /\ AtStage(c, "criterion")
  /\ \/ /\ terms # Nil /\ terms.asset = "BTC"
        /\ Turns(c, [request[c] EXCEPT !.pc = "forward", !.rail = "btc"])
        /\ NoFault
     \/ /\ terms # Nil /\ terms.asset # "BTC" /\ Takes(terms)
        /\ Turns(c, [request[c] EXCEPT !.pc = "insert", !.rail = "fiat", !.terms = terms])
        /\ NoFault
     \/ /\ terms # Nil => terms.asset # "BTC" /\ ~Takes(terms)
        /\ Replied(c, "error")
        /\ NoFault
     \/ Replied(c, "error") /\ Fault
  /\ UNCHANGED <<conf, lock, fiat, paykit, accepted, edits>>

Inserted(i, terms) == [fiat EXCEPT ![i] = terms]

(* Slip: a repeated invoice is not compared with the row. *)
InsertAnyTerms(c) ==
  LET i == request[c].id IN
  /\ AtStage(c, "insert")
  /\ fiat' = IF fiat[i] = Nil THEN Inserted(i, request[c].terms) ELSE fiat
  /\ Goes(c, "mint")
  /\ UNCHANGED <<conf, lock, paykit, accepted, edits, faults>>

(* insert_new: the first invoice of an identity, its exact replay, or a    *)
(* conflict (409).  A failed write may have taken place.                   *)
Insert(c) ==
  LET i == request[c].id
      terms == request[c].terms IN
  /\ AtStage(c, "insert")
  /\ \/ /\ fiat[i] = Nil
        /\ fiat' = Inserted(i, terms)
        /\ Goes(c, "mint") /\ NoFault
     \/ /\ fiat[i] = terms
        /\ Goes(c, "mint") /\ NoFault /\ UNCHANGED fiat
     \/ /\ fiat[i] \notin {Nil, terms}
        /\ Replied(c, "error") /\ NoFault /\ UNCHANGED fiat
     \/ /\ fiat' = fiat \/ (fiat[i] = Nil /\ fiat' = Inserted(i, terms))
        /\ Replied(c, "error") /\ Fault
  /\ UNCHANGED <<conf, lock, paykit, accepted, edits>>

(* With one processor the mint is part of the call, and can fail; with     *)
(* two it is left to the checkout.                                         *)
Mint(c) ==
  /\ AtStage(c, "mint")
  /\ \/ Replied(c, "accepted") /\ NoFault
     \/ Sole(conf.processors) # {} /\ Replied(c, "error") /\ Fault
  /\ UNCHANGED <<conf, lock, fiat, paykit, accepted, edits>>

(* PaykitProxy::forward of an invoice.  The Paykit Server, external, reads *)
(* the lock itself and wants BTC; it accepts a new invoice or a replay.    *)
(* Its answer is mirrored; a failure leaves open whether it did.           *)
Forward(c) ==
  LET i == request[c].id
      terms == lock[i]
      takes == terms # Nil /\ terms.asset = "BTC" /\ paykit[i] \in {Nil, terms} IN
  /\ AtStage(c, "forward")
  /\ \/ /\ takes
        /\ paykit' = [paykit EXCEPT ![i] = terms]
        /\ Turns(c, [request[c] EXCEPT !.pc = "answer", !.terms = terms, !.reply = "accepted"])
        /\ NoFault
     \/ /\ takes
        /\ paykit' = [paykit EXCEPT ![i] = terms]
        /\ Replied(c, "error") /\ Fault
     \/ /\ ~takes
        /\ Replied(c, "error") /\ NoFault /\ UNCHANGED paykit
     \/ Replied(c, "error") /\ Fault /\ UNCHANGED paykit
  /\ UNCHANGED <<conf, lock, fiat, accepted, edits>>

-----------------------------------------------------------------------------
(* POST /transactions/status *)

StatusBegin(c, i) ==
  /\ AtStage(c, "idle")
  /\ Turns(c, [Unasked EXCEPT !.pc = "row", !.id = i, !.before = accepted[i]])
  /\ UNCHANGED <<conf, lock, fiat, paykit, accepted, edits, faults>>

(* Slip: a row is only answered from while its asset is enabled. *)
StatusRowEnabled(c) ==
  LET row == fiat[request[c].id] IN
  /\ AtStage(c, "row")
  /\ IF row # Nil /\ row.asset \in conf.assets THEN Replied(c, "fiat") ELSE Goes(c, "ask")
  /\ UNCHANGED <<conf, lock, fiat, paykit, accepted, edits, faults>>

(* A fiat row answers for itself, whatever the lock says by now; everything *)
(* else is the Paykit Server's.                                            *)
StatusRow(c) ==
  LET row == fiat[request[c].id] IN
  /\ AtStage(c, "row")
  /\ \/ row # Nil /\ row.asset # "BTC" /\ Replied(c, "fiat") /\ NoFault
     \/ (row # Nil => row.asset = "BTC") /\ Goes(c, "ask") /\ NoFault
     \/ Replied(c, "error") /\ Fault
  /\ UNCHANGED <<conf, lock, fiat, paykit, accepted, edits>>

(* PaykitProxy::forward of a status call: mirrored, its 404 included. *)
StatusAsk(c) ==
  /\ AtStage(c, "ask")
  /\ \/ paykit[request[c].id] # Nil /\ Replied(c, "paykit") /\ NoFault
     \/ paykit[request[c].id] = Nil /\ Replied(c, "unknown") /\ NoFault
     \/ Replied(c, "error") /\ Fault
  /\ UNCHANGED <<conf, lock, fiat, paykit, accepted, edits>>

-----------------------------------------------------------------------------
(* The answer arrives at the Lock Server. *)
Answer(c) ==
  LET r == request[c] IN
  /\ AtStage(c, "answer")
  /\ Turns(c, Unasked)
  /\ accepted' = IF r.reply = "accepted"
                 THEN [accepted EXCEPT ![r.id] = @ \cup {[rail |-> r.rail, terms |-> r.terms]}]
                 ELSE accepted
  /\ UNCHANGED <<conf, lock, fiat, paykit, edits, faults>>

(* A call is lost with its connection. *)
Lose(c) ==
  /\ ~AtStage(c, "idle") /\ Fault
  /\ Turns(c, Unasked)
  /\ UNCHANGED <<conf, lock, fiat, paykit, accepted, edits>>

(* The process is stopped and started again, perhaps configured anew. *)
Restart ==
  /\ Fault
  /\ \E env \in Env : Boots(env) /\ conf' = Loaded(env)
  /\ request' = [c \in Calls |-> Unasked]
  /\ UNCHANGED <<lock, fiat, paykit, accepted, edits>>

(* The author rewrites the lock. *)
Edit(i) ==
  /\ edits < MaxEdits /\ edits' = edits + 1
  /\ \E terms \in Criteria \cup {Nil} : lock' = [lock EXCEPT ![i] = terms]
  /\ UNCHANGED <<conf, fiat, paykit, request, accepted, faults>>

CallStep(c) ==
  \/ \E i \in Ids : InvoiceBegin(c, i) \/ StatusBegin(c, i)
  \/ ReadCriterion(c) \/ Insert(c) \/ Mint(c) \/ Forward(c)
  \/ StatusRow(c) \/ StatusAsk(c)
  \/ Answer(c) \/ Lose(c)

DispatchNext == (\E c \in Calls : CallStep(c)) \/ Restart \/ \E i \in Ids : Edit(i)

DispatchSpec == DispatchInit /\ [][DispatchNext]_dvars

-----------------------------------------------------------------------------
(* An invoice the Lock Server was told is accepted is never answered 404   *)
(* by a status call made after that: some rail knows it for good, through  *)
(* edits of the lock, failed calls and restarts with a configuration in    *)
(* which its asset or its processor is not enabled any more                *)
(* (transaction_status looks at the row, not at the lock).                 *)
NeverForgotten ==
  \A c \in Calls : AtStage(c, "answer") /\ request[c].reply = "unknown" => request[c].before = {}

(* What was accepted on the fiat rail is what the row says: a call that    *)
(* read an edited lock, however it raced the first one, was refused        *)
(* (insert_new).                                                           *)
AcceptedAsBound ==
  \A i \in Ids : \A a \in accepted[i] : a.rail = "fiat" => fiat[i] = a.terms

(* A checkout that names no processor has one to go to, whatever           *)
(* FIAT_DEFAULT_PROCESSOR says (main.rs, default_processor).               *)
DefaultUsable == conf.processors # {} => conf.default \in conf.processors

(* An identity is bound once: it is never accepted on both rails.          *)
OneRailPerIdentity ==
  \A i \in Ids : \A a, b \in accepted[i] : a.rail = b.rail
=============================================================================
