-------------------------- MODULE Dispatch_proofs ---------------------------
(***************************************************************************)
(* What the Lock Server can rely on, whatever locks are edited when, and   *)
(* however often the process is restarted with another configuration: for  *)
(* any number of identities, calls in flight, criteria, edits and faults.  *)
(*                                                                         *)
(* The configuration and the lock decide where a call goes, never what a   *)
(* rail already knows: both rails' books only grow (Grows).  So it is      *)
(* enough that whatever was accepted, or is about to be, is in the books   *)
(* of the rail that took it.                                               *)
(***************************************************************************)
EXTENDS Dispatch, FiniteSetTheorems, TLAPS

Rails == {"none", "fiat", "btc"}

CallRecord == [pc : Stages, id : Ids \cup {Nil}, rail : Rails,
               terms : Criteria \cup {Nil},
               before : SUBSET [rail : Rails, terms : Criteria \cup {Nil}],
               reply : Replies]

(* A rail has it in its books: the row with these terms, or an invoice of  *)
(* the Paykit Server.                                                      *)
Booked(i, rail, terms, F, P) ==
  \/ rail = "fiat" /\ terms # Nil /\ F[i] = terms
  \/ rail = "btc" /\ P[i] # Nil

(* Some rail will answer for the identity. *)
Known(i, F, P) == F[i] # Nil \/ P[i] # Nil

CallSound(r, F, P) ==
  /\ r.pc # "idle" => r.id \in Ids
  /\ r.pc = "forward" => r.rail = "btc"
  /\ r.pc = "insert" => r.rail = "fiat" /\ r.terms # Nil /\ r.terms.asset # "BTC"
  /\ r.pc = "mint" => r.rail = "fiat" /\ r.terms # Nil /\ F[r.id] = r.terms
  /\ r.pc = "row" /\ r.before # {} => Known(r.id, F, P)
  /\ r.pc = "ask" /\ r.before # {} => P[r.id] # Nil
  /\ r.pc = "answer" /\ r.reply = "unknown" => r.before = {}
  /\ r.pc = "answer" /\ r.reply = "accepted" => Booked(r.id, r.rail, r.terms, F, P)

Types ==
  /\ lock \in [Ids -> Criteria \cup {Nil}]
  /\ fiat \in [Ids -> Criteria \cup {Nil}]
  /\ paykit \in [Ids -> Criteria \cup {Nil}]
  /\ accepted \in [Ids -> SUBSET [rail : Rails, terms : Criteria \cup {Nil}]]
  /\ request \in [Calls -> CallRecord]

(* No row is of a BTC criterion. *)
RowsFiat == \A i \in Ids : fiat[i] # Nil => fiat[i].asset # "BTC"

AcceptedBooked ==
  \A i \in Ids : \A a \in accepted[i] : Booked(i, a.rail, a.terms, fiat, paykit)

Inv ==
  /\ Types
  /\ RowsFiat
  /\ AcceptedBooked
  /\ \A c \in Calls : CallSound(request[c], fiat, paykit)

(* Both rails' books from one state to a later one. *)
Grows(F, P, F2, P2) ==
  \A i \in Ids : /\ F[i] # Nil => F2[i] = F[i]
                 /\ P[i] # Nil => P2[i] # Nil

-----------------------------------------------------------------------------
(* What lasts. *)

LEMMA BookedLasts ==
  ASSUME NEW i \in Ids, NEW rail, NEW terms, NEW F, NEW P, NEW F2, NEW P2,
         Grows(F, P, F2, P2), Booked(i, rail, terms, F, P)
  PROVE  Booked(i, rail, terms, F2, P2)
BY DEF Grows, Booked

LEMMA CallLasts ==
  ASSUME NEW r, NEW F, NEW P, NEW F2, NEW P2,
         Grows(F, P, F2, P2), CallSound(r, F, P)
  PROVE  CallSound(r, F2, P2)
<1>1. CASE r.pc = "idle"
  BY <1>1 DEF CallSound
<1>2. CASE r.pc # "idle"
  <2>1. r.id \in Ids
    BY <1>2 DEF CallSound
  <2>2. /\ F[r.id] # Nil => F2[r.id] = F[r.id]
        /\ P[r.id] # Nil => P2[r.id] # Nil
    BY <2>1 DEF Grows
  <2> QED BY <2>1, <2>2 DEF CallSound, Booked, Known
<1> QED BY <1>1, <1>2

(* A step that changes one call, and what is in the books only by adding   *)
(* to them.                                                                *)
LEMMA Update ==
  ASSUME Inv, NEW c \in Calls, NEW r \in CallRecord, Turns(c, r),
         CallSound(r, fiat', paykit'),
         UNCHANGED lock,
         fiat' \in [Ids -> Criteria \cup {Nil}], RowsFiat',
         paykit' \in [Ids -> Criteria \cup {Nil}],
         Grows(fiat, paykit, fiat', paykit'), UNCHANGED accepted
  PROVE  Inv'
<1>1. Types'
  BY DEF Inv, Types, Turns
<1>2. AcceptedBooked'
  BY BookedLasts DEF Inv, AcceptedBooked, Types
<1>3. \A d \in Calls : CallSound(request'[d], fiat', paykit')
  <2> TAKE d \in Calls
  <2>1. CASE d = c
    BY <2>1 DEF Inv, Types, Turns
  <2>2. CASE d # c
    <3>1. request'[d] = request[d] /\ CallSound(request[d], fiat, paykit)
      BY <2>2 DEF Inv, Types, Turns
    <3> QED BY <3>1, CallLasts
  <2> QED BY <2>1, <2>2
<1> QED BY <1>1, <1>2, <1>3 DEF Inv

(* A step that changes one call only. *)
LEMMA CallOnly ==
  ASSUME Inv, NEW c \in Calls, NEW r \in CallRecord, Turns(c, r),
         CallSound(r, fiat, paykit), UNCHANGED <<lock, fiat, paykit, accepted>>
  PROVE  Inv'
<1>1. /\ fiat' = fiat /\ paykit' = paykit /\ lock' = lock /\ accepted' = accepted
      /\ RowsFiat'
  BY DEF Inv, RowsFiat
<1>2. Grows(fiat, paykit, fiat', paykit')
  BY <1>1 DEF Grows
<1> QED BY <1>1, <1>2, Update DEF Inv, Types

LEMMA IdleCall == Unasked \in CallRecord /\ \A F, P : CallSound(Unasked, F, P)
BY DEF Unasked, CallRecord, Stages, Rails, Replies, CallSound

LEMMA CallFields ==
  ASSUME Inv, NEW c \in Calls
  PROVE  /\ request[c] \in CallRecord
         /\ CallSound(request[c], fiat, paykit)
         /\ ~AtStage(c, "idle") => request[c].id \in Ids
BY DEF Inv, Types, CallSound, AtStage

LEMMA ToIdle ==
  ASSUME Inv, NEW c \in Calls, Turns(c, Unasked),
         UNCHANGED <<lock, fiat, paykit, accepted>>
  PROVE  Inv'
BY CallOnly, IdleCall

(* An answer that says neither `accepted` nor `unknown` claims nothing. *)
LEMMA RepliedRecord ==
  ASSUME NEW r \in CallRecord, NEW reply \in Replies
  PROVE  [r EXCEPT !.pc = "answer", !.reply = reply] \in CallRecord
BY DEF CallRecord, Stages

LEMMA PlainReply ==
  ASSUME Inv, NEW c \in Calls, ~AtStage(c, "idle"),
         NEW reply \in {"error", "fiat", "paykit"}, Replied(c, reply),
         UNCHANGED <<lock, fiat, paykit, accepted>>
  PROVE  Inv'
<1> DEFINE r == [request[c] EXCEPT !.pc = "answer", !.reply = reply]
<1>1. reply \in Replies
  BY DEF Replies
<1>2. r \in CallRecord
  BY <1>1, CallFields, RepliedRecord
<1>3. /\ r.pc = "answer" /\ r.reply = reply /\ r.id = request[c].id
  BY CallFields DEF CallRecord
<1>4. request[c].id \in Ids
  BY CallFields
<1>5. CallSound(r, fiat, paykit)
  BY <1>3, <1>4 DEF CallSound
<1>6. Turns(c, r)
  BY DEF Replied
<1> QED BY <1>2, <1>5, <1>6, CallOnly

-----------------------------------------------------------------------------
(* The steps. *)

LEMMA InvoiceBeginSound ==
  ASSUME Inv, NEW c \in Calls, NEW i \in Ids, InvoiceBegin(c, i)
  PROVE  Inv'
<1> DEFINE r == [Unasked EXCEPT !.pc = "criterion", !.id = i]
<1>1. r \in CallRecord /\ r.pc = "criterion" /\ r.id = i
  BY DEF Unasked, CallRecord, Stages, Rails, Replies
<1>2. CallSound(r, fiat, paykit)
  BY <1>1 DEF CallSound
<1> QED BY <1>1, <1>2, CallOnly DEF InvoiceBegin

LEMMA StatusBeginSound ==
  ASSUME Inv, NEW c \in Calls, NEW i \in Ids, StatusBegin(c, i)
  PROVE  Inv'
<1> DEFINE r == [Unasked EXCEPT !.pc = "row", !.id = i, !.before = accepted[i]]
<1>1. accepted[i] \in SUBSET [rail : Rails, terms : Criteria \cup {Nil}]
  BY DEF Inv, Types
<1>2. r \in CallRecord /\ r.pc = "row" /\ r.id = i /\ r.before = accepted[i]
  BY <1>1 DEF Unasked, CallRecord, Stages, Rails, Replies
<1>3. accepted[i] # {} => Known(i, fiat, paykit)
  BY DEF Inv, AcceptedBooked, Booked, Known
<1>4. CallSound(r, fiat, paykit)
  BY <1>2, <1>3 DEF CallSound
<1> QED BY <1>2, <1>4, CallOnly DEF StatusBegin

LEMMA ReadCriterionSound ==
  ASSUME Inv, NEW c \in Calls, ReadCriterion(c)
  PROVE  Inv'
<1> DEFINE terms == Criterion(request[c].id)
<1>1. AtStage(c, "criterion") /\ ~AtStage(c, "idle") /\ UNCHANGED <<lock, fiat, paykit, accepted>>
  BY DEF ReadCriterion, AtStage
<1>2. /\ request[c] \in CallRecord /\ request[c].id \in Ids
      /\ terms \in Criteria \cup {Nil}
  BY <1>1, CallFields DEF Inv, Types, Criterion
<1> HIDE DEF terms
<1>3. CASE Turns(c, [request[c] EXCEPT !.pc = "forward", !.rail = "btc"])
  <2> DEFINE r == [request[c] EXCEPT !.pc = "forward", !.rail = "btc"]
  <2>1. r \in CallRecord /\ r.pc = "forward" /\ r.rail = "btc" /\ r.id = request[c].id
    BY <1>2 DEF CallRecord, Stages, Rails
  <2>2. CallSound(r, fiat, paykit)
    BY <1>2, <2>1 DEF CallSound
  <2> QED BY <1>1, <1>3, <2>1, <2>2, CallOnly
<1>4. CASE /\ terms # Nil /\ terms.asset # "BTC"
           /\ Turns(c, [request[c] EXCEPT !.pc = "insert", !.rail = "fiat", !.terms = terms])
  <2> DEFINE r == [request[c] EXCEPT !.pc = "insert", !.rail = "fiat", !.terms = terms]
  <2>1. /\ r \in CallRecord /\ r.pc = "insert" /\ r.rail = "fiat" /\ r.terms = terms
        /\ r.id = request[c].id
    BY <1>2 DEF CallRecord, Stages, Rails
  <2>2. CallSound(r, fiat, paykit)
    BY <1>2, <1>4, <2>1 DEF CallSound
  <2> QED BY <1>1, <1>4, <2>1, <2>2, CallOnly
<1>5. CASE Replied(c, "error")
  BY <1>1, <1>5, PlainReply
<1> QED BY <1>3, <1>4, <1>5 DEF ReadCriterion, terms

LEMMA InsertSound ==
  ASSUME Inv, NEW c \in Calls, Insert(c)
  PROVE  Inv'
<1> DEFINE i == request[c].id
           terms == request[c].terms
           r == [request[c] EXCEPT !.pc = "mint"]
           failed == [request[c] EXCEPT !.pc = "answer", !.reply = "error"]
<1>1. AtStage(c, "insert") /\ ~AtStage(c, "idle") /\ UNCHANGED <<lock, paykit, accepted>>
  BY DEF Insert, AtStage
<1>2. /\ request[c] \in CallRecord /\ i \in Ids
      /\ terms \in Criteria \cup {Nil} /\ terms # Nil /\ terms.asset # "BTC"
      /\ request[c].rail = "fiat"
  BY <1>1, CallFields DEF CallSound, AtStage, CallRecord
<1>3. /\ r \in CallRecord /\ r.pc = "mint" /\ r.id = i /\ r.terms = terms
      /\ r.rail = "fiat"
  BY <1>2 DEF CallRecord, Stages
<1>4. failed \in CallRecord /\ \A F, P : CallSound(failed, F, P)
  <2>1. failed \in CallRecord
    BY <1>2, RepliedRecord DEF Replies
  <2>2. failed.pc = "answer" /\ failed.reply = "error" /\ failed.id \in Ids
    BY <1>2 DEF CallRecord
  <2> QED BY <2>1, <2>2 DEF CallSound
<1>5. ASSUME fiat' = fiat \/ (fiat[i] = Nil /\ fiat' = Inserted(i, terms))
      PROVE  /\ fiat' \in [Ids -> Criteria \cup {Nil}] /\ RowsFiat'
             /\ Grows(fiat, paykit, fiat', paykit')
  <2>1. /\ fiat \in [Ids -> Criteria \cup {Nil}] /\ RowsFiat
        /\ paykit' = paykit
    BY <1>1 DEF Inv, Types
  <2>2. CASE fiat' = fiat
    BY <2>1, <2>2 DEF RowsFiat, Grows
  <2>3. CASE fiat[i] = Nil /\ fiat' = Inserted(i, terms)
    BY <1>2, <2>1, <2>3 DEF RowsFiat, Grows, Inserted
  <2> QED BY <1>5, <2>2, <2>3
<1>6. paykit' \in [Ids -> Criteria \cup {Nil}] /\ lock' = lock /\ accepted' = accepted
  BY <1>1 DEF Inv, Types
<1>7. CASE /\ \/ fiat[i] = Nil /\ fiat' = Inserted(i, terms)
              \/ fiat[i] = terms /\ UNCHANGED fiat
           /\ Goes(c, "mint")
  <2>1. fiat'[i] = terms
    BY <1>2, <1>7 DEF Inserted, Inv, Types
  <2>2. CallSound(r, fiat', paykit')
    BY <1>2, <1>3, <2>1 DEF CallSound
  <2>3. Turns(c, r)
    BY <1>7 DEF Goes
  <2>4. fiat' = fiat \/ (fiat[i] = Nil /\ fiat' = Inserted(i, terms))
    BY <1>7
  <2> HIDE DEF r
  <2> QED BY <1>3, <1>5, <1>6, <2>2, <2>3, <2>4, Update
<1>8. CASE /\ fiat' = fiat \/ (fiat[i] = Nil /\ fiat' = Inserted(i, terms))
           /\ Replied(c, "error")
  <2>1. Turns(c, failed)
    BY <1>8 DEF Replied
  <2> HIDE DEF failed
  <2> QED BY <1>4, <1>5, <1>6, <1>8, <2>1, Update
<1>9. \/ /\ \/ fiat[i] = Nil /\ fiat' = Inserted(i, terms)
            \/ fiat[i] = terms /\ UNCHANGED fiat
         /\ Goes(c, "mint")
      \/ /\ fiat' = fiat \/ (fiat[i] = Nil /\ fiat' = Inserted(i, terms))
         /\ Replied(c, "error")
  BY DEF Insert
<1> QED BY <1>7, <1>8, <1>9

LEMMA MintSound ==
  ASSUME Inv, NEW c \in Calls, Mint(c)
  PROVE  Inv'
<1>1. AtStage(c, "mint") /\ ~AtStage(c, "idle") /\ UNCHANGED <<lock, fiat, paykit, accepted>>
  BY DEF Mint, AtStage
<1>2. CASE Replied(c, "accepted")
  <2> DEFINE r == [request[c] EXCEPT !.pc = "answer", !.reply = "accepted"]
  <2>1. /\ request[c] \in CallRecord /\ request[c].id \in Ids /\ request[c].rail = "fiat"
        /\ request[c].terms # Nil /\ fiat[request[c].id] = request[c].terms
    BY <1>1, CallFields DEF CallSound, AtStage
  <2>2. r \in CallRecord
    BY <2>1, RepliedRecord DEF Replies
  <2>3. /\ r.pc = "answer" /\ r.reply = "accepted" /\ r.id = request[c].id
        /\ r.rail = "fiat" /\ r.terms = request[c].terms
    BY <2>1 DEF CallRecord
  <2>4. CallSound(r, fiat, paykit)
    BY <2>1, <2>3 DEF CallSound, Booked
  <2>5. Turns(c, r)
    BY <1>2 DEF Replied
  <2> QED BY <1>1, <2>2, <2>4, <2>5, CallOnly
<1>3. CASE Replied(c, "error")
  BY <1>1, <1>3, PlainReply
<1> QED BY <1>2, <1>3 DEF Mint

LEMMA ForwardSound ==
  ASSUME Inv, NEW c \in Calls, Forward(c)
  PROVE  Inv'
<1> DEFINE i == request[c].id
           terms == lock[i]
           r == [request[c] EXCEPT !.pc = "answer", !.terms = terms, !.reply = "accepted"]
           failed == [request[c] EXCEPT !.pc = "answer", !.reply = "error"]
<1>1. AtStage(c, "forward") /\ ~AtStage(c, "idle") /\ UNCHANGED <<lock, fiat, accepted>>
  BY DEF Forward, AtStage
<1>2. /\ request[c] \in CallRecord /\ i \in Ids
      /\ request[c].rail = "btc" /\ terms \in Criteria \cup {Nil}
  BY <1>1, CallFields DEF CallSound, AtStage, Inv, Types
<1>3. CASE UNCHANGED paykit /\ Replied(c, "error")
  BY <1>1, <1>3, PlainReply
<1>4. CASE /\ terms # Nil /\ paykit' = [paykit EXCEPT ![i] = terms]
           /\ Turns(c, r) \/ Replied(c, "error")
  <2>1. /\ paykit' \in [Ids -> Criteria \cup {Nil}] /\ paykit'[i] # Nil
        /\ Grows(fiat, paykit, fiat', paykit')
    BY <1>1, <1>2, <1>4 DEF Inv, Types, Grows
  <2>2. fiat' \in [Ids -> Criteria \cup {Nil}] /\ RowsFiat' /\ fiat' = fiat
        /\ lock' = lock /\ accepted' = accepted
    BY <1>1 DEF Inv, Types, RowsFiat
  <2>3. CASE Turns(c, r)
    <3>1. r \in CallRecord
      BY <1>2 DEF CallRecord, Stages, Replies
    <3>2. r.pc = "answer" /\ r.reply = "accepted" /\ r.id = i /\ r.rail = "btc"
      BY <1>2 DEF CallRecord
    <3>3. CallSound(r, fiat', paykit')
      BY <1>2, <2>1, <3>2 DEF CallSound, Booked
    <3> HIDE DEF r
    <3> QED BY <2>1, <2>2, <2>3, <3>1, <3>3, Update
  <2>4. CASE Replied(c, "error")
    <3>1. failed \in CallRecord
      BY <1>2, RepliedRecord DEF Replies
    <3>2. failed.pc = "answer" /\ failed.reply = "error" /\ failed.id = i
      BY <1>2 DEF CallRecord
    <3>3. CallSound(failed, fiat', paykit')
      BY <1>2, <3>2 DEF CallSound
    <3>4. Turns(c, failed)
      BY <2>4 DEF Replied
    <3> HIDE DEF failed
    <3> QED BY <2>1, <2>2, <3>1, <3>3, <3>4, Update
  <2> QED BY <1>4, <2>3, <2>4
<1>5. \/ UNCHANGED paykit /\ Replied(c, "error")
      \/ /\ terms # Nil /\ paykit' = [paykit EXCEPT ![i] = terms]
         /\ Turns(c, r) \/ Replied(c, "error")
  BY DEF Forward
<1> QED BY <1>3, <1>4, <1>5

(* A row answers for itself.  Without one, what had been accepted before   *)
(* was accepted by the Paykit Server.                                      *)
LEMMA StatusRowSound ==
  ASSUME Inv, NEW c \in Calls, StatusRow(c)
  PROVE  Inv'
<1> DEFINE row == fiat[request[c].id]
           r == [request[c] EXCEPT !.pc = "ask"]
<1>1. AtStage(c, "row") /\ ~AtStage(c, "idle") /\ UNCHANGED <<lock, fiat, paykit, accepted>>
  BY DEF StatusRow, AtStage
<1>2. request[c] \in CallRecord /\ request[c].id \in Ids
  BY <1>1, CallFields
<1>3. CASE (row # Nil => row.asset = "BTC") /\ Goes(c, "ask")
  <2>1. row = Nil
    BY <1>2, <1>3 DEF Inv, RowsFiat
  <2>2. request[c].before # {} => paykit[request[c].id] # Nil
    BY <1>1, <2>1, CallFields DEF CallSound, AtStage, Known
  <2>3. /\ r \in CallRecord /\ r.pc = "ask" /\ r.id = request[c].id
        /\ r.before = request[c].before
    BY <1>2 DEF CallRecord, Stages
  <2>4. CallSound(r, fiat, paykit)
    BY <1>2, <2>2, <2>3 DEF CallSound
  <2>5. Turns(c, r)
    BY <1>3 DEF Goes
  <2> QED BY <1>1, <2>3, <2>4, <2>5, CallOnly
<1>4. CASE Replied(c, "fiat") \/ Replied(c, "error")
  BY <1>1, <1>4, PlainReply
<1> QED BY <1>3, <1>4 DEF StatusRow

LEMMA StatusAskSound ==
  ASSUME Inv, NEW c \in Calls, StatusAsk(c)
  PROVE  Inv'
<1> DEFINE r == [request[c] EXCEPT !.pc = "answer", !.reply = "unknown"]
<1>1. AtStage(c, "ask") /\ ~AtStage(c, "idle") /\ UNCHANGED <<lock, fiat, paykit, accepted>>
  BY DEF StatusAsk, AtStage
<1>2. CASE paykit[request[c].id] = Nil /\ Replied(c, "unknown")
  <2>1. /\ request[c] \in CallRecord /\ request[c].id \in Ids /\ request[c].before = {}
    BY <1>1, <1>2, CallFields DEF CallSound, AtStage
  <2>2. r \in CallRecord
    BY <2>1, RepliedRecord DEF Replies
  <2>3. /\ r.pc = "answer" /\ r.reply = "unknown" /\ r.id = request[c].id /\ r.before = {}
    BY <2>1 DEF CallRecord
  <2>4. CallSound(r, fiat, paykit)
    BY <2>1, <2>3 DEF CallSound
  <2>5. Turns(c, r)
    BY <1>2 DEF Replied
  <2> QED BY <1>1, <2>2, <2>4, <2>5, CallOnly
<1>3. CASE Replied(c, "paykit") \/ Replied(c, "error")
  BY <1>1, <1>3, PlainReply
<1> QED BY <1>2, <1>3 DEF StatusAsk

(* What the Lock Server is told was accepted is in the books by then.      *)
LEMMA AnswerSound ==
  ASSUME Inv, NEW c \in Calls, Answer(c)
  PROVE  Inv'
<1> DEFINE r == request[c]
           told == [rail |-> r.rail, terms |-> r.terms]
<1>1. /\ AtStage(c, "answer") /\ ~AtStage(c, "idle") /\ Turns(c, Unasked)
      /\ lock' = lock /\ fiat' = fiat /\ paykit' = paykit
  BY DEF Answer, AtStage
<1>2. CASE r.reply = "accepted"
  <2>1. accepted' = [accepted EXCEPT ![r.id] = @ \cup {told}]
    BY <1>2 DEF Answer
  <2>2. /\ r.id \in Ids /\ Booked(r.id, r.rail, r.terms, fiat, paykit)
        /\ told \in [rail : Rails, terms : Criteria \cup {Nil}]
        /\ told.rail = r.rail /\ told.terms = r.terms
    BY <1>1, <1>2, CallFields DEF CallSound, AtStage, CallRecord
  <2>3. /\ accepted \in [Ids -> SUBSET [rail : Rails, terms : Criteria \cup {Nil}]]
        /\ AcceptedBooked
    BY DEF Inv, Types
  <2> HIDE DEF told, r
  <2>4. accepted' \in [Ids -> SUBSET [rail : Rails, terms : Criteria \cup {Nil}]]
    BY <2>1, <2>2, <2>3
  <2>5. AcceptedBooked'
    <3> SUFFICES ASSUME NEW i \in Ids, NEW a \in accepted'[i]
                 PROVE  Booked(i, a.rail, a.terms, fiat, paykit)
      BY <1>1 DEF AcceptedBooked
    <3>1. CASE a \in accepted[i]
      BY <2>3, <3>1 DEF AcceptedBooked
    <3>2. CASE a \notin accepted[i]
      <4>1. i = r.id /\ a = told
        BY <2>1, <2>2, <2>3, <3>2
      <4> QED BY <2>2, <4>1
    <3> QED BY <3>1, <3>2
  <2>6. Types' /\ RowsFiat'
    BY <1>1, <2>4, IdleCall DEF Inv, Types, RowsFiat, Turns
  <2>7. \A d \in Calls : CallSound(request'[d], fiat', paykit')
    BY <1>1, IdleCall DEF Inv, Types, Turns
  <2> QED BY <2>5, <2>6, <2>7 DEF Inv
<1>3. CASE r.reply # "accepted"
  <2>1. accepted' = accepted
    BY <1>3 DEF Answer
  <2> QED BY <1>1, <2>1, ToIdle
<1> QED BY <1>2, <1>3

(* A restart forgets the calls, not the books; an edit changes neither.    *)
LEMMA RestartSound ==
  ASSUME Inv, Restart
  PROVE  Inv'
<1>1. /\ request' = [c \in Calls |-> Unasked]
      /\ lock' = lock /\ fiat' = fiat /\ paykit' = paykit /\ accepted' = accepted
  BY DEF Restart
<1> QED BY <1>1, IdleCall DEF Inv, Types, RowsFiat, AcceptedBooked

LEMMA EditSound ==
  ASSUME Inv, NEW i \in Ids, Edit(i)
  PROVE  Inv'
<1>1. /\ lock' \in [Ids -> Criteria \cup {Nil}]
      /\ request' = request /\ fiat' = fiat /\ paykit' = paykit /\ accepted' = accepted
  BY DEF Edit, Inv, Types
<1> QED BY <1>1 DEF Inv, Types, RowsFiat, AcceptedBooked

LEMMA StepSound ==
  ASSUME Inv, NEW c \in Calls, CallStep(c)
  PROVE  Inv'
<1>1. CASE \E i \in Ids : InvoiceBegin(c, i) \/ StatusBegin(c, i)
  BY <1>1, InvoiceBeginSound, StatusBeginSound
<1>2. CASE Lose(c)
  BY <1>2, ToIdle DEF Lose
<1> QED
  BY <1>1, <1>2, ReadCriterionSound, InsertSound, MintSound, ForwardSound,
     StatusRowSound, StatusAskSound, AnswerSound DEF CallStep

LEMMA NextSound == Inv /\ [DispatchNext]_dvars => Inv'
<1> SUFFICES ASSUME Inv, [DispatchNext]_dvars PROVE Inv'
  OBVIOUS
<1>1. CASE UNCHANGED dvars
  BY <1>1 DEF dvars, Inv, Types, RowsFiat, AcceptedBooked
<1>2. CASE DispatchNext
  BY <1>2, StepSound, RestartSound, EditSound DEF DispatchNext
<1> QED BY <1>1, <1>2

LEMMA InitSound == DispatchInit => Inv
<1> SUFFICES ASSUME DispatchInit PROVE Inv
  OBVIOUS
<1>1. Types
  BY IdleCall DEF DispatchInit, Types
<1>2. RowsFiat /\ AcceptedBooked
  BY DEF DispatchInit, RowsFiat, AcceptedBooked
<1>3. \A c \in Calls : CallSound(request[c], fiat, paykit)
  BY IdleCall DEF DispatchInit
<1> QED BY <1>1, <1>2, <1>3 DEF Inv

LEMMA Always == DispatchSpec => []Inv
BY InitSound, NextSound, PTL DEF DispatchSpec

-----------------------------------------------------------------------------
(* An invoice the Lock Server was told is accepted is never unknown to a   *)
(* status call made after that, through any edits, faults and restarts     *)
(* (transaction_status looks at the row before it asks the Paykit Server). *)
THEOREM Remembered == DispatchSpec => []NeverForgotten
<1>1. Inv => NeverForgotten
  BY DEF Inv, CallSound, NeverForgotten, AtStage
<1> QED BY <1>1, Always, PTL

(* What was accepted on the fiat rail is what the row says, whatever the   *)
(* lock said to the calls that raced it (insert_new).                      *)
THEOREM BoundAsAccepted == DispatchSpec => []AcceptedAsBound
<1>1. Inv => AcceptedAsBound
  BY DEF Inv, AcceptedBooked, Booked, AcceptedAsBound
<1> QED BY <1>1, Always, PTL

-----------------------------------------------------------------------------
(* The configuration. *)

(* Either one processor is configured, or the one named is. *)
LEMMA DefaultConfigured ==
  ASSUME NEW env \in Env, Boots(env), Configured(env) # {}
  PROVE  Default(env) \in Configured(env)
<1> DEFINE some == Configured(env)
<1>1. some \subseteq {"stripe", "paypal"}
  BY DEF Configured, Processors
<1>2. CASE Sole(some) # {}
  <2>1. Sole(some) = some
    BY <1>2 DEF Sole
  <2>2. Default(env) = CHOOSE k \in some : TRUE
    BY <1>2, <2>1 DEF Default
  <2> QED BY <1>2, <2>1, <2>2
<1>3. CASE Sole(some) = {}
  <2>1. Default(env) = env.default
    BY <1>3 DEF Default
  <2>2. \A k \in {"stripe", "paypal"} : some # {k}
    BY <1>3, FS_Singleton DEF Sole
  <2>3. some = {"stripe", "paypal"}
    BY <1>1, <2>2
  <2> QED BY <2>1, <2>3 DEF Boots, Processors
<1> QED BY <1>2, <1>3

ConfInv == \E env \in Env : Boots(env) /\ conf = Loaded(env)

(* A checkout that names no processor has one to go to, whatever           *)
(* FIAT_DEFAULT_PROCESSOR says (main.rs, default_processor).               *)
THEOREM DefaultThere == DispatchSpec => []DefaultUsable
<1>1. DispatchInit => ConfInv
  BY DEF DispatchInit, ConfInv
<1>2. ConfInv /\ [DispatchNext]_dvars => ConfInv'
  <2> SUFFICES ASSUME ConfInv, [DispatchNext]_dvars PROVE ConfInv'
    OBVIOUS
  <2>1. conf' = conf \/ \E env \in Env : Boots(env) /\ conf' = Loaded(env)
    BY DEF DispatchNext, CallStep, InvoiceBegin, StatusBegin, ReadCriterion, Insert, Mint,
           Forward, StatusRow, StatusAsk, Answer, Lose, Restart, Edit, dvars
  <2> QED BY <2>1 DEF ConfInv
<1>3. ConfInv => DefaultUsable
  <2> SUFFICES ASSUME NEW env \in Env, Boots(env), conf = Loaded(env)
               PROVE  DefaultUsable
    BY DEF ConfInv
  <2>1. conf.processors = Configured(env) /\ conf.default = Default(env)
    BY DEF Loaded
  <2> QED BY <2>1, DefaultConfigured DEF DefaultUsable
<1> QED BY <1>1, <1>2, <1>3, PTL DEF DispatchSpec
=============================================================================
