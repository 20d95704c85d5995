------------------------ MODULE PaypalClient_proofs ------------------------
(***************************************************************************)
(* A cached token outlives the slack and a new one its lifetime, for any   *)
(* number of callers, any slack and any lifetimes; nobody fetches one      *)
(* without need; and the two conversions of PayPal's amounts are right for *)
(* every amount and every decimal, not only for those a model checker can  *)
(* list.                                                                   *)
(*                                                                         *)
(* The reason for the first is the order of things in access_token: the    *)
(* clock is read before the wait, so what is recorded as a token's expiry  *)
(* is never later than the real one, however long the wait and the request *)
(* took.  The second is the mutex's doing (MutexInv): only who is first in *)
(* the queue renews, and it holds exactly those who wait or renew.         *)
(***************************************************************************)
EXTENDS PaypalClient, TLAPS

(* What a caller has in hand is as good as its own clock says. *)
Sound(r, time) ==
  /\ r.now <= time
  /\ r.pc = "fetched" =>
       r.token \in Nat /\ r.life \in Nat /\ r.token >= r.now + r.life
  /\ r.pc = "calling" =>
       /\ r.token \in Nat
       /\ r.life = None => r.token > r.now + Slack
       /\ r.life # None => r.token >= r.now + r.life

(* The mutex plays no part in it. *)
ClientInv ==
  /\ now \in Nat
  /\ cache \in Token \cup {None}
  /\ cache # None => cache.until <= cache.expires
  /\ call \in [Callers -> Call]
  /\ \A c \in Callers : Sound(call[c], now)

LEMMA IdleCall ==
  ASSUME now \in Nat
  PROVE  Idle \in Call /\ Sound(Idle, now)
BY SMT DEF Idle, Doing, Call, Points, Sound

-----------------------------------------------------------------------------
(* A step that changes one call, and not the clock. *)
LEMMA Update ==
  ASSUME ClientInv, NEW c \in Callers, NEW r \in Call, Sound(r, now),
         Becomes(c, r), now' = now,
         cache' \in Token \cup {None},
         cache' # None => cache'.until <= cache'.expires
  PROVE  ClientInv'
<1>1. call' \in [Callers -> Call]
  BY DEF ClientInv, Becomes
<1>2. \A d \in Callers : Sound(call'[d], now')
  <2> SUFFICES ASSUME NEW d \in Callers PROVE Sound(call'[d], now')
    OBVIOUS
  <2>1. CASE d = c
    BY <2>1 DEF ClientInv, Becomes
  <2>2. CASE d # c
    BY <2>2 DEF ClientInv, Becomes
  <2> QED BY <2>1, <2>2
<1> QED BY <1>1, <1>2 DEF ClientInv

LEMMA ToIdle ==
  ASSUME ClientInv, NEW c \in Callers, Becomes(c, Idle), UNCHANGED <<now, cache>>
  PROVE  ClientInv'
<1>1. Idle \in Call /\ Sound(Idle, now)
  BY IdleCall DEF ClientInv
<1> QED BY <1>1, Update DEF ClientInv

LEMMA CallFields ==
  ASSUME ClientInv, NEW c \in Callers
  PROVE  /\ call[c] \in Call
         /\ call[c].pc \in Points /\ call[c].now \in Nat
         /\ call[c].token \in Nat \cup {None} /\ call[c].life \in Nat \cup {None}
         /\ call[c].now <= now
BY DEF ClientInv, Call, Sound

(* A call that goes on and keeps what it has. *)
LEMMA Moved ==
  ASSUME NEW r \in Call, NEW p \in Points
  PROVE  /\ [r EXCEPT !.pc = p] \in Call
         /\ [r EXCEPT !.pc = p].pc = p
         /\ [r EXCEPT !.pc = p].now = r.now
         /\ [r EXCEPT !.pc = p].token = r.token
         /\ [r EXCEPT !.pc = p].life = r.life
BY DEF Call

LEMMA BeginSound ==
  ASSUME ClientInv, NEW c \in Callers, Begin(c)
  PROVE  ClientInv'
<1> DEFINE r == Doing("waiting", now, None, None)
<1>1. now \in Nat
  BY DEF ClientInv
<1>2. "waiting" \in Points
  BY DEF Points
<1>3. r \in Call /\ r.pc = "waiting" /\ r.now = now
  <2>1. None \in Nat \cup {None}
    OBVIOUS
  <2> QED BY <1>1, <1>2, <2>1, SMT DEF Doing, Call
<1>4. Becomes(c, r) /\ now' = now /\ cache' = cache
  BY DEF Begin
<1> HIDE DEF r
<1>5. Sound(r, now)
  BY <1>1, <1>3, SMT DEF Sound
<1> QED BY <1>3, <1>4, <1>5, Update DEF ClientInv

LEMMA AcquireSound ==
  ASSUME ClientInv, NEW c \in Callers, Acquire(c)
  PROVE  ClientInv'
<1>1. now' = now /\ cache' = cache
  BY DEF Acquire
<1>2. CASE Fresh(c) /\ Becomes(c, Doing("calling", call[c].now, cache.expires, None))
  <2> DEFINE r == Doing("calling", call[c].now, cache.expires, None)
  <2>2. /\ cache.expires \in Nat /\ cache.until \in Nat
        /\ cache.until <= cache.expires /\ cache.until > call[c].now + Slack
    BY <1>2 DEF Fresh, ClientInv, Token
  <2>1. "calling" \in Points
    BY DEF Points
  <2>3. /\ r \in Call /\ r.pc = "calling" /\ r.now = call[c].now
        /\ r.token = cache.expires /\ r.life = None
    <3>1. cache.expires \in Nat \cup {None} /\ None \in Nat \cup {None} /\ call[c] \in Call
      BY <2>2, CallFields
    <3> QED BY <2>1, <3>1, CallFields, SMT DEF Doing, Call
  <2> HIDE DEF r
  <2>4. Sound(r, now)
    BY <2>2, <2>3, CallFields, SlackAssumption, SMT DEF Sound
  <2> QED BY <1>1, <1>2, <2>3, <2>4, Update DEF ClientInv, r
<1>3. CASE Becomes(c, [call[c] EXCEPT !.pc = "fetching"])
  <2> DEFINE r == [call[c] EXCEPT !.pc = "fetching"]
  <2>1. "fetching" \in Points
    BY DEF Points
  <2>2. r \in Call /\ r.pc = "fetching" /\ r.now = call[c].now
    BY <2>1, CallFields, Moved
  <2> HIDE DEF r
  <2>3. Sound(r, now)
    BY <2>2, CallFields, SMT DEF Sound
  <2> QED BY <1>1, <1>3, <2>2, <2>3, Update DEF ClientInv, r
<1> QED BY <1>2, <1>3 DEF Acquire

LEMMA IssueSound ==
  ASSUME ClientInv, NEW c \in Callers, Issue(c)
  PROVE  ClientInv'
<1>1. PICK life \in Lifetimes :
        Becomes(c, Doing("fetched", call[c].now, now + life, life))
  BY DEF Issue
<1>2. now' = now /\ cache' = cache
  BY DEF Issue
<1> DEFINE r == Doing("fetched", call[c].now, now + life, life)
<1>4. life \in Nat /\ now \in Nat
  BY LifetimesAssumption DEF ClientInv
<1>5. /\ "fetched" \in Points /\ now + life \in Nat \cup {None}
      /\ call[c] \in Call /\ life \in Nat \cup {None}
  BY <1>4, CallFields DEF Points
<1>6. /\ r \in Call /\ r.pc = "fetched" /\ r.now = call[c].now
      /\ r.token = now + life /\ r.life = life
  BY <1>5, CallFields, SMT DEF Doing, Call
<1> HIDE DEF r
<1>7. Sound(r, now)
  BY <1>4, <1>6, CallFields, SMT DEF Sound
<1> QED BY <1>1, <1>2, <1>6, <1>7, Update DEF ClientInv, r

(* The recorded expiry counts from the caller's earlier clock. *)
LEMMA StoreSound ==
  ASSUME ClientInv, NEW c \in Callers, Store(c)
  PROVE  ClientInv'
<1> DEFINE r == [call[c] EXCEPT !.pc = "calling"]
           new == [expires |-> call[c].token, until |-> call[c].now + call[c].life]
<1>1. /\ r \in Call /\ r.pc = "calling" /\ r.now = call[c].now
      /\ r.token = call[c].token /\ r.life = call[c].life
  <2>1. "calling" \in Points
    BY DEF Points
  <2> QED BY <2>1, CallFields, Moved
<1>2. /\ call[c].token \in Nat /\ call[c].life \in Nat
      /\ call[c].token >= call[c].now + call[c].life
  BY DEF ClientInv, Sound, Store, At
<1>5. Becomes(c, r) /\ now' = now /\ cache' = new
  BY DEF Store
<1> HIDE DEF r
<1>3. Sound(r, now)
  BY <1>1, <1>2, CallFields, NoAmountAssumption, SMT DEF Sound
<1>4. new \in Token /\ new.until <= new.expires
  <2>1. call[c].now + call[c].life \in Nat
    BY <1>2, CallFields
  <2>2. new.expires = call[c].token /\ new.until = call[c].now + call[c].life
    OBVIOUS
  <2> QED BY <1>2, <2>1, <2>2 DEF Token
<1> HIDE DEF new
<1> QED BY <1>1, <1>3, <1>4, <1>5, Update

LEMMA TickSound ==
  ASSUME ClientInv, ClientTick
  PROVE  ClientInv'
<1>1. now \in Nat /\ now' = now + 1 /\ UNCHANGED <<cache, call>>
  BY DEF ClientInv, ClientTick
<1>2. \A c \in Callers : Sound(call[c], now')
  <2> SUFFICES ASSUME NEW c \in Callers PROVE Sound(call[c], now')
    OBVIOUS
  <2>1. call[c].now \in Nat /\ call[c].now <= now /\ Sound(call[c], now)
    BY CallFields DEF ClientInv
  <2>2. call[c].now <= now'
    BY <1>1, <2>1, SMT
  <2> QED BY <2>1, <2>2 DEF Sound
<1>3. now' \in Nat
  BY <1>1
<1> QED BY <1>1, <1>2, <1>3 DEF ClientInv

LEMMA StepSound ==
  ASSUME ClientInv, NEW c \in Callers, ClientStep(c)
  PROVE  ClientInv'
<1>1. CASE Begin(c) BY <1>1, BeginSound
<1>2. CASE Acquire(c) BY <1>2, AcquireSound
<1>3. CASE Issue(c) BY <1>3, IssueSound
<1>4. CASE Store(c) BY <1>4, StoreSound
<1>5. CASE FetchFails(c) BY <1>5, ToIdle DEF FetchFails
<1>6. CASE Return(c) BY <1>6, ToIdle DEF Return
<1>7. CASE Drop(c) BY <1>7, ToIdle DEF Drop
<1> QED BY <1>1, <1>2, <1>3, <1>4, <1>5, <1>6, <1>7 DEF ClientStep, Proceed

-----------------------------------------------------------------------------
(* The mutex: its queue names every caller that waits or renews, once, and *)
(* only the first of them renews.                                          *)

Distinct == \A j, k \in 1..Len(queue) : queue[j] = queue[k] => j = k

MutexInv ==
  /\ queue \in Seq(Callers)
  /\ Distinct
  /\ \A c \in Callers : Queued(c) <=> ~(At(c, "idle") \/ At(c, "calling"))
  /\ \A c \in Callers : At(c, "fetching") \/ At(c, "fetched") => Holds(c)

LEMMA HeadIsFirst ==
  ASSUME queue \in Seq(Callers), NEW c \in Callers
  PROVE  Holds(c) <=> Len(queue) >= 1 /\ queue[1] = c
BY SMT DEF Holds

(* One who leaves the queue leaves the others in their order.              *)
LEMMA Released ==
  ASSUME queue \in Seq(Callers), Distinct, NEW c \in Callers, Release(c)
  PROVE  /\ queue' \in Seq(Callers) /\ Distinct'
         /\ \A d \in Callers : Queued(d)' <=> Queued(d) /\ d # c
         /\ \A d \in Callers : d # c /\ Holds(d) => Holds(d)'
<1>1. CASE ~Queued(c) /\ UNCHANGED queue
  BY <1>1 DEF Distinct, Queued, Holds
<1>2. CASE \E k \in 1..Len(queue) :
             /\ queue[k] = c
             /\ queue' = [j \in 1..(Len(queue) - 1) |-> queue[IF j < k THEN j ELSE j + 1]]
  <2>1. PICK k \in 1..Len(queue) :
             /\ queue[k] = c
             /\ queue' = [j \in 1..(Len(queue) - 1) |-> queue[IF j < k THEN j ELSE j + 1]]
    BY <1>2
  <2>2. Len(queue) \in Nat /\ \A j \in 1..Len(queue) : queue[j] \in Callers
    OBVIOUS
  <2>3. queue' \in Seq(Callers) /\ Len(queue') = Len(queue) - 1
    <3>1. \A j \in 1..(Len(queue) - 1) : queue[IF j < k THEN j ELSE j + 1] \in Callers
      BY <2>2
    <3> DEFINE n == Len(queue) - 1
               q == [j \in 1..n |-> queue[IF j < k THEN j ELSE j + 1]]
    <3>2. n \in Nat
      BY <2>2
    <3>3. q \in [1..n -> Callers]
      BY <3>1
    <3> HIDE DEF q, n
    <3>4. q \in Seq(Callers) /\ Len(q) = n
      BY <3>2, <3>3
    <3> QED BY <2>1, <3>4 DEF q, n
  <2>4. \A j \in 1..Len(queue') : queue'[j] = queue[IF j < k THEN j ELSE j + 1]
    BY <2>1, <2>3
  <2>5. Distinct'
    BY <2>2, <2>3, <2>4 DEF Distinct
  <2>6. ASSUME NEW d \in Callers
        PROVE  Queued(d)' <=> Queued(d) /\ d # c
    <3>1. ASSUME NEW j \in 1..Len(queue'), queue'[j] = d
          PROVE  Queued(d) /\ d # c
      <4>1. (IF j < k THEN j ELSE j + 1) \in 1..Len(queue) /\ (IF j < k THEN j ELSE j + 1) # k
        BY <2>2, <2>3
      <4> QED BY <2>1, <2>4, <3>1, <4>1 DEF Queued, Distinct
    <3>2. ASSUME NEW j \in 1..Len(queue), queue[j] = d, d # c
          PROVE  Queued(d)'
      <4>1. CASE j < k
        <5>1. j \in 1..Len(queue') /\ queue'[j] = d
          BY <2>2, <2>3, <2>4, <3>2, <4>1
        <5> QED BY <5>1 DEF Queued
      <4>2. CASE ~(j < k)
        <5>1. j # k
          BY <2>1, <3>2
        <5>2. j - 1 \in 1..Len(queue') /\ ~(j - 1 < k) /\ (j - 1) + 1 = j
          BY <2>2, <2>3, <4>2, <5>1
        <5>3. queue'[j - 1] = d
          BY <2>4, <3>2, <5>2
        <5> QED BY <5>2, <5>3 DEF Queued
      <4> QED BY <4>1, <4>2
    <3> QED BY <3>1, <3>2 DEF Queued
  <2>7. ASSUME NEW d \in Callers, d # c, Len(queue) >= 1, queue[1] = d
        PROVE  Len(queue') >= 1 /\ queue'[1] = d
    <3>1. k # 1
      BY <2>1, <2>7
    <3> QED BY <2>2, <2>3, <2>4, <2>7, <3>1
  <2>8. ASSUME NEW d \in Callers, d # c, Holds(d)
        PROVE  Holds(d)'
    <3>1. Len(queue) >= 1 /\ queue[1] = d
      BY <2>8, HeadIsFirst
    <3>2. Len(queue') >= 1 /\ queue'[1] = d
      BY <2>7, <2>8, <3>1
    <3> QED BY <2>3, <3>2, SMT DEF Holds
  <2> QED BY <2>3, <2>5, <2>6, <2>8
<1> QED BY <1>1, <1>2 DEF Release

(* What a caller's step leaves of the others.                              *)
LEMMA Others ==
  ASSUME ClientInv, NEW c \in Callers, NEW r, Becomes(c, r)
  PROVE  /\ call'[c] = r
         /\ \A d \in Callers : d # c => call'[d] = call[d]
BY DEF ClientInv, Becomes

LEMMA Stays ==
  ASSUME ClientInv, MutexInv, NEW c \in Callers, NEW r, Becomes(c, r), UNCHANGED queue,
         Queued(c) <=> r.pc \notin {"idle", "calling"},
         r.pc \in {"fetching", "fetched"} => Holds(c)
  PROVE  MutexInv'
<1>1. \A d \in Callers : Queued(d)' = Queued(d) /\ Holds(d)' = Holds(d)
  BY DEF Queued, Holds
<1>2. queue' \in Seq(Callers) /\ Distinct'
  BY DEF MutexInv, Distinct
<1>3. ASSUME NEW d \in Callers
      PROVE  /\ Queued(d)' <=> ~(At(d, "idle") \/ At(d, "calling"))'
             /\ (At(d, "fetching") \/ At(d, "fetched"))' => Holds(d)'
  <2>1. CASE d = c
    BY <1>1, <2>1, Others DEF At
  <2>2. CASE d # c
    BY <1>1, <2>2, Others DEF At, MutexInv
  <2> QED BY <2>1, <2>2
<1> QED BY <1>2, <1>3 DEF MutexInv

LEMMA Leaves ==
  ASSUME ClientInv, MutexInv, NEW c \in Callers, NEW r, Becomes(c, r), Release(c),
         r.pc \in {"idle", "calling"}
  PROVE  MutexInv'
<1>1. queue \in Seq(Callers) /\ Distinct
  BY DEF MutexInv
<1>2. queue' \in Seq(Callers) /\ Distinct'
  BY <1>1, Released
<1>3. ASSUME NEW d \in Callers
      PROVE  /\ Queued(d)' <=> ~(At(d, "idle") \/ At(d, "calling"))'
             /\ (At(d, "fetching") \/ At(d, "fetched"))' => Holds(d)'
  <2>1. Queued(d)' <=> Queued(d) /\ d # c
    BY <1>1, Released
  <2>2. d # c /\ Holds(d) => Holds(d)'
    BY <1>1, Released
  <2>3. CASE d = c
    BY <2>1, <2>3, Others DEF At
  <2>4. CASE d # c
    BY <2>1, <2>2, <2>4, Others DEF At, MutexInv
  <2> QED BY <2>3, <2>4
<1> QED BY <1>2, <1>3 DEF MutexInv

LEMMA Joins ==
  ASSUME ClientInv, MutexInv, NEW c \in Callers, Begin(c)
  PROVE  MutexInv'
<1> DEFINE r == Doing("waiting", now, None, None)
<1>1. Becomes(c, r) /\ r.pc = "waiting" /\ queue' = Append(queue, c) /\ ~Queued(c)
  BY DEF Begin, Doing, MutexInv
<1>2. /\ queue \in Seq(Callers) /\ Len(queue) \in Nat /\ Distinct
      /\ \A k \in 1..Len(queue) : queue[k] # c
  BY <1>1 DEF MutexInv, Queued
<1>3. /\ queue' \in Seq(Callers) /\ Len(queue') = Len(queue) + 1
      /\ queue'[Len(queue) + 1] = c
      /\ \A k \in 1..Len(queue) : queue'[k] = queue[k]
  BY <1>1, <1>2
<1>4. \A k \in 1..Len(queue') : k \in 1..Len(queue) \/ k = Len(queue) + 1
  BY <1>2, <1>3
<1>5. Distinct'
  BY <1>2, <1>3, <1>4 DEF Distinct
<1>6. ASSUME NEW d \in Callers
      PROVE  /\ Queued(d)' <=> Queued(d) \/ d = c
             /\ Holds(d) => Holds(d)'
  <2>1. Queued(d)' <=> Queued(d) \/ d = c
    <3>1. \A k \in 1..Len(queue) : k \in 1..Len(queue')
      BY <1>2, <1>3
    <3>2. Len(queue) + 1 \in 1..Len(queue')
      BY <1>2, <1>3
    <3> QED BY <1>3, <1>4, <3>1, <3>2 DEF Queued
  <2>2. Holds(d) => Holds(d)'
    <3>1. SUFFICES ASSUME Holds(d) PROVE Holds(d)'
      OBVIOUS
    <3>2. Len(queue) >= 1 /\ queue[1] = d
      BY <1>2, <3>1, HeadIsFirst
    <3>3. Len(queue') >= 1 /\ queue'[1] = d
      BY <1>2, <1>3, <3>2
    <3> QED BY <1>3, <3>3, SMT DEF Holds
  <2> QED BY <2>1, <2>2
<1>7. ASSUME NEW d \in Callers
      PROVE  /\ Queued(d)' <=> ~(At(d, "idle") \/ At(d, "calling"))'
             /\ (At(d, "fetching") \/ At(d, "fetched"))' => Holds(d)'
  <2>1. CASE d = c
    BY <1>1, <1>6, <2>1, Others DEF At
  <2>2. CASE d # c
    BY <1>1, <1>6, <2>2, Others DEF At, MutexInv
  <2> QED BY <2>1, <2>2
<1> QED BY <1>3, <1>5, <1>7 DEF MutexInv

LEMMA MutexStep ==
  ASSUME ClientInv, MutexInv, NEW c \in Callers, ClientStep(c)
  PROVE  MutexInv'
<1>1. CASE Begin(c)
  BY <1>1, Joins
<1>2. CASE Acquire(c)
  <2>1. CASE Becomes(c, Doing("calling", call[c].now, cache.expires, None)) /\ Release(c)
    <3>1. Doing("calling", call[c].now, cache.expires, None).pc = "calling"
      BY DEF Doing
    <3> QED BY <2>1, <3>1, Leaves
  <2>2. CASE Becomes(c, [call[c] EXCEPT !.pc = "fetching"]) /\ UNCHANGED queue
    <3>1. [call[c] EXCEPT !.pc = "fetching"].pc = "fetching"
      BY CallFields DEF Call
    <3>2. Holds(c) /\ Queued(c)
      BY <1>2 DEF Acquire, At, MutexInv
    <3> QED BY <2>2, <3>1, <3>2, Stays
  <2> QED BY <1>2, <2>1, <2>2 DEF Acquire
<1>3. CASE Issue(c)
  <2>1. PICK life \in Lifetimes :
          Becomes(c, Doing("fetched", call[c].now, now + life, life))
    BY <1>3 DEF Issue
  <2>2. Doing("fetched", call[c].now, now + life, life).pc = "fetched"
    BY DEF Doing
  <2>3. Holds(c) /\ Queued(c) /\ UNCHANGED queue
    BY <1>3 DEF Issue, At, MutexInv
  <2> QED BY <2>1, <2>2, <2>3, Stays
<1>4. CASE Store(c)
  <2>1. [call[c] EXCEPT !.pc = "calling"].pc = "calling"
    BY CallFields DEF Call
  <2> QED BY <1>4, <2>1, Leaves DEF Store
<1>5. CASE FetchFails(c) \/ Drop(c)
  BY <1>5, Leaves DEF FetchFails, Drop, Idle, Doing
<1>6. CASE Return(c)
  <2>1. ~Queued(c) /\ UNCHANGED queue /\ Becomes(c, Idle)
    BY <1>6 DEF Return, At, MutexInv
  <2> QED BY <2>1, Leaves DEF Release, Idle, Doing
<1> QED BY <1>1, <1>2, <1>3, <1>4, <1>5, <1>6 DEF ClientStep, Proceed

-----------------------------------------------------------------------------
LEMMA ClientNextSound ==
  ClientInv /\ MutexInv /\ [ClientNext]_pvars => ClientInv' /\ MutexInv'
<1> SUFFICES ASSUME ClientInv, MutexInv, [ClientNext]_pvars
             PROVE  ClientInv' /\ MutexInv'
  OBVIOUS
<1>1. ASSUME UNCHANGED <<queue, call>> PROVE MutexInv'
  BY <1>1 DEF MutexInv, Distinct, Queued, Holds, At
<1>2. CASE ClientTick
  BY <1>1, <1>2, TickSound DEF ClientTick
<1>3. CASE \E c \in Callers : ClientStep(c)
  BY <1>3, StepSound, MutexStep
<1>4. CASE UNCHANGED pvars
  BY <1>1, <1>4 DEF pvars, ClientInv
<1> QED BY <1>2, <1>3, <1>4 DEF ClientNext

LEMMA ClientInitSound == ClientInit => ClientInv /\ MutexInv
<1> SUFFICES ASSUME ClientInit PROVE ClientInv /\ MutexInv
  OBVIOUS
<1>1. /\ now \in Nat /\ cache = None /\ queue = <<>>
      /\ call = [c \in Callers |-> Idle]
  BY SMT DEF ClientInit
<1>2. ClientInv
  BY <1>1, IdleCall DEF ClientInv
<1>3. queue \in Seq(Callers) /\ Len(queue) = 0
  BY <1>1
<1>4. \A c \in Callers : ~Queued(c) /\ At(c, "idle")
                         /\ ~At(c, "fetching") /\ ~At(c, "fetched")
  BY <1>1, <1>3 DEF Queued, At, Idle, Doing
<1> QED BY <1>2, <1>3, <1>4 DEF MutexInv, Distinct

LEMMA ClientAlways == ClientSpec => [](ClientInv /\ MutexInv)
BY ClientInitSound, ClientNextSound, PTL DEF ClientSpec

(* Whoever fetched the token, a call is made with one that PayPal honours  *)
(* for longer than the slack after the call began (access_token).          *)
THEOREM TokensOutlive == ClientSpec => []TokenOutlivesSlack
<1>1. ClientInv => TokenOutlivesSlack
  BY DEF ClientInv, TokenOutlivesSlack, Sound, At
<1> QED BY <1>1, ClientAlways, PTL

(* The mutex is queued for by those, and only those, who are at it: no     *)
(* caller that failed, was dropped or has its token keeps a place.         *)
THEOREM ClientTypes == ClientSpec => []ClientTypeOK
<1>1. ClientInv /\ MutexInv => ClientTypeOK
  BY DEF ClientInv, MutexInv, ClientTypeOK
<1> QED BY <1>1, ClientAlways, PTL

(* A token is fetched by the holder of the mutex alone, and only if none   *)
(* is cached that any caller could take now (access_token's check under    *)
(* the mutex).                                                             *)
THEOREM FetchesNeeded == ClientSpec => NoNeedlessFetch
<1>1. ASSUME ClientInv, MutexInv, NEW c \in Callers, NEW e \in Callers, ClientStep(e),
             ~At(c, "fetching"), call'[c].pc = "fetching"
      PROVE  c = e /\ Acquire(c) /\ ~Fresh(c)
  <2>1. c = e
    <3> SUFFICES ASSUME c # e PROVE call'[c] = call[c]
      BY <1>1 DEF At
    <3>1. \E r : Becomes(e, r)
      BY <1>1 DEF ClientStep, Proceed, Begin, Acquire, Issue, Store, FetchFails,
                  Return, Drop
    <3> QED BY <1>1, <3>1, Others
  <2>2. ASSUME NEW r, Becomes(c, r) PROVE r.pc = "fetching"
    BY <1>1, <2>2, Others
  <2>3. ~Begin(c) /\ ~FetchFails(c) /\ ~Return(c) /\ ~Drop(c) /\ ~Issue(c)
    <3>1. \A p, time, token, life : Doing(p, time, token, life).pc = p
      BY DEF Doing
    <3>2. Idle.pc = "idle"
      BY DEF Idle, Doing
    <3> QED BY <2>2, <3>1, <3>2, SMT DEF Begin, FetchFails, Return, Drop, Issue
  <2>4. ~Store(c)
    <3>1. [call[c] EXCEPT !.pc = "calling"].pc = "calling"
      BY CallFields DEF Call
    <3> QED BY <2>2, <3>1 DEF Store
  <2>5. Acquire(c)
    BY <1>1, <2>1, <2>3, <2>4 DEF ClientStep, Proceed
  <2>6. ~Fresh(c)
    BY <2>2, <2>5 DEF Acquire, Doing
  <2> QED BY <2>1, <2>5, <2>6
<1>2. ASSUME ClientInv, MutexInv, NEW c \in Callers, Acquire(c), ~Fresh(c)
      PROVE  /\ \A d \in Callers : ~At(d, "fetching") /\ ~At(d, "fetched")
             /\ cache # None => cache.until <= now + Slack
  <2>1. Holds(c) /\ At(c, "waiting")
    BY <1>2 DEF Acquire
  <2>2. \A d \in Callers : ~At(d, "fetching") /\ ~At(d, "fetched")
    BY <1>2, <2>1 DEF MutexInv, Holds, At
  <2>3. ASSUME cache # None PROVE cache.until <= now + Slack
    <3>1. cache.until \in Nat /\ ~(cache.until > call[c].now + Slack)
      BY <1>2, <2>3 DEF Fresh, ClientInv, Token
    <3>2. call[c].now \in Nat /\ call[c].now <= now /\ now \in Nat
      BY <1>2, CallFields DEF ClientInv
    <3> QED BY <3>1, <3>2, SlackAssumption, SMT
  <2> QED BY <2>2, <2>3
<1>3. ClientInv /\ MutexInv /\ [ClientNext]_pvars =>
        \A c \in Callers : ~At(c, "fetching") /\ call'[c].pc = "fetching" =>
          /\ \A d \in Callers : ~At(d, "fetching") /\ ~At(d, "fetched")
          /\ cache # None => cache.until <= now + Slack
  <2> SUFFICES ASSUME ClientInv, MutexInv, [ClientNext]_pvars, NEW c \in Callers,
                      ~At(c, "fetching"), call'[c].pc = "fetching"
               PROVE  /\ \A d \in Callers : ~At(d, "fetching") /\ ~At(d, "fetched")
                      /\ cache # None => cache.until <= now + Slack
    OBVIOUS
  <2>1. call' # call
    BY DEF At
  <2>2. \E e \in Callers : ClientStep(e)
    BY <2>1 DEF ClientNext, ClientTick, pvars
  <2> QED BY <1>1, <1>2, <2>2
<1> QED BY <1>3, ClientAlways, PTL DEF ClientSpec, NoNeedlessFetch

-----------------------------------------------------------------------------
(* Amounts, the conversions of PayPal amounts.                             *)

(* Euros and cents, tens and ones. *)
LEMMA Split ==
  ASSUME NEW n \in Nat
  PROVE  /\ n \div 100 \in Nat /\ n \div 100 <= n
         /\ (n % 100) \div 10 \in Digit /\ n % 10 \in Digit
         /\ 100 * (n \div 100) + (10 * ((n % 100) \div 10) + (n % 10)) = n
BY SMT DEF Digit

LEMMA AtMostTwo ==
  ASSUME NEW n \in Nat, n <= 2
  PROVE  n = 0 \/ n = 1 \/ n = 2
BY SMT

(* What is sent to PayPal is read back as the same number of minor units   *)
(* (minor_to_decimal, decimal_to_minor).                                   *)
LEMMA RoundTrip ==
  ASSUME NEW asset \in Assets, NEW minor \in 0..MaxInt
  PROVE  DecimalToMinor(asset, MinorToDecimal(asset, minor)) = minor
<1> DEFINE value == MinorToDecimal(asset, minor)
<1>1. minor \in Nat /\ minor <= MaxInt
  BY MaxIntAssumption, SMT
<1>2. CASE asset \in ZeroDecimalAssets
  <2>1. value.whole = minor /\ value.frac = <<>>
    BY <1>2 DEF MinorToDecimal
  <2>2. 1..Len(value.frac) = {}
    BY <2>1, SMT
  <2> QED BY <1>1, <1>2, <2>1, <2>2, MaxIntAssumption, SMT DEF DecimalToMinor, Readable
<1>3. CASE asset \notin ZeroDecimalAssets
  <2>1. /\ value.whole = minor \div 100
        /\ value.frac = <<(minor % 100) \div 10, minor % 10>>
    BY <1>3 DEF MinorToDecimal
  <2> HIDE DEF value
  <2>2. Len(value.frac) = 2 /\ Hundredths(value.frac) = 10 * ((minor % 100) \div 10) + (minor % 10)
    BY <2>1, SMT DEF Hundredths
  <2>4. 100 * value.whole + Hundredths(value.frac) = minor
    BY <1>1, <2>1, <2>2, Split
  <2>5. Fits(minor) = minor
    BY <1>1 DEF Fits
  <2>6. value.whole <= MaxInt
    BY <1>1, <2>1, Split, MaxIntAssumption, SMT
  <2>7. DecimalToMinor(asset, value) = Fits(100 * value.whole + Hundredths(value.frac))
    BY <1>3, <2>2, <2>6 DEF DecimalToMinor, Readable
  <2> QED BY <2>4, <2>5, <2>7 DEF value
<1> QED BY <1>2, <1>3

(* What is sent is a decimal. *)
LEMMA Written ==
  ASSUME NEW asset \in Assets, NEW minor \in 0..MaxInt
  PROVE  MinorToDecimal(asset, minor) \in Decimal
<1>1. minor \in Nat
  BY MaxIntAssumption, SMT
<1>2. /\ minor \div 100 \in Nat
      /\ (minor % 100) \div 10 \in Digit /\ minor % 10 \in Digit
  BY <1>1, Split
<1>3. ASSUME NEW w \in Nat, NEW d \in Digit, NEW e \in Digit
      PROVE  [whole |-> w, frac |-> <<>>] \in Decimal /\ [whole |-> w, frac |-> <<d, e>>] \in Decimal
  BY DEF Decimal
<1> QED BY <1>1, <1>2, <1>3 DEF MinorToDecimal

(* No decimal is rounded, cut or wrapped on its way in (decimal_to_minor,  *)
(* whatever its length and size).                                          *)
LEMMA ReadsExactly ==
  ASSUME NEW asset \in Assets, NEW value \in Decimal,
         DecimalToMinor(asset, value) # None
  PROVE  SameAmount(asset, DecimalToMinor(asset, value), value)
<1> DEFINE whole == value.whole
           frac == value.frac
           d(k) == IF k <= Len(frac) THEN frac[k] ELSE 0
<1>1. whole \in Nat /\ frac \in Seq(Digit) /\ Len(frac) \in Nat
  BY DEF Decimal
<1>2. \A k \in 1..Len(frac) : frac[k] \in Nat
  BY <1>1, SMT DEF Digit
<1>3. Thousandths(value) = 1000 * whole + 100 * d(1) + 10 * d(2) + d(3)
  BY DEF Thousandths
<1>4. ~(whole > MaxInt)
  BY <1>1, MaxIntAssumption DEF DecimalToMinor, Readable
<1> HIDE DEF whole, frac
<1>5. CASE asset \in ZeroDecimalAssets
  <2>1. /\ DecimalToMinor(asset, value) = whole
        /\ \A k \in 1..Len(frac) : frac[k] = 0
    BY <1>1, <1>4, <1>5, MaxIntAssumption, SMT DEF DecimalToMinor, Readable, whole, frac
  <2>2. d(1) = 0 /\ d(2) = 0 /\ d(3) = 0
    BY <1>1, <2>1, SMT
  <2> QED BY <1>1, <1>3, <1>5, <2>1, <2>2, SMT DEF SameAmount, frac
<1>6. CASE asset \notin ZeroDecimalAssets
  <2>1. /\ Len(frac) <= 2
        /\ DecimalToMinor(asset, value) = Fits(100 * whole + Hundredths(frac))
    BY <1>1, <1>4, <1>6, MaxIntAssumption, SMT DEF DecimalToMinor, Readable, whole, frac
  <2>2. DecimalToMinor(asset, value) = 100 * whole + Hundredths(frac)
    BY <2>1 DEF Fits
  <2>3. Hundredths(frac) = 10 * d(1) + d(2) /\ d(3) = 0 /\ d(1) \in Nat /\ d(2) \in Nat
    <3>1. CASE Len(frac) = 0
      <4>1. frac = <<>>
        BY <1>1, <3>1
      <4> QED BY <3>1, <4>1, SMT DEF Hundredths
    <3>2. CASE Len(frac) = 1
      <4>1. frac # <<>> /\ frac[1] \in Nat
        <5>1. 1 \in 1..Len(frac) /\ frac # <<>>
          BY <3>2, SMT
        <5> QED BY <1>2, <5>1, Zenon
      <4> QED BY <3>2, <4>1, SMT DEF Hundredths
    <3>3. CASE Len(frac) = 2
      <4>1. frac # <<>> /\ frac[1] \in Nat /\ frac[2] \in Nat
        BY <1>1, <1>2, <3>3
      <4> QED BY <3>3, <4>1, SMT DEF Hundredths
    <3>4. Len(frac) = 0 \/ Len(frac) = 1 \/ Len(frac) = 2
      BY <1>1, <2>1, AtMostTwo
    <3> QED BY <3>1, <3>2, <3>3, <3>4, Zenon
  <2>4. Thousandths(value) = 10 * (100 * whole + Hundredths(frac))
    BY <1>1, <1>3, <2>3, SMT
  <2>5. 4..Len(frac) = {}
    BY <1>1, <2>1, SMT
  <2> QED BY <1>6, <2>2, <2>4, <2>5 DEF SameAmount, frac
<1> QED BY <1>5, <1>6

-----------------------------------------------------------------------------
AmountsInv ==
  /\ due.asset \in Assets /\ due.minor \in 0..MaxInt
  /\ shown # None => shown.value \in Decimal

LEMMA Shown == AmountsSpec => []AmountsInv
<1>1. AmountsInit => AmountsInv
  <2> SUFFICES ASSUME AmountsInit PROVE AmountsInv
    OBVIOUS
  <2>1. due.asset \in Assets /\ due.minor \in Minors /\ shown = None
    BY DEF AmountsInit
  <2> QED BY <2>1, MinorsAssumption DEF AmountsInv
<1>2. AmountsInv /\ [AmountsNext]_avars => AmountsInv'
  <2> SUFFICES ASSUME AmountsInv, [AmountsNext]_avars PROVE AmountsInv'
    OBVIOUS
  <2>1. CASE CaptureShown
    <3>1. due' = due
      BY <2>1 DEF CaptureShown
    <3>2. CASE shown' = Asked
      <4>1. shown'.value \in Decimal
        BY <3>2, Written DEF Asked, AmountsInv
      <4> QED BY <3>1, <4>1 DEF AmountsInv
    <3>3. CASE \E code \in Assets, value \in Values : shown' = [code |-> code, value |-> value]
      <4>1. shown'.value \in Decimal
        BY <3>3, ValuesAssumption
      <4> QED BY <3>1, <4>1 DEF AmountsInv
    <3> QED BY <2>1, <3>2, <3>3 DEF CaptureShown
  <2>2. CASE PullOver BY <2>2 DEF PullOver, AmountsInv
  <2>3. CASE UNCHANGED avars BY <2>3 DEF avars, AmountsInv
  <2> QED BY <2>1, <2>2, <2>3 DEF AmountsNext
<1> QED BY <1>1, <1>2, PTL DEF AmountsSpec

(* Whoever pays what was asked has paid, in every currency and for every   *)
(* amount i64 holds (create_order, pull_paypal).                           *)
THEOREM AskedIsMatched == AmountsSpec => []AskedMatches
<1>1. AmountsInv => AskedMatches
  <2> SUFFICES ASSUME AmountsInv, shown = Asked, shown # None PROVE AmountMatched
    BY DEF AskedMatches
  <2>1. shown.code = due.asset /\ shown.value = MinorToDecimal(due.asset, due.minor)
    BY DEF Asked
  <2> QED BY <2>1, RoundTrip DEF AmountsInv, AmountMatched
<1> QED BY <1>1, Shown, PTL

(* Nothing else passes for it, whatever decimals PayPal shows              *)
(* (decimal_to_minor, pull_paypal).                                        *)
THEOREM MatchedIsDue == AmountsSpec => []MatchedWasDue
<1>1. AmountsInv => MatchedWasDue
  <2> SUFFICES ASSUME AmountsInv, AmountMatched
               PROVE  SameAmount(due.asset, due.minor, shown.value)
    BY DEF MatchedWasDue
  <2>1. /\ due.asset \in Assets /\ shown.value \in Decimal
        /\ DecimalToMinor(due.asset, shown.value) = due.minor
    BY DEF AmountsInv, AmountMatched
  <2>2. due.minor # None
    BY NoAmountAssumption, MaxIntAssumption DEF AmountsInv
  <2> QED BY <2>1, <2>2, ReadsExactly
<1> QED BY <1>1, Shown, PTL
=============================================================================
