---------------------------- MODULE PaypalClient ----------------------------
(***************************************************************************)
(* The PayPal client (paypal.rs): every call to the API first obtains an   *)
(* OAuth token (access_token), which is cached behind an async mutex held  *)
(* across the request that renews it, and then makes its own request with  *)
(* that token.  Handlers and the worker call it concurrently; tokio's      *)
(* mutex serves its waiters in the order they came.                        *)
(*                                                                         *)
(* access_token reads the clock before it waits for the mutex.  A caller   *)
(* can be dropped at any await, which frees the mutex and keeps the cache. *)
(* Request building and parsing are left out, except for the amounts: what *)
(* a call returns is not looked at here, only whether PayPal still honours *)
(* its token.                                                              *)
(***************************************************************************)
EXTENDS Amounts

CONSTANTS
  Callers,    \* tasks that may be calling PayPal at a time
  Slack,      \* TOKEN_REFRESH_SLACK_SECONDS
  Lifetimes,  \* the values of expires_in
  MaxTime     \* bound on the clock

ASSUME SlackAssumption == Slack \in Nat
ASSUME LifetimesAssumption == Lifetimes \subseteq Nat

VARIABLES
  now,     \* unix time
  cache,   \* PaypalProcessor::token
  queue,   \* the mutex: its holder, then those waiting for it
  call     \* what each caller is doing

pvars == <<now, cache, queue, call>>

(* A token stands for its expiry on PayPal's side; `until` is the expiry   *)
(* the client recorded for it.                                             *)
Token == [expires : Nat, until : Nat]

(* The awaits of a call: for the mutex, for the token endpoint to take the *)
(* request, for its answer, for the call itself.                           *)
Points == {"idle", "waiting", "fetching", "fetched", "calling"}

(* `now` is the caller's own reading of the clock, `token` the one issued  *)
(* or handed to it, `life` the expires_in that came with it, None if it    *)
(* was handed one from the cache.                                          *)
Call == [pc : Points, now : Nat, token : Nat \cup {None}, life : Nat \cup {None}]

Doing(pc, time, token, life) ==
  [pc |-> pc, now |-> time, token |-> token, life |-> life]

Idle == Doing("idle", 0, None, None)

At(c, pc) == call[c].pc = pc

Becomes(c, r) == call' = [call EXCEPT ![c] = r]

Holds(c) == queue # <<>> /\ Head(queue) = c

Queued(c) == \E k \in 1..Len(queue) : queue[k] = c

(* The guard of the mutex is dropped, or the wait for it is given up: the  *)
(* others move up.  A caller that has done with it, or not begun, is not   *)
(* in the queue.                                                           *)
Release(c) ==
  \/ ~Queued(c) /\ UNCHANGED queue
  \/ \E k \in 1..Len(queue) :
       /\ queue[k] = c
       /\ queue' = [j \in 1..(Len(queue) - 1) |-> queue[IF j < k THEN j ELSE j + 1]]

ClientInit ==
  /\ now = 0
  /\ cache = None
  /\ queue = <<>>
  /\ call = [c \in Callers |-> Idle]

-----------------------------------------------------------------------------
(* access_token *)

(* The first poll of a call: the clock is read, the mutex is asked for. *)
Begin(c) ==
  /\ At(c, "idle")
  /\ Becomes(c, Doing("waiting", now, None, None))
  /\ queue' = Append(queue, c)
  /\ UNCHANGED <<now, cache>>

(* The cached token will do, judged by the caller's clock. *)
Fresh(c) == cache # None /\ cache.until > call[c].now + Slack

(* Slip: every caller renews, whatever was cached while it waited. *)
AcquireUnchecked(c) ==
  /\ At(c, "waiting") /\ Holds(c)
  /\ Becomes(c, [call[c] EXCEPT !.pc = "fetching"])
  /\ UNCHANGED <<now, cache, queue>>

(* Slip: the guard lives for the look at the cache only. *)
AcquireReleasing(c) ==
  /\ At(c, "waiting") /\ Holds(c)
  /\ \/ /\ Fresh(c)
        /\ Becomes(c, Doing("calling", call[c].now, cache.expires, None))
     \/ /\ ~Fresh(c)
        /\ Becomes(c, [call[c] EXCEPT !.pc = "fetching"])
  /\ Release(c)
  /\ UNCHANGED <<now, cache>>

(* The mutex is locked and the cache looked at. *)
Acquire(c) ==
  /\ At(c, "waiting") /\ Holds(c)
  /\ \/ /\ Fresh(c)
        /\ Becomes(c, Doing("calling", call[c].now, cache.expires, None))
        /\ Release(c)
     \/ /\ ~Fresh(c)
        /\ Becomes(c, [call[c] EXCEPT !.pc = "fetching"])
        /\ UNCHANGED queue
  /\ UNCHANGED <<now, cache>>

(* The token endpoint issues a token, good from this moment on. *)
Issue(c) ==
  /\ At(c, "fetching")
  /\ \E life \in Lifetimes :
       Becomes(c, Doing("fetched", call[c].now, now + life, life))
  /\ UNCHANGED <<now, cache, queue>>

(* Slip: the lifetime is counted from the answer. *)
StoreFromAnswer(c) ==
  /\ At(c, "fetched")
  /\ cache' = [expires |-> call[c].token, until |-> now + call[c].life]
  /\ Becomes(c, [call[c] EXCEPT !.pc = "calling"])
  /\ Release(c)
  /\ UNCHANGED now

(* Its answer is parsed and cached; the lifetime counts from the caller's  *)
(* own reading of the clock, before the wait and the request.              *)
Store(c) ==
  /\ At(c, "fetched")
  /\ cache' = [expires |-> call[c].token, until |-> call[c].now + call[c].life]
  /\ Becomes(c, [call[c] EXCEPT !.pc = "calling"])
  /\ Release(c)
  /\ UNCHANGED now

(* Slip: an early return that leaves the mutex locked. *)
FetchFailsLocked(c) ==
  /\ At(c, "fetching") \/ At(c, "fetched")
  /\ Becomes(c, Idle)
  /\ UNCHANGED <<now, cache, queue>>

(* The request times out, or is answered with an error or with something   *)
(* that is no token: the call fails and the cache stays as it was.         *)
FetchFails(c) ==
  /\ At(c, "fetching") \/ At(c, "fetched")
  /\ Becomes(c, Idle)
  /\ Release(c)
  /\ UNCHANGED <<now, cache>>

-----------------------------------------------------------------------------
(* create_order, retrieve_order, capture_order, retrieve_capture,          *)
(* retrieve_dispute, verify_webhook: one request under the token, answered *)
(* or failed; neither touches the cache, not even a 401.                   *)
Return(c) ==
  /\ At(c, "calling")
  /\ Becomes(c, Idle)
  /\ UNCHANGED <<now, cache, queue>>

(* The task of the caller is dropped. *)
Drop(c) ==
  /\ ~At(c, "idle")
  /\ Becomes(c, Idle)
  /\ Release(c)
  /\ UNCHANGED <<now, cache>>

ClientTick ==
  /\ now < MaxTime
  /\ now' = now + 1
  /\ UNCHANGED <<cache, queue, call>>

(* What a call that goes on does next. *)
Proceed(c) == Acquire(c) \/ Issue(c) \/ Store(c) \/ FetchFails(c) \/ Return(c)

ClientStep(c) == Begin(c) \/ Proceed(c) \/ Drop(c)

ClientNext == ClientTick \/ \E c \in Callers : ClientStep(c)

ClientSpec == ClientInit /\ [][ClientNext]_pvars

(* Requests are answered or time out (20 s), and the mutex is fair. *)
ClientFair == \A c \in Callers : WF_pvars(Proceed(c))

-----------------------------------------------------------------------------
(* Types; and who is queued at the mutex is just who waits or renews. *)
ClientTypeOK ==
  /\ now \in Nat
  /\ cache \in Token \cup {None}
  /\ queue \in Seq(Callers)
  /\ call \in [Callers -> Call]
  /\ \A c \in Callers :
       Queued(c) <=> ~(At(c, "idle") \/ At(c, "calling"))

(* A call is made with a token PayPal honours for longer than the slack    *)
(* after the call began if it is a cached one, whoever fetched it, however *)
(* slowly it arrived and however long the call waited for it, and with one *)
(* that is good for as long as PayPal said if it is new (access_token): a  *)
(* cached token can only be dead on arrival if the wait alone exceeded the *)
(* slack.                                                                  *)
TokenOutlivesSlack ==
  \A c \in Callers : LET k == call[c] IN
    At(c, "calling") =>
      /\ k.life = None => k.token > k.now + Slack
      /\ k.life # None => k.token >= k.now + k.life

(* No token is fetched while another is being fetched, nor while one is    *)
(* cached that any caller could take now: those who waited for a refresh   *)
(* use its result (the check under the mutex).                             *)
NoNeedlessFetch ==
  [][\A c \in Callers : ~At(c, "fetching") /\ call'[c].pc = "fetching" =>
       /\ \A d \in Callers : ~At(d, "fetching") /\ ~At(d, "fetched")
       /\ cache # None => cache.until <= now + Slack]_pvars

(* A call that began comes back: no failed, slow or abandoned refresh      *)
(* blocks those behind it for ever.                                        *)
EveryCallReturns == \A c \in Callers : ~At(c, "idle") ~> At(c, "idle")
=============================================================================
