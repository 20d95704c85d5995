------------------------------ MODULE Gateway ------------------------------
(***************************************************************************)
(* The whole fiat rail over one table: minting (Checkout) and settlement   *)
(* (Settlement), each as it stands, on the same rows and the same clock.   *)
(* Settlement's names are used as they are, Checkout's behind C!.          *)
(*                                                                         *)
(* What neither of the two shows alone is a row with several sessions: a   *)
(* session replaced while its checkout page is open, a payment recorded    *)
(* between a mint's read and its persist, a worker's snapshot that names   *)
(* the session before last.  A buyer can pay any session whose URL was     *)
(* handed out and that the processor has not expired, whether or not it is *)
(* still the one on the row.                                               *)
(***************************************************************************)
EXTENDS Settlement

CONSTANTS
  Clients,                                    \* requests that mint
  Configured, DefaultKind,                    \* see Checkout
  Ttl, OrderTtl, Slack, ReplayOnMismatch,
  Events,                                     \* the webhook events that are sent
  Drifting                                    \* processors that may charge something else

ASSUME MintingAssumption ==
  /\ Configured \subseteq Kinds /\ DefaultKind \in Kinds
  /\ Ttl \in Nat /\ OrderTtl \in Nat /\ Slack \in Nat /\ ReplayOnMismatch \in BOOLEAN
ASSUME EventsAssumption == Events \subseteq EventTypes
ASSUME DriftingAssumption == Drifting \subseteq Kinds
ASSUME NothingMintedBefore == InitKinds = {}

VARIABLES
  minted, job,  \* see Checkout
  handed        \* the sessions whose checkout URL some buyer was given

C == INSTANCE Checkout

ASSUME NotMintedAssumption == None \notin C!Mint

minting == <<minted, job>>
settling == <<seen, charge, drifted, refundedAt, proc>>
gvars == <<vars, minting, handed>>

GatewayInit ==
  /\ C!Init
  /\ seen = {}
  /\ charge = [s \in Session |-> "unpaid"]
  /\ drifted \in SUBSET {s \in Session : s.kind \in Drifting}
  /\ refundedAt = [s \in Session |-> None]
  /\ proc = [p \in Procs |-> Idle]
  /\ handed = {}

-----------------------------------------------------------------------------
(* A step of a request that mints.  A checkout that answers, and whose     *)
(* answer is not lost, hands its URL to the buyer.                         *)
MintStep(c) ==
  /\ C!Step(c)
  /\ handed' = IF C!At(c, "reply") /\ job[c].op = "checkout" /\ faults' = faults
               THEN handed \cup {job[c].session} ELSE handed
  /\ UNCHANGED settling

(* A step of a status call, a webhook or the worker. *)
SettleStep ==
  /\ \/ WorkerStep
     \/ \E h \in Handlers :
          \/ \E i \in Ids : StatusRead(h, i)
          \/ \E t \in Events, s \in handed : Deliver(h, [type |-> t, session |-> s])
          \/ PullStep(h) \/ StatusStep(h) \/ WebhookStep(h) \/ HangUp(h)
  /\ UNCHANGED <<minting, handed>>

(* The checkout page of a session works until the session expires. *)
Payable(s) == minted[s] # None /\ clock < minted[s].expires

BuyerStep ==
  /\ \E s \in handed :
       \/ Payable(s) /\ (Pay(s) \/ Approve(s))
       \/ AutoCapture(s) \/ CaptureSettles(s) \/ Refund(s) \/ Dispute(s)
  /\ UNCHANGED <<minting, handed>>

ClockStep == C!Tick /\ Tick /\ UNCHANGED handed

(* The process dies with everything in flight and is started again. *)
Restart ==
  /\ Fault
  /\ job' = [c \in Clients |-> C!Idle]
  /\ proc' = [p \in Procs |-> Idle]
  /\ UNCHANGED <<store, processors, clock, minted, handed>>

GatewayNext ==
  \/ \E c \in Clients : MintStep(c)
  \/ SettleStep
  \/ BuyerStep
  \/ ClockStep
  \/ Restart

GatewaySpec == GatewayInit /\ [][GatewayNext]_gvars
-----------------------------------------------------------------------------
(* EveryStateEarned is Settlement's, and judges what a row says by all the *)
(* sessions its correlation ever had.  MismatchNeverPromoted is no         *)
(* property of the gateway: it holds while a row keeps one session.        *)

(* The reference of a recorded payment, through which a later reversal is  *)
(* resolved, is a session of this very correlation, some buyer was given   *)
(* it, and its money was taken -- also if the row has another session by   *)
(* now (pull_and_apply, mark_paid).                                        *)
RecordEarned ==
  \A i \in Ids : LET ref == rows[i].ref IN
    ref # None => ref \in handed /\ ref.id = i /\ Taken(charge[ref])

(* While the page of a session some buyer was given still works for longer *)
(* than the slack, no later attempt at the same processor takes the row    *)
(* from it -- except to bind the buyer to a shop: the row has a return     *)
(* origin now, and the session was minted without (checkout_session's      *)
(* reuse of the live session).  The mint of another processor can take it, *)
(* and one begun earlier and persisted late (see checkout_rebind).         *)
AbandonedOnlyForShop ==
  \A s \in handed : LET row == rows[s.id] IN
    /\ minted[s].expires > clock + Slack
    /\ row.session # None
    /\ row.session.kind = s.kind /\ row.session.attempt > s.attempt
    => minted[s].origin = None /\ row.origin # None

(* The session the promotion-time pull asks the processor about is the one *)
(* whose payment is on record (set_session has no guard on the state).     *)
PromotionPullsPaidSession ==
  \A i \in Ids : rows[i].state = "paid" => rows[i].ref = rows[i].session
=============================================================================
