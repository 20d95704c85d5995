------------------------------- MODULE Config -------------------------------
(***************************************************************************)
(* What the process makes of its environment when it starts (config.rs,    *)
(* main.rs): it refuses to boot, or it has a set of processors, a default  *)
(* one, and the assets of the fiat rail.  Addresses, secrets, limits and   *)
(* time-outs are left out.                                                 *)
(***************************************************************************)
EXTENDS Naturals, FiniteSets

CONSTANT Codes   \* upper-case currency codes, "BTC" among them

Processors == {"stripe", "paypal"}

(* A STRIPE_SECRET_KEY is a test or a live one; the PayPal credentials are *)
(* complete or not, and PAYPAL_API_BASE is the sandbox or not; an asset    *)
(* that is no upper-case code is "malformed".                              *)
Env == [stripe   : {"unset", "test", "live"},
        paypal   : {"unset", "partial", "sandbox", "live"},
        liveMode : BOOLEAN,
        default  : Processors \cup {"other"},
        assets   : SUBSET (Codes \cup {"malformed"})]

(* Config::from_env accepts the environment. *)
Boots(env) ==
  /\ env.stripe = "live" => env.liveMode
  /\ env.paypal = "live" => env.liveMode
  /\ env.paypal # "partial"
  /\ env.default \in Processors
  /\ env.assets \subseteq Codes \ {"BTC"}

Configured(env) ==
  {k \in Processors : \/ k = "stripe" /\ env.stripe # "unset"
                      \/ k = "paypal" /\ env.paypal # "unset"}

(* Processors::sole_configured; both, or none, are not one. *)
Sole(processors) == IF Cardinality(processors) = 1 THEN processors ELSE {}

(* Slip: FIAT_DEFAULT_PROCESSOR counts even if it is not configured. *)
DefaultAsNamed(env) == env.default

Default(env) ==
  IF Sole(Configured(env)) # {} THEN CHOOSE k \in Sole(Configured(env)) : TRUE
  ELSE env.default

Loaded(env) ==
  [processors |-> Configured(env), default |-> Default(env), assets |-> env.assets]
=============================================================================
