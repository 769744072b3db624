----------------------------- MODULE Deployment -----------------------------
(***************************************************************************)
(* What a deploy does with the environment it is given: the boot check     *)
(* (preflight.ts, launchChecks.ts), the paywall (hasCredits of             *)
(* middleware/isAuthenticated.ts), the price of a job and the checkout,    *)
(* each of which reads the same variables in its own way: the launch       *)
(* checks trim a value, config.billing.enabled does not.                   *)
(***************************************************************************)
EXTENDS Integers

CONSTANT Packs

\* A variable is unset, blank (only spaces), or has a value.
Raw == {"unset", "blank", "value"}
Truthy(raw) == raw # "unset"
HasValue(raw) == raw = "value"

VARIABLES
  env,       \* NODE_ENV, the Stripe and pack variables, ALLOW_FREE_MODE, REQUIRED_ENV
  deploy,    \* "down", "refused", "up"
  credits,   \* the account's balance
  answer     \* to the last request: "none", "free", "charged", "402", "shut", "sold", "503"

deployvars == <<env, deploy, credits, answer>>

DeployInit ==
  /\ env \in [production : BOOLEAN, secretKey : Raw, webhookSecret : Raw,
              allowFree : {"unset", "true", " true ", "no"}, prices : [Packs -> Raw], required : Raw]
  /\ deploy = "down" /\ credits \in 0..1 /\ answer = "none"

BillingEnabled == Truthy(env.secretKey) /\ Truthy(env.webhookSecret)

FreeMode == env.allowFree \in {"true", " true "}

KeyErrors ==
  {v \in {"secretKey", "webhookSecret"} : ~HasValue(IF v = "secretKey" THEN env.secretKey ELSE env.webhookSecret)}

Purchasable == {p \in Packs : HasValue(env.prices[p])}

\* Mutant: one key of the two will do.
ErrorsOfBothKeys == IF FreeMode \/ KeyErrors # {"secretKey", "webhookSecret"} THEN {} ELSE KeyErrors

\* launchReport in production
LaunchErrors ==
  IF FreeMode THEN {}
  ELSE KeyErrors \cup (IF KeyErrors = {} /\ Purchasable = {} THEN {"prices"} ELSE {})

\* assertRequiredEnv, which does not trim
RequiredMissing == ~Truthy(env.required)

\* The required variables, then the launch report in production
Preflight ==
  /\ deploy = "down"
  /\ deploy' = IF RequiredMissing \/ (env.production /\ LaunchErrors # {}) THEN "refused" ELSE "up"
  /\ UNCHANGED <<env, credits, answer>>

ShutGate == env.production /\ ~FreeMode

\* POST /jobs: hasCredits, then the price, for a job of one hundredth
SubmitJob ==
  /\ deploy = "up"
  /\ \/ /\ ~BillingEnabled /\ answer' = IF ShutGate THEN "shut" ELSE "free"
        /\ credits' = credits
     \/ /\ BillingEnabled /\ credits < 1 /\ answer' = "402" /\ credits' = credits
     \/ /\ BillingEnabled /\ credits >= 1 /\ answer' = "charged" /\ credits' = credits - 1
  /\ UNCHANGED <<env, deploy>>

\* POST /billing/checkout, paid, by an account that has nothing left
BuyPack(p) ==
  /\ deploy = "up"
  /\ IF BillingEnabled /\ p \in Purchasable
     THEN credits = 0 /\ credits' = 1 /\ answer' = "sold"
     ELSE credits' = credits /\ answer' = "503"
  /\ UNCHANGED <<env, deploy>>

DeployNext == Preflight \/ SubmitJob \/ (\E p \in Packs : BuyPack(p))

DeploySpec == DeployInit /\ [][DeployNext]_deployvars

-----------------------------------------------------------------------------
DeployTypeOK ==
  /\ deploy \in {"down", "refused", "up"}
  /\ credits \in 0..1 /\ answer \in {"none", "free", "charged", "402", "shut", "sold", "503"}

GateIsNeverShut == answer # "shut"
PaywallHasAWayThrough ==
  answer = "402" /\ env.production /\ ~FreeMode => BillingEnabled /\ Purchasable # {}

\* launchChecks.ts:63-67, isAuthenticated.ts:61-65: whichever variables are missing,
\* blank or misspelt, a production deploy that boots does not turn everybody away:
\* the gate for deploys which cannot bill is never reached, and who lacks credits
\* finds a pack to buy.
CustomersCanPay == GateIsNeverShut /\ PaywallHasAWayThrough
=============================================================================
