----------------------------- MODULE RateLimiter -----------------------------
(***************************************************************************)
(* The token bucket of docs/rateLimiter.ts and its abort-aware sleep.  One *)
(* unit of time refills one unit of the bucket and a permit costs          *)
(* PermitCost of them, so refilling is addition.  A writer's chain and a   *)
(* watcher's poll ask for one permit at a time: there is one caller.       *)
(***************************************************************************)
EXTENDS Integers, Sequences

CONSTANTS
  Burst,       \* capacity, in permits
  PermitCost,  \* time that refills one permit
  Horizon,     \* the clock stops here, so that instances are finite
  Signals      \* TRUE when the caller has an abort signal

ASSUME LimiterAssumption ==
  /\ Burst \in Nat \ {0} /\ PermitCost \in Nat \ {0}
  /\ Horizon \in Nat /\ Signals \in BOOLEAN

VARIABLES
  now,         \* Date.now()
  level,       \* tokens, in units
  lastRefill,
  caller,      \* idle, asking, asleep in acquire()
  wake,        \* when the caller's timer is due
  grants       \* the times permits were granted

limvars == <<now, level, lastRefill, caller, wake, grants>>

Capacity == Burst * PermitCost

LimInit ==
  /\ now = 0 /\ lastRefill = 0 /\ wake = 0
  /\ level = Capacity
  /\ caller = "idle"
  /\ grants = <<>>

\* Mutant: what is refilled is not capped.
RefillUncapped == level + (now - lastRefill)

\* refill(): no more than the capacity, however long nobody asked.
Refilled ==
  IF level + (now - lastRefill) <= Capacity THEN level + (now - lastRefill) ELSE Capacity

\* Timers are late, never early, and by any amount.
Tick ==
  /\ now < Horizon /\ now' = now + 1
  /\ UNCHANGED <<level, lastRefill, caller, wake, grants>>

Ask ==
  /\ caller = "idle" /\ caller' = "asking"
  /\ UNCHANGED <<now, level, lastRefill, wake, grants>>

\* One turn of the loop of acquire(): a permit is there,
Permit ==
  /\ caller = "asking" /\ Refilled >= PermitCost
  /\ level' = Refilled - PermitCost /\ lastRefill' = now
  /\ grants' = Append(grants, now)
  /\ caller' = "idle"
  /\ UNCHANGED <<now, wake>>

\* or the caller sleeps for what is missing,
Sleep ==
  /\ caller = "asking" /\ Refilled < PermitCost
  /\ level' = Refilled /\ lastRefill' = now
  /\ wake' = now + (PermitCost - Refilled)
  /\ caller' = "asleep"
  /\ UNCHANGED <<now, grants>>

\* and asks again,
Wake ==
  /\ caller = "asleep" /\ now >= wake
  /\ caller' = "asking"
  /\ UNCHANGED <<now, level, lastRefill, wake, grants>>

\* unless it is aborted: no permit is taken.
AbortAsk ==
  /\ Signals /\ caller \in {"asking", "asleep"}
  /\ caller' = "idle"
  /\ UNCHANGED <<now, level, lastRefill, wake, grants>>

LimNext == Tick \/ Ask \/ Permit \/ Sleep \/ Wake \/ AbortAsk

LimSpec == LimInit /\ [][LimNext]_limvars

-----------------------------------------------------------------------------
LimTypeOK ==
  /\ now \in Nat /\ lastRefill \in Nat /\ wake \in Nat
  /\ level \in 0..Capacity
  /\ caller \in {"idle", "asking", "asleep"}
  /\ grants \in Seq(Nat)

\* rateLimiter.ts:4-9: in any stretch of time between two permits, those two
\* included, no more permits are granted than the burst and what the stretch
\* refills, whoever slept, overslept or was aborted meanwhile.
PermitsBounded ==
  \A i, j \in DOMAIN grants :
    i <= j => (j - i + 1) * PermitCost <= Capacity + (grants[j] - grants[i])

\* A caller sleeps once: when its timer is due a permit is there for it, since
\* nobody else draws from its bucket.
SleepSuffices ==
  caller = "asleep" /\ now >= wake => Refilled >= PermitCost
=============================================================================
