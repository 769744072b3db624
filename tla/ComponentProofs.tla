---------------------------- MODULE ComponentProofs ----------------------------
(***************************************************************************)
(* Theorems about the components that share no state.                      *)
(*                                                                         *)
(* What paces a job, for any rate, page size and number of gaps: permits   *)
(* are bounded because what is in the bucket is.  From any permit on, the  *)
(* permits since, and what is left, never exceed the burst and what was    *)
(* refilled meanwhile.  A checkpoint gap ends early on evidence only: the  *)
(* token and count a poll resumes from say how many revisions the pages    *)
(* before it hold, whichever page the listing was resumed at.              *)
(*                                                                         *)
(* What the page a customer works in relies on, for any number of clicks,  *)
(* edits, requests and sign-ins: the price is that of the text and one job *)
(* is started at a time; a switch shows what was saved; a refusal of       *)
(* Google's is never followed by a silent request; and the tokens of an    *)
(* account stay together and its consent is kept.                          *)
(*                                                                         *)
(* A production deploy that boots lets its customers pay, for any set of   *)
(* packs and any combination of missing, blank and misspelt variables; and *)
(* what they pay for a document is the least number of hundredths that     *)
(* covers it, at any rate and for any length.                              *)
(*                                                                         *)
(* The planner, for any texts and draws: what the plan so far types, with  *)
(* its outstanding mistake put right, is the text so far (DraftOf); a      *)
(* mistake is on the page since its wrong keys (SeenOf); and a finished    *)
(* plan ends on time.  FoldSteps gives what a fold is on a longer plan.    *)
(***************************************************************************)
EXTENDS RateLimiter, CheckpointGap, Composer, Preferences, Picker, GoogleTokens,
        Deployment, CreditAmounts, HumanPlan, TLAPS, FiniteSetTheorems, SequenceTheorems

-----------------------------------------------------------------------------
(* The rate limiter. *)

\* What n permits cost
Cost(n) == n * PermitCost

\* What was granted since permit i, that one included, and is in the bucket still
WithinBudget(i) ==
  /\ grants[i] <= lastRefill
  /\ Cost(Len(grants) - i + 1) + level <= Capacity + (lastRefill - grants[i])

\* The timer of a caller that sleeps is due when what was missing is refilled.
TimerIsRight == level < PermitCost /\ wake = lastRefill + (PermitCost - level)

LimInv ==
  /\ LimTypeOK
  /\ lastRefill <= now
  /\ \A i \in 1..Len(grants) : WithinBudget(i)
  /\ PermitsBounded
  /\ caller = "asleep" => TimerIsRight

LEMMA CostFacts ==
  /\ \A n \in Int : Cost(n) \in Int /\ Cost(n + 1) = Cost(n) + PermitCost
  /\ Cost(1) = PermitCost
  /\ PermitCost \in Nat \ {0} /\ Capacity \in Nat /\ Capacity >= PermitCost
<1>1. PermitCost \in Nat \ {0} /\ Burst \in Nat \ {0}
  BY LimiterAssumption
<1>2. \A n \in Int : n * PermitCost \in Int /\ (n + 1) * PermitCost = n * PermitCost + PermitCost
  BY <1>1
<1>3. 1 * PermitCost = PermitCost
  BY <1>1
<1>4. Capacity = (Burst - 1) * PermitCost + PermitCost /\ Burst - 1 \in Nat
  BY <1>1, <1>2 DEF Capacity
<1>5. (Burst - 1) * PermitCost \in Nat
  BY <1>1, <1>4
<1> QED
  BY <1>1, <1>2, <1>3, <1>4, <1>5 DEF Cost

\* refill() adds at most what the time is worth, and never overfills.
LEMMA RefilledFacts ==
  ASSUME LimTypeOK, lastRefill <= now
  PROVE  /\ Refilled \in 0..Capacity
         /\ Refilled <= level + (now - lastRefill)
         /\ Refilled >= level
<1>1. /\ now \in Nat /\ lastRefill \in Nat /\ level \in Nat /\ level <= Capacity
      /\ Capacity \in Nat
  BY CostFacts DEF LimTypeOK
<1> QED
  BY <1>1 DEF Refilled

\* The sequence of grants after one more
LEMMA OneMoreGrant ==
  ASSUME NEW s \in Seq(Nat), NEW t \in Nat
  PROVE  /\ Append(s, t) \in Seq(Nat)
         /\ DOMAIN s = 1..Len(s) /\ Len(s) \in Nat
         /\ Len(Append(s, t)) = Len(s) + 1
         /\ DOMAIN Append(s, t) = 1..(Len(s) + 1)
         /\ \A i \in 1..Len(s) : Append(s, t)[i] = s[i] /\ s[i] \in Nat
         /\ Append(s, t)[Len(s) + 1] = t
  OBVIOUS

LEMMA LimInitially == LimInit => LimInv
<1> SUFFICES ASSUME LimInit PROVE LimInv
  OBVIOUS
<1>1. LimTypeOK
  BY CostFacts DEF LimInit, LimTypeOK
<1>2. Len(grants) = 0 /\ DOMAIN grants = {} /\ lastRefill <= now /\ caller # "asleep"
  BY DEF LimInit
<1> QED
  BY <1>1, <1>2 DEF LimInv, PermitsBounded

\* A refill without a permit keeps every budget.
LEMMA SleepKeeps == LimInv /\ Sleep => LimInv'
<1> SUFFICES ASSUME LimInv, Sleep PROVE LimInv'
  OBVIOUS
<1>1. LimTypeOK /\ lastRefill <= now
  BY DEF LimInv
<1>2. /\ level' = Refilled /\ lastRefill' = now /\ now' = now /\ grants' = grants
      /\ wake' = now + (PermitCost - Refilled) /\ Refilled < PermitCost /\ caller' = "asleep"
  BY DEF Sleep
<1>3. /\ Refilled \in 0..Capacity /\ Refilled <= level + (now - lastRefill)
      /\ now \in Nat /\ lastRefill \in Nat /\ level \in Int /\ Capacity \in Nat
  BY <1>1, RefilledFacts, CostFacts DEF LimTypeOK
<1>4. LimTypeOK'
  BY <1>1, <1>2, <1>3, CostFacts DEF LimTypeOK
<1>5. ASSUME NEW i \in 1..Len(grants) PROVE WithinBudget(i)'
  <2>1. WithinBudget(i) /\ grants[i] \in Nat /\ Len(grants) \in Nat
    BY <1>1, <1>5 DEF LimInv, LimTypeOK
  <2>2. Cost(Len(grants) - i + 1) \in Int
    BY <2>1, <1>5, CostFacts
  <2>3. /\ grants[i] <= lastRefill
        /\ Cost(Len(grants) - i + 1) + level <= Capacity + (lastRefill - grants[i])
    BY <2>1 DEF WithinBudget
  <2>4. /\ grants[i] <= now
        /\ Cost(Len(grants) - i + 1) + Refilled <= Capacity + (now - grants[i])
    <3>1. \A c, r, v, cap, n, t, g \in Int :
            g <= t /\ t <= n /\ c + v <= cap + (t - g) /\ r <= v + (n - t) => g <= n /\ c + r <= cap + (n - g)
      OBVIOUS
    <3> DEFINE c == Cost(Len(grants) - i + 1)
               g == grants[i]
               r == Refilled
               cap == Capacity
    <3>2. {c, r, level, cap, now, lastRefill, g} \subseteq Int
      BY <1>3, <2>1, <2>2
    <3>3. g <= lastRefill /\ lastRefill <= now /\ c + level <= cap + (lastRefill - g) /\ r <= level + (now - lastRefill)
      BY <1>1, <1>3, <2>3
    <3> HIDE DEF c, g, r, cap
    <3>4. g <= now /\ c + r <= cap + (now - g)
      BY <3>1, <3>2, <3>3
    <3> QED
      BY <3>4 DEF c, g, r, cap
  <2> QED
    BY <1>2, <2>4 DEF WithinBudget
<1>6. PermitsBounded'
  BY <1>2 DEF LimInv, PermitsBounded
<1>7. TimerIsRight'
  BY <1>2 DEF TimerIsRight
<1> QED
  BY <1>1, <1>2, <1>4, <1>5, <1>6, <1>7 DEF LimInv, LimTypeOK

\* A permit takes from the bucket what it adds to every budget.
LEMMA PermitKeeps == LimInv /\ Permit => LimInv'
<1> SUFFICES ASSUME LimInv, Permit PROVE LimInv'
  OBVIOUS
<1> DEFINE n == Len(grants)
<1>1. LimTypeOK /\ lastRefill <= now /\ now \in Nat /\ lastRefill \in Nat /\ level \in Nat
  BY CostFacts DEF LimInv, LimTypeOK
<1>2. /\ level' = Refilled - PermitCost /\ lastRefill' = now /\ now' = now /\ wake' = wake
      /\ grants' = Append(grants, now) /\ Refilled >= PermitCost /\ caller' = "idle"
  BY DEF Permit
<1>3. /\ Refilled \in 0..Capacity /\ Refilled <= level + (now - lastRefill)
      /\ PermitCost \in Nat /\ Capacity \in Nat
  BY <1>1, RefilledFacts, CostFacts
<1>4. /\ grants \in Seq(Nat) /\ n \in Nat /\ DOMAIN grants = 1..n
      /\ grants' \in Seq(Nat) /\ Len(grants') = n + 1 /\ DOMAIN grants' = 1..(n + 1)
      /\ grants'[n + 1] = now
      /\ \A i \in 1..n : grants'[i] = grants[i] /\ grants[i] \in Nat
  BY <1>1, <1>2, OneMoreGrant DEF LimTypeOK
<1>5. LimTypeOK'
  BY <1>1, <1>2, <1>3, <1>4, CostFacts DEF LimTypeOK
<1>6. \A i \in 1..n : /\ grants[i] <= lastRefill
                      /\ Cost(n - i + 1) + level <= Capacity + (lastRefill - grants[i])
  BY DEF LimInv, WithinBudget
<1> HIDE DEF n
<1>7. ASSUME NEW i \in 1..(n + 1)
      PROVE  /\ grants'[i] \in Nat /\ grants'[i] <= now
             /\ Cost(n + 1 - i + 1) \in Int
             /\ Cost(n + 1 - i + 1) + (Refilled - PermitCost) <= Capacity + (now - grants'[i])
  <2>1. CASE i = n + 1
    <3>1. Cost(n + 1 - i + 1) = PermitCost
      <4>1. n + 1 - i + 1 = 1
        BY <2>1, <1>4
      <4> QED
        BY <4>1, CostFacts
    <3> QED
      <4>1. grants'[i] = now
        BY <1>4, <2>1
      <4>2. PermitCost + (Refilled - PermitCost) <= Capacity + (now - now)
        BY <1>1, <1>3
      <4> QED
        BY <1>1, <1>3, <3>1, <4>1, <4>2
  <2>2. CASE i # n + 1
    <3>1. i \in 1..n /\ n - i + 1 \in Int /\ n + 1 - i + 1 = (n - i + 1) + 1
      BY <2>2, <1>4, <1>7
    <3>2. Cost(n + 1 - i + 1) = Cost(n - i + 1) + PermitCost /\ Cost(n - i + 1) \in Int
      BY <3>1, CostFacts
    <3>3. grants'[i] = grants[i] /\ grants[i] \in Nat
      BY <3>1, <1>4
    <3>4. grants[i] <= lastRefill /\ Cost(n - i + 1) + level <= Capacity + (lastRefill - grants[i])
      BY <3>1, <1>6
    <3>5. Cost(n + 1 - i + 1) + (Refilled - PermitCost) = Cost(n - i + 1) + Refilled
      BY <3>2, <1>3
    <3>6. Cost(n - i + 1) + Refilled <= Capacity + (now - grants[i])
      BY <3>2, <3>3, <3>4, <1>1, <1>3
    <3>7. Cost(n + 1 - i + 1) \in Int
      BY <3>2, <1>3
    <3> QED
      BY <3>3, <3>4, <3>5, <3>6, <3>7, <1>1
  <2> QED
    BY <2>1, <2>2
<1>8. \A i \in 1..Len(grants') : WithinBudget(i)'
  <2> SUFFICES ASSUME NEW i \in 1..(n + 1) PROVE WithinBudget(i)'
    BY <1>4
  <2>1. grants'[i] <= lastRefill' /\ Cost(n + 1 - i + 1) + level' <= Capacity + (lastRefill' - grants'[i])
    BY <1>2, <1>7
  <2> QED
    BY <1>4, <2>1 DEF WithinBudget, Cost
<1>9. PermitsBounded'
  <2> SUFFICES ASSUME NEW i \in 1..(n + 1), NEW j \in 1..(n + 1), i <= j
               PROVE  (j - i + 1) * PermitCost <= Capacity + (grants'[j] - grants'[i])
    BY <1>4 DEF PermitsBounded, Capacity
  <2>1. CASE j = n + 1
    <3>1. /\ Cost(n + 1 - i + 1) \in Int /\ grants'[i] \in Nat
          /\ Cost(n + 1 - i + 1) + (Refilled - PermitCost) <= Capacity + (now - grants'[i])
      BY <1>7
    <3>2. Refilled - PermitCost \in Nat /\ now \in Nat
      BY <1>1, <1>2, <1>3
    <3>3. Cost(n + 1 - i + 1) <= Capacity + (now - grants'[i])
      BY <3>1, <3>2, <1>3
    <3> QED
      BY <2>1, <3>3, <1>4 DEF Cost
  <2>2. CASE j # n + 1
    <3>1. i \in DOMAIN grants /\ j \in DOMAIN grants /\ grants'[i] = grants[i] /\ grants'[j] = grants[j]
      BY <2>2, <1>4
    <3> QED
      BY <3>1 DEF LimInv, PermitsBounded
  <2> QED
    BY <2>1, <2>2
<1> QED
  BY <1>1, <1>2, <1>5, <1>8, <1>9 DEF LimInv

LEMMA LimKeeps == LimInv /\ [LimNext]_limvars => LimInv'
<1> SUFFICES ASSUME LimInv, [LimNext]_limvars PROVE LimInv'
  OBVIOUS
<1>1. CASE Permit
  BY <1>1, PermitKeeps
<1>2. CASE Sleep
  BY <1>2, SleepKeeps
<1>3. CASE Tick \/ Ask \/ Wake \/ AbortAsk \/ UNCHANGED limvars
  <2>1. /\ UNCHANGED <<level, lastRefill, wake, grants>>
        /\ now' \in {now, now + 1}
        /\ caller' \in {"idle", "asking", caller}
    BY <1>3 DEF Tick, Ask, Wake, AbortAsk, limvars
  <2>2. LimTypeOK' /\ lastRefill' <= now'
    BY <2>1 DEF LimInv, LimTypeOK
  <2>3. /\ \A i \in 1..Len(grants) : WithinBudget(i)'
        /\ PermitsBounded'
        /\ caller' = "asleep" => TimerIsRight'
    BY <2>1 DEF LimInv, WithinBudget, PermitsBounded, TimerIsRight
  <2> QED
    BY <2>1, <2>2, <2>3 DEF LimInv
<1> QED
  BY <1>1, <1>2, <1>3 DEF LimNext

LEMMA LimSafe == LimSpec => []LimInv
  BY LimInitially, LimKeeps, PTL DEF LimSpec

-----------------------------------------------------------------------------
\* rateLimiter.ts:14-60: the bucket is never below empty nor above its capacity,
\* for any burst and price.
THEOREM LimiterTyped == LimSpec => []LimTypeOK
<1>1. LimInv => LimTypeOK
  BY DEF LimInv
<1> QED
  BY <1>1, LimSafe, PTL

\* rateLimiter.ts:4-9: no stretch of time sees more permits than the burst and what
\* it refills, however callers sleep, oversleep and abort.
THEOREM LimiterBounds == LimSpec => []PermitsBounded
<1>1. LimInv => PermitsBounded
  BY DEF LimInv
<1> QED
  BY <1>1, LimSafe, PTL

\* rateLimiter.ts:38-60: a caller whose timer is due finds its permit, so the loop
\* of acquire() sleeps once.
THEOREM OneSleepSuffices == LimSpec => []SleepSuffices
<1>1. LimInv => SleepSuffices
  <2> SUFFICES ASSUME LimInv, caller = "asleep", now >= wake PROVE Refilled >= PermitCost
    BY DEF SleepSuffices
  <2>1. TimerIsRight /\ LimTypeOK /\ lastRefill <= now
    BY DEF LimInv
  <2> QED
    BY <2>1, CostFacts DEF Refilled, TimerIsRight, LimTypeOK
<1> QED
  BY <1>1, LimSafe, PTL

-----------------------------------------------------------------------------
(* The checkpoint gap. *)

\* A page that was reached, with the count of those before it
IsReached(w) ==
  /\ w \in [page : Nat, before : Nat]
  /\ w.before = w.page * PageSize
  /\ w.page = 0 \/ revisions > w.before

\* What the gaps after gap g take
After(g) == (Gaps - g) * GapDuration

Stations == {"start", "look", "floor", "blind", "watch", "poll", "done", "over"}

Bookkeeping ==
  /\ gap \in 1..Gaps /\ at \in Stations
  /\ slept \in 0..GapDuration /\ elapsed \in Nat /\ total \in Nat
  /\ revisions \in Nat \ {0} /\ standing \in Nat /\ standing <= revisions
  /\ disabled \in BOOLEAN
  /\ IsReached(walk) /\ IsReached(resume)
  /\ baseline = <<standing, standing>>

Sleeps ==
  /\ at \in {"start", "look", "floor", "blind"} => slept = 0
  /\ at \in {"watch", "poll"} => slept >= Floored
  /\ at = "done" => gap < Gaps
  /\ Asking \/ at = "floor" => ~disabled

GapInv == Bookkeeping /\ Sleeps /\ FloorSlept /\ CountdownExact

LEMMA Constants ==
  /\ Gaps \in Nat \ {0} /\ GapDuration \in Nat \ {0} /\ PollEvery \in Nat \ {0}
  /\ PageSize \in Nat \ {0} /\ Floored \in Nat /\ Floored <= GapDuration
  BY GapAssumption DEF Floored, Least

LEMMA AfterFacts ==
  /\ \A g \in 1..Gaps : After(g) \in Nat
  /\ \A g \in 1..Gaps : g < Gaps => After(g) = After(g + 1) + GapDuration
<1>1. Gaps \in Nat /\ GapDuration \in Nat
  BY Constants
<1>2. \A k \in Nat : k * GapDuration \in Nat /\ (k + 1) * GapDuration = k * GapDuration + GapDuration
  BY <1>1
<1>3. ASSUME NEW g \in 1..Gaps PROVE After(g) \in Nat
  <2>1. Gaps - g \in Nat
    BY <1>1
  <2> QED
    BY <1>2, <2>1 DEF After
<1>4. ASSUME NEW g \in 1..Gaps, g < Gaps PROVE After(g) = After(g + 1) + GapDuration
  <2>1. Gaps - (g + 1) \in Nat /\ Gaps - g = (Gaps - (g + 1)) + 1
    BY <1>1, <1>4
  <2>2. ((Gaps - (g + 1)) + 1) * GapDuration = (Gaps - (g + 1)) * GapDuration + GapDuration
    BY <1>2, <2>1
  <2> QED
    BY <2>1, <2>2 DEF After
<1> QED
  BY <1>3, <1>4

\* The next page of a listing is reached like those before it.
LEMMA NextPageReached ==
  ASSUME IsReached(walk), MorePages, revisions \in Nat
  PROVE  /\ walk.before + OnPage = (walk.page + 1) * PageSize
         /\ revisions > walk.before + OnPage
         /\ walk.page + 1 \in Nat /\ walk.before + OnPage \in Nat
<1>1. PageSize \in Nat \ {0} /\ walk.page \in Nat /\ walk.before = walk.page * PageSize
  BY Constants DEF IsReached
<1>2. walk.before \in Nat /\ (walk.page + 1) * PageSize = walk.before + PageSize
  BY <1>1
<1>3. revisions > walk.before + PageSize
  BY <1>2 DEF MorePages
<1>4. OnPage = PageSize
  BY <1>1, <1>2, <1>3 DEF OnPage, Least
<1> QED
  BY <1>1, <1>2, <1>3, <1>4

\* On the last page the mark is the number of revisions.
LEMMA MarkCounts ==
  ASSUME IsReached(walk), ~MorePages, revisions \in Nat
  PROVE  Mark = <<revisions, revisions>>
<1>1. PageSize \in Nat \ {0} /\ walk.page \in Nat /\ walk.before = walk.page * PageSize
  BY Constants DEF IsReached
<1>2. walk.before \in Nat /\ (walk.page + 1) * PageSize = walk.before + PageSize
  BY <1>1
<1>3. revisions <= walk.before + PageSize
  BY <1>1, <1>2 DEF MorePages
<1>4. OnPage = revisions - walk.before
  BY <1>1, <1>2, <1>3 DEF OnPage, Least
<1> QED
  BY <1>2, <1>4 DEF Mark

\* The countdown, once Owed is spelled out
LEMMA OwedIs ==
  ASSUME at \in Stations
  PROVE  Owed = After(gap) + (IF at \in {"done", "over"} THEN 0 ELSE GapDuration - slept)
  BY DEF Owed, After, Ended

LEMMA GapInitially == GapInit => GapInv
<1> SUFFICES ASSUME GapInit PROVE GapInv
  OBVIOUS
<1>1. /\ gap = 1 /\ at = "start" /\ slept = 0 /\ elapsed = 0 /\ total = Gaps * GapDuration
      /\ Gaps \in Nat \ {0} /\ GapDuration \in Nat \ {0} /\ PageSize \in Nat
  BY Constants DEF GapInit
<1>2. Bookkeeping
  <2>1. total \in Nat
    BY <1>1
  <2>2. IsReached(walk) /\ IsReached(resume)
    BY <1>1 DEF GapInit, IsReached
  <2>3. gap \in 1..Gaps /\ at \in Stations /\ slept \in 0..GapDuration /\ elapsed \in Nat
    BY <1>1 DEF Stations
  <2>4. /\ revisions \in Nat \ {0} /\ standing \in Nat /\ standing <= revisions
        /\ baseline = <<standing, standing>>
    BY DEF GapInit
  <2>5. disabled \in BOOLEAN
    BY DEF GapInit
  <2> QED
    BY <2>1, <2>2, <2>3, <2>4, <2>5 DEF Bookkeeping
<1>3. Sleeps /\ FloorSlept
  BY <1>1 DEF GapInit, Sleeps, FloorSlept, Ended, Asking
<1>4. CountdownExact
  <2>1. total = After(1) + GapDuration
    <3>1. Gaps * GapDuration = (Gaps - 1) * GapDuration + GapDuration
      BY <1>1
    <3> QED
      BY <1>1, <3>1 DEF After
  <2>2. Owed = After(1) + GapDuration
    BY <1>1, OwedIs DEF Stations
  <2> QED
    BY <1>1, <2>1, <2>2, AfterFacts DEF CountdownExact
<1> QED
  BY <1>2, <1>3, <1>4 DEF GapInv

\* A page stays reached while revisions are only added.
LEMMA StaysReached ==
  ASSUME NEW w, IsReached(w), revisions \in Nat, revisions' \in Nat, revisions' >= revisions
  PROVE  IsReached(w)'
  BY Constants DEF IsReached

\* A poll begins where the last complete one ended; nothing else is touched.
LEMMA WalkKeeps ==
  ASSUME Bookkeeping, walk' \in {walk, resume}, resume' \in {walk, resume},
         UNCHANGED <<revisions, standing, baseline>>
  PROVE  /\ IsReached(walk)' /\ IsReached(resume)'
         /\ revisions' \in Nat \ {0} /\ standing' \in Nat /\ standing' <= revisions'
         /\ baseline' = <<standing', standing'>>
  BY DEF Bookkeeping, IsReached

\* What the job has slept, when nobody sleeps
LEMMA StillSlept ==
  ASSUME GapInv, at' \in Stations \ {"done", "over"}, at \notin {"done", "over"},
         UNCHANGED <<gap, slept, elapsed, total>>, disabled => disabled'
  PROVE  FloorSlept' /\ CountdownExact'
<1>1. FloorSlept'
  BY DEF FloorSlept, Ended
<1>2. CountdownExact'
  BY DEF GapInv, CountdownExact, Owed, Ended
<1> QED
  BY <1>1, <1>2

\* Sleeping takes the same off the gap and puts it on the clock.
LEMMA SleepCounts ==
  ASSUME GapInv, NEW ms \in Nat, slept + ms <= GapDuration, Slept(ms), at' \in Stations,
         at \notin {"done", "over"},
         at' \in {"done", "over"} => slept + ms = GapDuration \/ disabled,
         UNCHANGED <<gap, total, disabled>>
  PROVE  slept' \in 0..GapDuration /\ elapsed' \in Nat /\ CountdownExact'
<1>1. /\ slept \in Nat /\ elapsed \in Nat /\ total \in Nat /\ GapDuration \in Nat
      /\ After(gap) \in Nat /\ at \in Stations /\ gap' = gap
  BY Constants, AfterFacts DEF GapInv, Bookkeeping
<1>2. slept' = slept + ms /\ elapsed' = elapsed + ms
  BY DEF Slept
<1>3. CountdownExact'
  <2> SUFFICES ASSUME ~disabled PROVE total' - elapsed' = Owed'
    BY DEF CountdownExact
  <2>1. total - elapsed = After(gap) + (GapDuration - slept)
    <3>1. total - elapsed = Owed
      BY DEF GapInv, CountdownExact
    <3>2. Owed = After(gap) + (GapDuration - slept)
      BY <1>1, OwedIs
    <3> QED
      BY <3>1, <3>2
  <2>2. Owed' = After(gap) + (IF at' \in {"done", "over"} THEN 0 ELSE GapDuration - slept')
    BY <1>1 DEF Owed, After, Ended
  <2>3. total' - elapsed' = After(gap) + (GapDuration - slept')
    BY <1>1, <1>2, <2>1
  <2>4. CASE at' \in {"done", "over"}
    <3>1. GapDuration - slept' = 0
      BY <1>1, <1>2, <2>4
    <3> QED
      BY <2>2, <2>3, <2>4, <3>1
  <2>5. CASE at' \notin {"done", "over"}
    BY <2>2, <2>3, <2>5
  <2> QED
    BY <2>4, <2>5
<1> QED
  BY <1>1, <1>2, <1>3

-----------------------------------------------------------------------------
\* Steps that look at the listing and neither sleep nor end the gap
LEMMA LookingKeeps ==
  ASSUME GapInv, BeginGap \/ TurnPage \/ TakeBaseline \/ SeeNoChange \/ PollFails
  PROVE  GapInv'
<1>1. /\ UNCHANGED <<gap, slept, elapsed, total, revisions>>
      /\ at' \in Stations \ {"done", "over"} /\ at \in Stations \ {"done", "over"}
  <2>1. CASE BeginGap
    BY <2>1 DEF BeginGap, Stations, clock, world
  <2>2. CASE TurnPage
    BY <2>2 DEF TurnPage, Asking, Stations, clock, world
  <2>3. CASE TakeBaseline
    BY <2>3 DEF TakeBaseline, Stations, clock, world
  <2>4. CASE SeeNoChange
    BY <2>4 DEF SeeNoChange, Stations, clock, world
  <2>5. CASE PollFails
    BY <2>5 DEF PollFails, Asking, Stations, clock
  <2> QED
    BY <2>1, <2>2, <2>3, <2>4, <2>5
<1>2. disabled' \in BOOLEAN /\ (disabled => disabled')
  BY DEF BeginGap, TurnPage, TakeBaseline, SeeNoChange, PollFails, CountError, GapInv, Bookkeeping, Sleeps
<1>3. Bookkeeping'
  <2>1. CASE BeginGap \/ PollFails
    <3>1. walk' \in {walk, resume} /\ resume' = resume /\ UNCHANGED <<revisions, standing, baseline>>
      BY <1>1, <2>1 DEF BeginGap, PollFails
    <3>2. /\ IsReached(walk)' /\ IsReached(resume)'
          /\ revisions' \in Nat \ {0} /\ standing' \in Nat /\ standing' <= revisions'
          /\ baseline' = <<standing', standing'>>
      BY <3>1, WalkKeeps DEF GapInv
    <3> QED
      BY <1>1, <1>2, <3>2 DEF GapInv, Bookkeeping
  <2>2. CASE TurnPage
    <3>1. /\ walk.before + OnPage = (walk.page + 1) * PageSize
          /\ revisions > walk.before + OnPage
          /\ walk.page + 1 \in Nat /\ walk.before + OnPage \in Nat
      BY <2>2, NextPageReached DEF TurnPage, GapInv, Bookkeeping
    <3>2. /\ walk' = [page |-> walk.page + 1, before |-> walk.before + OnPage]
          /\ resume' = resume /\ standing' = standing /\ baseline' = baseline
      BY <2>2 DEF TurnPage
    <3>3. IsReached(walk)'
      BY <1>1, <3>1, <3>2 DEF IsReached
    <3>4. IsReached(resume)'
      BY <1>1, <3>2 DEF IsReached, GapInv, Bookkeeping
    <3> QED
      BY <1>1, <1>2, <3>2, <3>3, <3>4 DEF GapInv, Bookkeeping
  <2>3. CASE SeeNoChange
    <3>1. walk' = walk /\ resume' = walk /\ UNCHANGED <<revisions, standing, baseline>>
      BY <1>1, <2>3 DEF SeeNoChange, Keep
    <3>2. /\ IsReached(walk)' /\ IsReached(resume)'
          /\ revisions' \in Nat \ {0} /\ standing' \in Nat /\ standing' <= revisions'
          /\ baseline' = <<standing', standing'>>
      BY <3>1, WalkKeeps DEF GapInv
    <3> QED
      BY <1>1, <1>2, <3>2 DEF GapInv, Bookkeeping
  <2>4. CASE TakeBaseline
    <3>1. Mark = <<revisions, revisions>>
      BY <2>4, MarkCounts DEF TakeBaseline, GapInv, Bookkeeping
    <3>2. walk' = walk /\ resume' = walk /\ baseline' = <<revisions, revisions>> /\ standing' = revisions
      BY <2>4, <3>1 DEF TakeBaseline, Keep
    <3>3. IsReached(walk)' /\ IsReached(resume)'
      BY <1>1, <3>2 DEF IsReached, GapInv, Bookkeeping
    <3> QED
      BY <1>1, <1>2, <3>2, <3>3 DEF GapInv, Bookkeeping
  <2> QED
    BY <2>1, <2>2, <2>3, <2>4
<1>4. Sleeps'
  BY <1>1 DEF GapInv, Bookkeeping, Sleeps, BeginGap, TurnPage, TakeBaseline, SeeNoChange, PollFails,
              CountError, Asking, Stations, Floored
<1>5. FloorSlept' /\ CountdownExact'
  BY <1>1, <1>2, StillSlept
<1> QED
  BY <1>3, <1>4, <1>5 DEF GapInv

\* The sleeps of a gap
LEMMA SleepingKeeps ==
  ASSUME GapInv, SleepBlind \/ SleepFloor \/ SleepStep
  PROVE  GapInv'
<1>1. /\ slept \in 0..GapDuration /\ at \in Stations /\ gap \in 1..Gaps
      /\ disabled \in BOOLEAN
  BY DEF GapInv, Bookkeeping
<1>2. /\ UNCHANGED <<gap, revisions, standing, baseline, resume, disabled, total>>
      /\ walk' \in {walk, resume}
  BY DEF SleepBlind, SleepFloor, SleepStep, watcher, world
<1>3. /\ IsReached(walk)' /\ IsReached(resume)'
      /\ revisions' \in Nat \ {0} /\ standing' \in Nat /\ standing' <= revisions'
      /\ baseline' = <<standing', standing'>>
  BY <1>2, WalkKeeps DEF GapInv
<1>4. PICK d \in Nat : /\ Slept(d) /\ slept + d <= GapDuration
                       /\ at' \in {"done", "over"} => slept + d = GapDuration \/ (at = "watch" /\ disabled)
                       /\ at' \in {"watch", "poll", "done", "over"} /\ slept + d >= Floored
                       /\ at' = "poll" => ~disabled
                       /\ at' = "watch" => ~disabled
                       /\ at' = "done" => gap < Gaps
                       /\ at \notin {"done", "over"}
  <2>1. CASE SleepBlind
    <3>1. slept = 0 /\ Slept(GapDuration) /\ at' = IF gap = Gaps THEN "over" ELSE "done"
      BY <2>1 DEF SleepBlind, GapInv, Sleeps, Leave
    <3>2. at = "blind" /\ GapDuration \in Nat /\ slept + GapDuration = GapDuration
      BY <2>1, <3>1, Constants DEF SleepBlind
    <3>3. slept + GapDuration >= Floored /\ slept + GapDuration <= GapDuration
      BY <3>2, Constants
    <3>4. at' = "done" => gap < Gaps
      BY <1>1, <3>1, Constants
    <3>5. at' \in {"done", "over"}
      BY <3>1
    <3> QED
      BY <3>1, <3>2, <3>3, <3>4, <3>5
  <2>2. CASE SleepFloor
    <3>1. /\ slept = 0 /\ Slept(Floored) /\ ~disabled /\ at = "floor"
          /\ at' = IF GapDuration <= Floored THEN (IF gap = Gaps THEN "over" ELSE "done") ELSE "watch"
      BY <2>2 DEF SleepFloor, GapInv, Sleeps, Leave
    <3> QED
      BY <1>1, <3>1, Constants
  <2>3. CASE SleepStep
    <3> DEFINE d == Least(PollEvery, GapDuration - slept)
    <3>1. /\ slept < GapDuration /\ slept >= Floored /\ Slept(d) /\ at = "watch"
          /\ at' = IF disabled THEN (IF gap = Gaps THEN "over" ELSE "done") ELSE "poll"
      BY <2>3 DEF SleepStep, GapInv, Sleeps, Leave
    <3>2. d \in Nat /\ slept + d <= GapDuration /\ slept + d >= Floored
      BY <1>1, <3>1, Constants DEF Least
    <3>3. /\ at' \in {"done", "over"} => disabled
          /\ at' = "poll" => ~disabled
          /\ at' = "done" => gap < Gaps
          /\ at' # "watch" /\ at' \in {"watch", "poll", "done", "over"}
      BY <1>1, <3>1, Constants
    <3> HIDE DEF d
    <3> QED
      BY <3>1, <3>2, <3>3
  <2> QED
    BY <2>1, <2>2, <2>3
<1>5. at' \in Stations /\ slept' = slept + d
  BY <1>4 DEF Stations, Slept
<1>6. slept' \in 0..GapDuration /\ elapsed' \in Nat /\ CountdownExact'
  BY <1>2, <1>4, <1>5, SleepCounts
<1>7. Bookkeeping'
  BY <1>1, <1>2, <1>3, <1>5, <1>6 DEF GapInv, Bookkeeping
<1>8. Sleeps'
  BY <1>1, <1>2, <1>4, <1>5 DEF Sleeps, Asking, Floored
<1>9. FloorSlept'
  BY <1>1, <1>4, <1>5 DEF FloorSlept, Floored
<1> QED
  BY <1>6, <1>7, <1>8, <1>9 DEF GapInv

-----------------------------------------------------------------------------
\* A revision may arrive at any moment: what was counted is still there.
LEMMA ArrivalKeeps == ASSUME GapInv, NewRevision PROVE GapInv'
<1>1. /\ revisions' = revisions + 1 /\ UNCHANGED <<gap, at, watcher, clock, standing>>
      /\ revisions \in Nat /\ standing \in Nat /\ standing <= revisions
  BY DEF NewRevision, GapInv, Bookkeeping
<1>2. IsReached(walk)' /\ IsReached(resume)'
  <2>1. revisions' \in Nat /\ revisions' >= revisions
    BY <1>1
  <2>2. walk' = walk /\ resume' = resume
    BY <1>1 DEF watcher
  <2> QED
    BY <1>1, <2>1, <2>2, Constants DEF IsReached, GapInv, Bookkeeping
<1>3. Bookkeeping'
  BY <1>1, <1>2 DEF GapInv, Bookkeeping, watcher, clock
<1>4. Sleeps'
  BY <1>1 DEF GapInv, Sleeps, Asking, Floored, watcher, clock
<1>5. FloorSlept'
  BY <1>1 DEF GapInv, FloorSlept, Ended, Floored, watcher, clock
<1>6. CountdownExact'
  BY <1>1 DEF GapInv, CountdownExact, Owed, Ended, watcher, clock
<1> QED
  BY <1>3, <1>4, <1>5, <1>6 DEF GapInv

\* The next gap starts on what the plan still owes.
LEMMA NextGapKeeps == ASSUME GapInv, NextGap PROVE GapInv'
<1>1. /\ at = "done" /\ gap' = gap + 1 /\ at' = "start" /\ slept' = 0
      /\ UNCHANGED <<watcher, total, elapsed, world, standing>>
      /\ gap \in 1..Gaps /\ gap < Gaps /\ GapDuration \in Nat /\ Gaps \in Nat
  BY Constants DEF NextGap, GapInv, Bookkeeping, Sleeps
<1>2. UNCHANGED <<walk, resume, revisions, standing, baseline, disabled, total, elapsed>>
  BY <1>1 DEF watcher, world
<1>3. /\ IsReached(walk)' /\ IsReached(resume)'
      /\ revisions' \in Nat \ {0} /\ standing' \in Nat /\ standing' <= revisions'
      /\ baseline' = <<standing', standing'>>
  BY <1>2, WalkKeeps DEF GapInv
<1>4. Bookkeeping'
  <2>1. gap' \in 1..Gaps /\ at' \in Stations /\ slept' \in 0..GapDuration
    <3>1. gap + 1 \in 1..Gaps /\ 0 \in 0..GapDuration
      BY <1>1
    <3>2. "start" \in Stations
      BY DEF Stations
    <3> QED
      BY <1>1, <3>1, <3>2
  <2>2. elapsed' \in Nat /\ total' \in Nat /\ disabled' \in BOOLEAN
    BY <1>2 DEF GapInv, Bookkeeping
  <2> QED
    BY <1>3, <2>1, <2>2 DEF Bookkeeping
<1>5. Sleeps' /\ FloorSlept'
  BY <1>1 DEF Sleeps, FloorSlept, Ended, Asking
<1>6. CountdownExact'
  <2>1. After(gap) = After(gap + 1) + GapDuration /\ After(gap + 1) \in Nat
    <3>1. gap + 1 \in 1..Gaps
      BY <1>1
    <3> QED
      BY <1>1, <3>1, AfterFacts
  <2>2. Owed = After(gap) + 0
    BY <1>1 DEF Owed, After, Ended
  <2>3. Owed' = After(gap + 1) + (GapDuration - 0)
    BY <1>1 DEF Owed, After, Ended
  <2>4. Owed' = Owed
    BY <1>1, <2>1, <2>2, <2>3
  <2> QED
    BY <1>2, <2>4 DEF GapInv, CountdownExact
<1> QED
  BY <1>4, <1>5, <1>6 DEF GapInv

\* The budget of the gap is spent: it ends on time.
LEMMA BudgetKeeps == ASSUME GapInv, BudgetSpent PROVE GapInv'
<1>1. /\ at = "watch" /\ slept >= GapDuration
      /\ at' = IF gap = Gaps THEN "over" ELSE "done"
      /\ UNCHANGED <<gap, walk, resume, revisions, standing, baseline, disabled,
                     slept, total, elapsed>>
      /\ gap \in 1..Gaps /\ slept \in 0..GapDuration /\ GapDuration \in Nat /\ Gaps \in Nat
  BY Constants DEF BudgetSpent, Leave, GapInv, Bookkeeping, watcher, clock, world
<1>2. slept = GapDuration
  BY <1>1
<1>3. /\ IsReached(walk)' /\ IsReached(resume)'
      /\ revisions' \in Nat \ {0} /\ standing' \in Nat /\ standing' <= revisions'
      /\ baseline' = <<standing', standing'>>
  BY <1>1, WalkKeeps DEF GapInv
<1>4. at' \in {"done", "over"} /\ (at' = "done" => gap < Gaps)
  BY <1>1
<1>5. Bookkeeping'
  BY <1>1, <1>3, <1>4 DEF GapInv, Bookkeeping, Stations
<1>6. Sleeps' /\ FloorSlept'
  BY <1>1, <1>2, <1>4 DEF Sleeps, FloorSlept, Ended, Asking
<1>7. CountdownExact'
  <2>1. Owed = After(gap) + 0 /\ Owed' = After(gap) + 0
    BY <1>1, <1>2, <1>4 DEF Owed, After, Ended
  <2> QED
    BY <1>1, <2>1 DEF GapInv, CountdownExact
<1> QED
  BY <1>5, <1>6, <1>7 DEF GapInv

\* A gap that ends on a change: what it no longer needs comes off the countdown.
LEMMA ChangeKeeps == ASSUME GapInv, SeeChange PROVE GapInv'
<1>1. /\ at = "poll" /\ ~MorePages /\ Mark # baseline /\ walk' = walk /\ resume' = walk
      /\ IF slept < GapDuration THEN TotalLess ELSE UNCHANGED total
      /\ at' = IF gap = Gaps THEN "over" ELSE "done"
      /\ UNCHANGED <<gap, revisions, standing, baseline, disabled, slept, elapsed>>
  BY DEF SeeChange, Keep, Leave, world
<1>2. /\ gap \in 1..Gaps /\ slept \in 0..GapDuration /\ GapDuration \in Nat /\ Gaps \in Nat
      /\ elapsed \in Nat /\ total \in Nat /\ After(gap) \in Nat
      /\ revisions \in Nat /\ standing \in Nat /\ standing <= revisions
      /\ slept >= Floored /\ ~disabled
  BY <1>1, Constants, AfterFacts DEF GapInv, Bookkeeping, Sleeps, Asking
<1>4. at' \in {"done", "over"} /\ (at' = "done" => gap < Gaps)
  BY <1>1, <1>2
<1>5. total' \in Nat /\ total' - elapsed' = After(gap)
  <2>1. total - elapsed = After(gap) + (GapDuration - slept)
    <3>1. total - elapsed = Owed
      BY <1>2 DEF GapInv, CountdownExact
    <3>2. Owed = After(gap) + (GapDuration - slept)
      BY <1>1 DEF Owed, After, Ended
    <3> QED
      BY <3>1, <3>2
  <2>2. CASE slept < GapDuration
    <3>1. total' = IF total - (GapDuration - slept) > elapsed
                     THEN total - (GapDuration - slept) ELSE elapsed
      BY <1>1, <2>2 DEF TotalLess
    <3> QED
      BY <1>1, <1>2, <2>1, <3>1
  <2>3. CASE slept = GapDuration
    <3>1. total' = total
      BY <1>1, <1>2, <2>3
    <3> QED
      BY <1>1, <1>2, <2>1, <2>3, <3>1
  <2> QED
    BY <1>2, <2>2, <2>3
<1>6. Bookkeeping'
  <2>1. /\ IsReached(walk)' /\ IsReached(resume)'
        /\ revisions' \in Nat \ {0} /\ standing' \in Nat /\ standing' <= revisions'
        /\ baseline' = <<standing', standing'>>
    <3>1. walk' \in {walk, resume} /\ resume' \in {walk, resume}
      BY <1>1
    <3> QED
      BY <1>1, <3>1, WalkKeeps DEF GapInv
  <2> QED
    BY <1>1, <1>2, <1>4, <1>5, <2>1 DEF GapInv, Bookkeeping, Stations
<1>7. Sleeps' /\ FloorSlept'
  BY <1>1, <1>2, <1>4 DEF Sleeps, FloorSlept, Ended, Asking, Floored
<1>8. CountdownExact'
  <2>1. Owed' = After(gap) + 0
    BY <1>1, <1>4 DEF Owed, After, Ended
  <2> QED
    BY <1>2, <1>5, <2>1 DEF CountdownExact
<1> QED
  BY <1>6, <1>7, <1>8 DEF GapInv

\* Nothing moves.
LEMMA StutterKeeps == ASSUME GapInv, UNCHANGED gapvars PROVE GapInv'
<1>1. UNCHANGED <<gap, at, slept, revisions, baseline, resume, walk, disabled, total, elapsed,
                 standing>>
  BY DEF gapvars, watcher, clock, world
<1> QED
  BY <1>1 DEF GapInv, Bookkeeping, Sleeps, FloorSlept, CountdownExact, Owed, Ended, Asking,
              Floored, IsReached

-----------------------------------------------------------------------------
LEMMA GapInvariant == GapSpec => []GapInv
<1>1. GapInit => GapInv
  BY GapInitially
<1>2. GapInv /\ [GapNext]_gapvars => GapInv'
  <2> SUFFICES ASSUME GapInv, [GapNext]_gapvars PROVE GapInv'
    OBVIOUS
  <2>1. CASE BeginGap \/ TurnPage \/ TakeBaseline \/ SeeNoChange \/ PollFails
    BY <2>1, LookingKeeps
  <2>2. CASE SleepBlind \/ SleepFloor \/ SleepStep
    BY <2>2, SleepingKeeps
  <2>3. CASE NextGap
    BY <2>3, NextGapKeeps
  <2>4. CASE BudgetSpent
    BY <2>4, BudgetKeeps
  <2>5. CASE SeeChange
    BY <2>5, ChangeKeeps
  <2>6. CASE NewRevision
    BY <2>6, ArrivalKeeps
  <2>7. CASE UNCHANGED gapvars
    BY <2>7, StutterKeeps
  <2> QED
    BY <2>1, <2>2, <2>3, <2>4, <2>5, <2>6, <2>7 DEF GapNext, GapStep
<1> QED
  BY <1>1, <1>2, PTL DEF GapSpec

\* observe() of revisions.ts (the page remembered with the count before it) under
\* runner.ts:168-205: whatever the page size, and however often a listing was cut
\* off or added to, a poll that comes to its end tells a revision made since the
\* baseline from none; and a gap that ends early has lasted its floor.
THEOREM RevisionsStaySeen == GapSpec => []RevisionsAreSeen
<1>1. GapInv => RevisionsAreSeen
  <2> SUFFICES ASSUME GapInv, ~MorePages PROVE Mark # baseline <=> revisions > standing
    BY DEF RevisionsAreSeen, GapInv
  <2>1. /\ IsReached(walk) /\ revisions \in Nat /\ standing \in Nat /\ standing <= revisions
        /\ baseline = <<standing, standing>>
    BY DEF GapInv, Bookkeeping
  <2>2. Mark = <<revisions, revisions>>
    BY <2>1, MarkCounts
  <2> QED
    BY <2>1, <2>2
<1> QED
  BY <1>1, GapInvariant, PTL

\* runner.ts:168-205: while the watcher works, total minus elapsed is exactly the
\* sleep still to come, for any number of gaps ended early.
THEOREM CountdownStaysExact == GapSpec => []CountdownExact
<1>1. GapInv => CountdownExact
  BY DEF GapInv
<1> QED
  BY <1>1, GapInvariant, PTL

\* The watcher gives up at the last error it may see in a row.
Errors == inARow \in 0..ErrorsInARow /\ (inARow = ErrorsInARow => disabled)

\* The gap's state is what it should be: the errors in a row stop at their limit.
THEOREM GapTyped == GapSpec => []GapTypeOK
<1> DEFINE Limits == Errors /\ badPolls \in 0..MaxBadPolls /\ revisions \in 1..MaxRevisions
<1>c. ErrorsInARow \in Nat \ {0} /\ MaxBadPolls \in Nat /\ MaxRevisions \in Nat \ {0}
  BY GapAssumption
<1>1. GapInit => Limits
  BY <1>c DEF GapInit, Errors
<1>2. GapInv /\ Limits /\ [GapNext]_gapvars => Limits'
  <2> SUFFICES ASSUME GapInv, Limits, [GapNext]_gapvars PROVE Limits'
    OBVIOUS
  <2>1. CASE \/ BeginGap \/ NextGap \/ SleepBlind \/ SleepFloor \/ SleepStep \/ BudgetSpent \/ TurnPage
             \/ UNCHANGED gapvars
    <3>1. UNCHANGED <<inARow, disabled, badPolls, revisions>>
      BY <2>1 DEF BeginGap, NextGap, SleepBlind, SleepFloor, SleepStep, BudgetSpent, TurnPage,
                  gapvars, watcher, world
    <3> QED
      BY <3>1 DEF Errors
  <2>2. CASE TakeBaseline \/ SeeNoChange \/ SeeChange
    <3>1. inARow' = 0 /\ UNCHANGED <<badPolls, revisions>>
      BY <2>2 DEF TakeBaseline, SeeNoChange, SeeChange, Keep, world
    <3> QED
      BY <1>c, <3>1 DEF Errors
  <2>3. CASE PollFails
    <3>1. PICK permanent \in BOOLEAN : CountError(permanent)
      BY <2>3 DEF PollFails
    <3>2. ~disabled
      BY <2>3 DEF PollFails, GapInv, Sleeps
    <3>3. badPolls' \in 0..MaxBadPolls /\ revisions' = revisions
      BY <1>c, <2>3 DEF PollFails
    <3>4. Errors'
      <4>1. CASE permanent
        <5>1. inARow' = inARow /\ disabled'
          BY <3>1, <4>1 DEF CountError
        <5> QED
          BY <5>1 DEF Errors
      <4>2. CASE ~permanent
        <5>1. inARow' = inARow + 1 /\ disabled' = (inARow + 1 >= ErrorsInARow)
          BY <3>1, <4>2 DEF CountError
        <5>2. inARow \in 0..ErrorsInARow /\ inARow # ErrorsInARow
          BY <3>2 DEF Errors
        <5>3. inARow + 1 \in 0..ErrorsInARow /\ (inARow + 1 = ErrorsInARow => inARow + 1 >= ErrorsInARow)
          BY <1>c, <5>2
        <5> QED
          BY <5>1, <5>3 DEF Errors
      <4> QED
        BY <4>1, <4>2
    <3> QED
      BY <3>3, <3>4
  <2>4. CASE NewRevision
    <3>1. revisions' \in 1..MaxRevisions
      BY <1>c, <2>4 DEF NewRevision
    <3> QED
      BY <2>4, <3>1 DEF NewRevision, watcher, Errors
  <2> QED
    BY <2>1, <2>2, <2>3, <2>4 DEF GapNext, GapStep
<1>3. GapInv /\ Limits => GapTypeOK
  BY DEF GapInv, Bookkeeping, Stations, Errors, GapTypeOK
<1> HIDE DEF Limits
<1> QED
  BY <1>1, <1>2, <1>3, GapInvariant, PTL DEF GapSpec

-----------------------------------------------------------------------------
\* ---- The composer's price

\* Each estimate asked for has an id of its own.
EstimatesTyped ==
  /\ requestId \in Nat
  /\ \A e \in estimates : e \in [id : 0..requestId, text : 0..MaxEdits, aborted : BOOLEAN]
  /\ \A e, f \in estimates : e.id = f.id => e = f

\* One that was not called off is the latest, of the text as it is.
AskedLast == \A e \in estimates : ~e.aborted => e.id = requestId /\ e.text = text /\ ~armed

\* The price is that of the text, or is undefined, or is still to come, or its request
\* has failed.
PriceComes ==
  \/ armed \/ (\E e \in estimates : ~e.aborted)
  \/ priced \in {text, NoPrice}
  \/ priceFailed /\ \A e \in estimates : e.id # requestId

OneStart == creating = IF progress = "starting" THEN 1 ELSE 0

ComposerInv == ComposerTypeOK /\ EstimatesTyped /\ AskedLast /\ PriceComes /\ OneStart

LEMMA TextSet ==
  ASSUME ComposerInv, NEW version \in 0..MaxEdits, SetText(version)
  PROVE  ComposerInv'
<1>1. ComposerTypeOK /\ EstimatesTyped
  BY DEF ComposerInv
<1>2. /\ text' = version /\ armed' = (version # 0) /\ estimates' = Aborted
      /\ UNCHANGED <<requestId, priceFailed, button, progress, creating>>
      /\ priced' = (IF version = 0 THEN 0 ELSE priced) /\ measuring' \in BOOLEAN
  BY DEF SetText, Arm
<1>3. 0 \in 0..MaxEdits
  BY ComposerAssumption
<1>4. ComposerTypeOK'
  BY <1>1, <1>2, <1>3 DEF ComposerTypeOK
<1>5. ASSUME NEW x \in estimates'
      PROVE  \E e \in estimates :
               /\ x = [e EXCEPT !.aborted = TRUE] /\ x.id = e.id /\ x.aborted
               /\ x \in [id : 0..requestId, text : 0..MaxEdits, aborted : BOOLEAN]
  <2>1. PICK e \in estimates : x = [e EXCEPT !.aborted = TRUE]
    BY <1>2 DEF Aborted
  <2>2. e \in [id : 0..requestId, text : 0..MaxEdits, aborted : BOOLEAN]
    BY <1>1 DEF EstimatesTyped
  <2>3. x.id = e.id /\ x.aborted /\ x \in [id : 0..requestId, text : 0..MaxEdits, aborted : BOOLEAN]
    BY <2>1, <2>2
  <2> QED
    BY <2>1, <2>3
<1>6. ASSUME NEW x \in estimates', NEW y \in estimates', x.id = y.id PROVE x = y
  <2>1. PICK e \in estimates : x = [e EXCEPT !.aborted = TRUE] /\ x.id = e.id
    BY <1>5
  <2>2. PICK f \in estimates : y = [f EXCEPT !.aborted = TRUE] /\ y.id = f.id
    BY <1>5
  <2>3. e = f
    BY <1>1, <1>6, <2>1, <2>2 DEF EstimatesTyped
  <2> QED
    BY <2>1, <2>2, <2>3
<1>7. EstimatesTyped'
  BY <1>1, <1>2, <1>5, <1>6 DEF EstimatesTyped
<1>8. AskedLast'
  BY <1>5 DEF AskedLast
<1>9. PriceComes'
  BY <1>2 DEF PriceComes
<1>10. OneStart'
  BY <1>2 DEF ComposerInv, OneStart
<1> QED
  BY <1>4, <1>7, <1>8, <1>9, <1>10 DEF ComposerInv

LEMMA TextMeasured ==
  ASSUME ComposerInv, TimerFires
  PROVE  ComposerInv'
<1>1. ComposerTypeOK /\ EstimatesTyped /\ AskedLast /\ OneStart
  BY DEF ComposerInv
<1> DEFINE r == [id |-> requestId', text |-> text, aborted |-> FALSE]
<1>2. /\ armed /\ ~armed' /\ requestId' = requestId + 1 /\ estimates' = estimates \cup {r}
      /\ UNCHANGED <<text, priced, measuring, priceFailed, button, progress, creating>>
      /\ armed' \in BOOLEAN
  BY DEF TimerFires
<1>3. requestId \in Nat /\ text \in 0..MaxEdits
  BY <1>1 DEF EstimatesTyped, ComposerTypeOK
<1>4. /\ r.id = requestId + 1 /\ r.text = text /\ ~r.aborted
      /\ r \in [id : 0..requestId', text : 0..MaxEdits, aborted : BOOLEAN]
  BY <1>2, <1>3
<1> HIDE DEF r
<1>5. \A e \in estimates : /\ e \in [id : 0..requestId', text : 0..MaxEdits, aborted : BOOLEAN]
                           /\ e.id # requestId + 1
  <2> TAKE e \in estimates
  <2>1. e \in [id : 0..requestId, text : 0..MaxEdits, aborted : BOOLEAN]
    BY <1>1 DEF EstimatesTyped
  <2>2. e.id \in 0..requestId' /\ e.id # requestId + 1
    BY <1>2, <1>3, <2>1
  <2> QED
    BY <2>1, <2>2
<1>6. EstimatesTyped'
  <2>1. requestId' \in Nat
    BY <1>2, <1>3
  <2> QED
    BY <1>1, <1>2, <1>4, <1>5, <2>1 DEF EstimatesTyped
<1>7. AskedLast'
  BY <1>1, <1>2, <1>4 DEF AskedLast
<1>8. PriceComes'
  BY <1>2, <1>4 DEF PriceComes
<1>9. ComposerTypeOK' /\ OneStart'
  BY <1>1, <1>2 DEF ComposerTypeOK, OneStart
<1> QED
  BY <1>6, <1>7, <1>8, <1>9 DEF ComposerInv

LEMMA EstimateBack ==
  ASSUME ComposerInv, Estimated \/ EmptyAnswer \/ EstimateFails
  PROVE  ComposerInv'
<1>1. ComposerTypeOK /\ EstimatesTyped /\ AskedLast /\ PriceComes /\ OneStart
  BY DEF ComposerInv
<1>2. PICK e \in estimates :
        /\ estimates' = estimates \ {e}
        /\ UNCHANGED <<text, armed, requestId, button, progress, creating>>
        /\ \/ /\ ~e.aborted
              /\ IF e.id = requestId
                   THEN priced' = e.text /\ measuring' = FALSE /\ priceFailed' = FALSE
                   ELSE UNCHANGED <<priced, measuring, priceFailed>>
           \/ IF e.id = requestId
                THEN priced' = NoPrice /\ measuring' = FALSE /\ priceFailed' = FALSE
                ELSE UNCHANGED <<priced, measuring, priceFailed>>
           \/ /\ priced' = priced
              /\ IF e.id = requestId THEN measuring' = FALSE /\ priceFailed' = ~e.aborted
                 ELSE UNCHANGED <<measuring, priceFailed>>
  <2>1. CASE Estimated
    BY <2>1 DEF Estimated
  <2>2. CASE EstimateFails
    BY <2>2 DEF EstimateFails
  <2>3. CASE EmptyAnswer
    BY <2>3 DEF EmptyAnswer
  <2> QED
    BY <2>1, <2>2, <2>3
<1>3. e.aborted \in BOOLEAN /\ e.text \in 0..MaxEdits
  BY <1>1 DEF EstimatesTyped
<1>4. ComposerTypeOK' /\ OneStart'
  BY <1>1, <1>2, <1>3 DEF ComposerTypeOK, OneStart
<1>5. EstimatesTyped' /\ AskedLast'
  BY <1>1, <1>2 DEF EstimatesTyped, AskedLast
<1>6. ~e.aborted => e.id = requestId /\ e.text = text
  BY <1>1 DEF AskedLast
<1>7. \A f \in estimates : f # e => f.id # e.id
  BY <1>1 DEF EstimatesTyped
<1>8. PriceComes'
  <2>1. CASE e.id # requestId
    <3>1. e.aborted /\ UNCHANGED <<priced, priceFailed>>
      BY <1>2, <1>6, <2>1
    <3> QED
      BY <1>1, <1>2, <3>1 DEF PriceComes
  <2>2. CASE e.id = requestId /\ e.aborted
    <3>1. \A f \in estimates : f.aborted
      BY <1>1, <1>7, <2>2 DEF AskedLast
    <3>2. priced' = priced \/ priced' = NoPrice
      BY <1>2, <2>2
    <3> QED
      BY <1>1, <1>2, <2>2, <3>1, <3>2 DEF PriceComes
  <2>3. CASE e.id = requestId /\ ~e.aborted
    <3>1. priced' \in {text, NoPrice} \/ priceFailed'
      BY <1>2, <1>6, <2>3
    <3>2. \A f \in estimates' : f.id # requestId'
      BY <1>2, <1>7, <2>3
    <3> QED
      BY <1>2, <3>1, <3>2 DEF PriceComes
  <2> QED
    BY <2>1, <2>2, <2>3
<1> QED
  BY <1>4, <1>5, <1>8 DEF ComposerInv

LEMMA StartsOnce ==
  ASSUME ComposerInv, Render \/ StartJob \/ JobCreated \/ JobOver \/ UNCHANGED composervars
  PROVE  ComposerInv'
<1>1. ComposerTypeOK /\ EstimatesTyped /\ AskedLast /\ PriceComes /\ OneStart
  BY DEF ComposerInv
<1>2. UNCHANGED <<text, armed, estimates, requestId, priced, measuring, priceFailed>>
  BY DEF Render, StartJob, JobCreated, JobOver, composervars, estimation
<1>3. EstimatesTyped' /\ AskedLast' /\ PriceComes'
  BY <1>1, <1>2 DEF EstimatesTyped, AskedLast, PriceComes
<1>4. button' \in BOOLEAN
  BY <1>1 DEF Render, StartJob, JobCreated, JobOver, composervars, CanStart, ComposerTypeOK
<1>5. /\ progress' \in {"idle", "starting", "running", "failed"} /\ creating' \in 0..1 /\ OneStart'
  <2>1. CASE Render \/ UNCHANGED composervars
    BY <1>1, <2>1 DEF Render, composervars, ComposerTypeOK, OneStart
  <2>2. CASE StartJob
    BY <1>1, <2>2 DEF StartJob, MayStart, ComposerTypeOK, OneStart
  <2>3. CASE JobCreated
    BY <1>1, <2>3 DEF JobCreated, ComposerTypeOK, OneStart
  <2>4. CASE JobOver
    BY <1>1, <2>4 DEF JobOver, ComposerTypeOK, OneStart
  <2> QED
    BY <2>1, <2>2, <2>3, <2>4
<1>6. ComposerTypeOK'
  BY <1>1, <1>2, <1>4, <1>5 DEF ComposerTypeOK
<1> QED
  BY <1>3, <1>5, <1>6 DEF ComposerInv

LEMMA ComposerHeld == ComposerSpec => []ComposerInv
<1>1. ComposerInit => ComposerInv
  <2> SUFFICES ASSUME ComposerInit PROVE ComposerInv
    OBVIOUS
  <2>1. ComposerTypeOK
    <3>1. 0 \in 0..MaxEdits /\ 0 \in 0..1
      BY ComposerAssumption
    <3> QED
      BY <3>1 DEF ComposerInit, ComposerTypeOK
  <2> QED
    BY <2>1 DEF ComposerInit, ComposerInv, EstimatesTyped, AskedLast, PriceComes, OneStart
<1>2. ComposerInv /\ [ComposerNext]_composervars => ComposerInv'
  BY TextSet, TextMeasured, EstimateBack, StartsOnce DEF ComposerNext
<1> QED
  BY <1>1, <1>2, PTL DEF ComposerSpec

\* useJobStore.ts:371-373 and 396-424: for any number of edits, once no timer runs
\* and nothing is out, a price that is shown is that of the text in the composer, in
\* whatever order answers, cut-off answers and aborts came, unless measuring it failed.
THEOREM PriceFollowsText == ComposerSpec => []PriceIsOfText
<1>1. ComposerInv => PriceIsOfText
  BY DEF ComposerInv, PriceComes, PriceIsOfText
<1> QED
  BY <1>1, ComposerHeld, PTL

\* useJobStore.ts:447-449: however late the start button is redrawn, one createJob is
\* out at a time.
THEOREM OneJobAtATime == ComposerSpec => []ComposerTypeOK
<1>1. ComposerInv => ComposerTypeOK
  BY DEF ComposerInv
<1> QED
  BY <1>1, ComposerHeld, PTL

-----------------------------------------------------------------------------
\* ---- The notification switches

PrefRow == [Switches -> BOOLEAN]

Patches == [id : Int, named : SUBSET Switches, on : BOOLEAN, before : PrefRow,
            at : {"sent", "saved"}, row : PrefRow]

PrefInv ==
  /\ prefs \in PrefRow /\ switches \in PrefRow
  /\ IsFiniteSet(patches) /\ patches \subseteq Patches
  /\ flips \in 0..MaxFlips /\ Cardinality(patches) <= flips

\* A patch leaves switches, whatever it names.
LEMMA PatchedIsRow ==
  ASSUME NEW copy \in PrefRow, NEW named \in SUBSET Switches, NEW on \in BOOLEAN
  PROVE  Patched(copy, named, on) \in PrefRow
  BY DEF Patched, PrefRow

LEMMA SwitchesSet ==
  ASSUME PrefInv, NEW named \in SUBSET Switches, NEW on \in BOOLEAN, SetPrefs(named, on)
  PROVE  PrefInv'
<1> DEFINE p == [id |-> flips, named |-> named, on |-> on, before |-> switches,
                 at |-> "sent", row |-> switches]
<1>1. /\ prefs \in PrefRow /\ switches \in PrefRow /\ flips \in 0..MaxFlips /\ MaxFlips \in Nat
      /\ IsFiniteSet(patches) /\ patches \subseteq Patches /\ Cardinality(patches) <= flips
      /\ flips < MaxFlips /\ flips' = flips + 1 /\ switches' = Patched(switches, named, on)
      /\ patches' = patches \cup {p} /\ prefs' = prefs
  BY PrefAssumption DEF PrefInv, SetPrefs
<1>2. switches' \in PrefRow
  BY <1>1, PatchedIsRow
<1>3. p \in Patches
  BY <1>1 DEF Patches
<1> HIDE DEF p
<1>4. IsFiniteSet(patches') /\ Cardinality(patches') <= flips'
  <2>1. IsFiniteSet(patches') /\ Cardinality(patches') = IF p \in patches THEN Cardinality(patches)
                                                         ELSE Cardinality(patches) + 1
    BY <1>1, FS_AddElement
  <2>2. Cardinality(patches) \in Nat
    BY <1>1, FS_CardinalityType
  <2> QED
    BY <1>1, <2>1, <2>2
<1>5. patches' \subseteq Patches
  BY <1>1, <1>3
<1>6. flips' \in 0..MaxFlips
  BY <1>1
<1> QED
  BY <1>1, <1>2, <1>4, <1>5, <1>6 DEF PrefInv

LEMMA SwitchFlipped ==
  ASSUME PrefInv, (\E s \in Switches : Flip(s)) \/ EnableBrowser
  PROVE  PrefInv'
<1>1. ASSUME NEW s \in Switches, Flip(s) PROVE PrefInv'
  <2>1. {s} \in SUBSET Switches /\ (~switches[s]) \in BOOLEAN
    OBVIOUS
  <2> QED
    BY <1>1, <2>1, SwitchesSet DEF Flip
<1>2. CASE EnableBrowser
  <2>1. BrowserSwitches \in SUBSET Switches /\ TRUE \in BOOLEAN
    BY PrefAssumption
  <2> QED
    BY <1>2, <2>1, SwitchesSet DEF EnableBrowser
<1> QED
  BY <1>1, <1>2

LEMMA SwitchPatched ==
  ASSUME PrefInv, Patch \/ PatchAnswered \/ PatchFails
  PROVE  PrefInv'
<1>1. /\ prefs \in PrefRow /\ switches \in PrefRow /\ flips \in 0..MaxFlips /\ MaxFlips \in Nat
      /\ IsFiniteSet(patches) /\ patches \subseteq Patches /\ Cardinality(patches) <= flips
      /\ flips' = flips
  BY PrefAssumption DEF PrefInv, Patch, PatchAnswered, PatchFails
<1>2. ASSUME NEW p \in patches
      PROVE  /\ IsFiniteSet(patches \ {p}) /\ Cardinality(patches \ {p}) = Cardinality(patches) - 1
             /\ Cardinality(patches) \in Nat
             /\ p \in Patches
  BY <1>1, FS_RemoveElement, FS_CardinalityType
<1>3. CASE Patch
  <2>1. PICK p \in patches : /\ prefs' = Patched(prefs, p.named, p.on) /\ switches' = switches
                             /\ patches' = (patches \ {p}) \cup {[p EXCEPT !.at = "saved", !.row = prefs']}
    BY <1>3 DEF Patch, Saved, Replace
  <2>2. p \in Patches
    BY <1>2
  <2>3. prefs' \in PrefRow
    <3>1. p.named \in SUBSET Switches /\ p.on \in BOOLEAN
      BY <2>2 DEF Patches
    <3> QED
      BY <1>1, <2>1, <3>1, PatchedIsRow
  <2> DEFINE q == [p EXCEPT !.at = "saved", !.row = prefs']
  <2>4. q \in Patches
    BY <2>2, <2>3 DEF Patches
  <2> HIDE DEF q
  <2>5. IsFiniteSet(patches') /\ Cardinality(patches') <= flips'
    <3>1. patches' = (patches \ {p}) \cup {q}
      BY <2>1 DEF q
    <3>2. IsFiniteSet(patches \ {p}) /\ Cardinality(patches \ {p}) = Cardinality(patches) - 1
          /\ Cardinality(patches) \in Nat
      BY <1>2
    <3>3. /\ IsFiniteSet(patches')
          /\ Cardinality(patches') = IF q \in patches \ {p} THEN Cardinality(patches \ {p})
                                     ELSE Cardinality(patches \ {p}) + 1
      BY <3>1, <3>2, FS_AddElement
    <3> QED
      BY <1>1, <3>2, <3>3
  <2>6. patches' \subseteq Patches
    <3>1. patches' = (patches \ {p}) \cup {q}
      BY <2>1 DEF q
    <3> QED
      BY <1>1, <2>4, <3>1
  <2> QED
    BY <1>1, <2>1, <2>3, <2>5, <2>6 DEF PrefInv
<1>4. CASE PatchAnswered \/ PatchFails
  <2>1. PICK p \in patches : /\ patches' = patches \ {p} /\ prefs' = prefs
                             /\ switches' = p.row \/ switches' = p.before
    BY <1>4 DEF PatchAnswered, PatchFails, RolledBack
  <2>2. switches' \in PrefRow
    BY <1>2, <2>1 DEF Patches
  <2>3. IsFiniteSet(patches') /\ Cardinality(patches') <= flips'
    BY <1>1, <1>2, <2>1
  <2> QED
    BY <1>1, <2>1, <2>2, <2>3 DEF PrefInv
<1> QED
  BY <1>3, <1>4

LEMMA PrefHeld == PrefSpec => []PrefInv
<1>1. PrefInit => PrefInv
  <2> SUFFICES ASSUME PrefInit PROVE PrefInv
    OBVIOUS
  <2>1. IsFiniteSet(patches) /\ Cardinality(patches) = 0
    BY FS_EmptySet DEF PrefInit
  <2> QED
    BY <2>1, PrefAssumption DEF PrefInit, PrefInv, PrefRow
<1>2. PrefInv /\ [PrefNext]_prefvars => PrefInv'
  <2> SUFFICES ASSUME PrefInv, [PrefNext]_prefvars PROVE PrefInv'
    OBVIOUS
  <2>1. CASE UNCHANGED prefvars
    BY <2>1 DEF prefvars, PrefInv
  <2>2. ASSUME NEW s \in Switches, FlipElsewhere(s) PROVE PrefInv'
    <3>1. prefs' \in PrefRow /\ UNCHANGED <<switches, patches, flips>>
      BY <2>2 DEF FlipElsewhere, PrefInv, PrefRow
    <3> QED
      BY <3>1 DEF PrefInv
  <2> QED
    BY <2>1, <2>2, SwitchFlipped, SwitchPatched DEF PrefNext
<1> QED
  BY <1>1, <1>2, PTL DEF PrefSpec

\* The switches stay switches, and no more requests are out than there were clicks.
THEOREM SwitchesTyped == PrefSpec => []PrefTypeOK
<1>1. PrefInv => PrefTypeOK
  BY DEF PrefInv, PrefTypeOK, PrefRow
<1> QED
  BY <1>1, PrefHeld, PTL

\* users.ts:80-87: for any switches, any clicks and any overlap of requests, answers
\* and other tabs, a request of the tab changes in the row what was clicked, to what
\* it was clicked to, and nothing else.
THEOREM OthersStayPut == PrefSpec => NoSilentRevert
<1>1. PrefInv /\ [PrefNext]_prefvars =>
        [patches' # patches
          => \A s \in Switches : prefs'[s] # prefs[s]
               => \E p \in patches \ patches' : s \in p.named /\ prefs'[s] = p.on]_prefs
  <2> SUFFICES ASSUME PrefInv, [PrefNext]_prefvars, patches' # patches,
                      NEW s \in Switches, prefs'[s] # prefs[s]
               PROVE  \E p \in patches \ patches' : s \in p.named /\ prefs'[s] = p.on
    OBVIOUS
  <2>1. Patch
    BY DEF PrefNext, prefvars, Flip, EnableBrowser, SetPrefs, FlipElsewhere, PatchAnswered, PatchFails
  <2>2. PICK p \in patches : /\ p.at = "sent" /\ prefs' = Patched(prefs, p.named, p.on)
                             /\ patches' = (patches \ {p}) \cup {[p EXCEPT !.at = "saved", !.row = prefs']}
    BY <2>1 DEF Patch, Saved, Replace
  <2>3. s \in p.named /\ prefs'[s] = p.on
    BY <2>2 DEF Patched
  <2>4. p \notin patches'
    <3>1. [p EXCEPT !.at = "saved", !.row = prefs'].at = "saved"
      BY DEF PrefInv, Patches
    <3> QED
      BY <2>2, <3>1
  <2> QED
    BY <2>3, <2>4
<1> QED
  BY <1>1, PrefHeld, PTL DEF PrefSpec, NoSilentRevert

-----------------------------------------------------------------------------
\* ---- The document picker: the grant on record and what Google last said move
\* together, and a request reads the one at the moment it is sent.

Request == [token : {"script", "asked", "got", "failed"}, silent : BOOLEAN, due : BOOLEAN,
            afterRefusal : BOOLEAN]

\* The grant on record is not one that was refused since.
RecordFollowsVerdict == verdict = "refused" => ~driveGranted

PickInv ==
  /\ clicks \in Seq(Request)
  /\ driveGranted \in BOOLEAN
  /\ RecordFollowsVerdict
  /\ RefusedIsAskedAgain

\* Requests that only settle are asked for as they were.
LEMMA SettlingKeeps ==
  ASSUME PickInv, clicks' \in Seq(Request), DOMAIN clicks' = DOMAIN clicks,
         \A i \in DOMAIN clicks : /\ clicks'[i].silent = clicks[i].silent
                                  /\ clicks'[i].afterRefusal = clicks[i].afterRefusal
  PROVE  RefusedIsAskedAgain'
  BY DEF PickInv, RefusedIsAskedAgain

LEMMA OneSettles ==
  ASSUME PickInv, NEW i \in DOMAIN clicks, NEW r \in Request,
         r.silent = clicks[i].silent, r.afterRefusal = clicks[i].afterRefusal,
         clicks' = [clicks EXCEPT ![i] = r]
  PROVE  clicks' \in Seq(Request) /\ RefusedIsAskedAgain'
<1>1. clicks \in Seq(Request)
  BY DEF PickInv
<1>2. clicks' \in Seq(Request)
  BY <1>1
<1>3. \A j \in DOMAIN clicks : clicks'[j] = IF j = i THEN r ELSE clicks[j]
  BY <1>1
<1>4. DOMAIN clicks' = DOMAIN clicks
  BY <1>1
<1> QED
  BY <1>2, <1>3, <1>4, SettlingKeeps

\* Clicks as they were, and a verdict the record follows
LEMMA SameClicks ==
  ASSUME PickInv, clicks' = clicks, driveGranted' \in BOOLEAN, RecordFollowsVerdict'
  PROVE  PickInv'
  BY DEF PickInv, RefusedIsAskedAgain

LEMMA SameRecord ==
  ASSUME PickInv, UNCHANGED driveGrants
  PROVE  driveGranted' \in BOOLEAN /\ RecordFollowsVerdict'
  BY DEF PickInv, driveGrants, RecordFollowsVerdict

\* One request settles and nothing is recorded, or what Google said is.
LEMMA AnswerKeeps ==
  ASSUME PickInv, NEW i \in DOMAIN clicks,
         TokenGranted(i) \/ TokenRefused(i) \/ PopupBlocked(i) \/ TimesOut(i) \/ LateAnswer(i)
  PROVE  PickInv'
<1>1. clicks[i] \in Request
  BY DEF PickInv
<1>2. \E r \in Request : /\ r.silent = clicks[i].silent /\ r.afterRefusal = clicks[i].afterRefusal
                         /\ clicks' = [clicks EXCEPT ![i] = r]
  <2>1. CASE TokenGranted(i)
    <3> DEFINE r == [clicks[i] EXCEPT !.token = "got", !.due = FALSE]
    <3>1. r \in Request /\ r.silent = clicks[i].silent /\ r.afterRefusal = clicks[i].afterRefusal
      BY <1>1 DEF Request
    <3>2. clicks' = [clicks EXCEPT ![i] = r]
      BY <2>1 DEF TokenGranted, Settle
    <3> QED
      BY <3>1, <3>2
  <2>2. CASE TokenRefused(i) \/ PopupBlocked(i)
    <3> DEFINE r == [clicks[i] EXCEPT !.token = "failed", !.due = FALSE]
    <3>1. r \in Request /\ r.silent = clicks[i].silent /\ r.afterRefusal = clicks[i].afterRefusal
      BY <1>1 DEF Request
    <3>2. clicks' = [clicks EXCEPT ![i] = r]
      BY <2>2 DEF TokenRefused, PopupBlocked, Settle
    <3> QED
      BY <3>1, <3>2
  <2>3. CASE TimesOut(i)
    <3> DEFINE r == [clicks[i] EXCEPT !.token = "failed"]
    <3>1. r \in Request /\ r.silent = clicks[i].silent /\ r.afterRefusal = clicks[i].afterRefusal
      BY <1>1 DEF Request
    <3>2. clicks' = [clicks EXCEPT ![i] = r]
      BY <2>3 DEF TimesOut
    <3> QED
      BY <3>1, <3>2
  <2>4. CASE LateAnswer(i)
    <3> DEFINE r == [clicks[i] EXCEPT !.due = FALSE]
    <3>1. r \in Request /\ r.silent = clicks[i].silent /\ r.afterRefusal = clicks[i].afterRefusal
      BY <1>1 DEF Request
    <3>2. clicks' = [clicks EXCEPT ![i] = r]
      BY <2>4 DEF LateAnswer
    <3> QED
      BY <3>1, <3>2
  <2> QED
    BY <2>1, <2>2, <2>3, <2>4
<1>3. clicks' \in Seq(Request) /\ RefusedIsAskedAgain'
  BY <1>2, OneSettles
<1>4. driveGranted' \in BOOLEAN /\ RecordFollowsVerdict'
  <2>1. CASE TokenGranted(i)
    BY <2>1 DEF TokenGranted, RecordFollowsVerdict
  <2>2. CASE TokenRefused(i)
    BY <2>2 DEF TokenRefused, RecordFollowsVerdict, GrantAfterRefusal
  <2>3. CASE PopupBlocked(i) \/ TimesOut(i) \/ LateAnswer(i)
    BY <2>3, SameRecord DEF PopupBlocked, TimesOut, LateAnswer
  <2> QED
    BY <2>1, <2>2, <2>3
<1> QED
  BY <1>3, <1>4 DEF PickInv

\* The moment a request is sent: what it asks for is what was said last.
LEMMA AskingKeeps ==
  ASSUME PickInv, NEW i \in DOMAIN clicks, AskToken(i)
  PROVE  PickInv'
<1>1. clicks \in Seq(Request) /\ clicks[i] \in Request /\ driveGranted \in BOOLEAN
  BY DEF PickInv
<1>2. driveGranted' \in BOOLEAN /\ RecordFollowsVerdict'
  BY SameRecord DEF AskToken
<1>3. CASE clicks' = [clicks EXCEPT ![i] = [token |-> "asked", silent |-> driveGranted, due |-> TRUE,
                                            afterRefusal |-> verdict = "refused"]]
  <2> DEFINE r == [token |-> "asked", silent |-> driveGranted, due |-> TRUE,
                   afterRefusal |-> verdict = "refused"]
  <2>1. r \in Request
    BY <1>1 DEF Request
  <2>2. r.afterRefusal => ~r.silent
    BY DEF PickInv, RecordFollowsVerdict
  <2>3. clicks' = [clicks EXCEPT ![i] = r]
    BY <1>3
  <2> HIDE DEF r
  <2>4. /\ clicks' \in Seq(Request) /\ DOMAIN clicks' = DOMAIN clicks
        /\ \A j \in DOMAIN clicks : clicks'[j] = IF j = i THEN r ELSE clicks[j]
    BY <1>1, <2>1, <2>3
  <2>5. RefusedIsAskedAgain'
    BY <2>2, <2>4 DEF PickInv, RefusedIsAskedAgain
  <2> QED
    BY <1>2, <2>4, <2>5 DEF PickInv
<1>4. CASE clicks' = [clicks EXCEPT ![i].token = "failed"]
  <2> DEFINE r == [clicks[i] EXCEPT !.token = "failed"]
  <2>1. r \in Request /\ r.silent = clicks[i].silent /\ r.afterRefusal = clicks[i].afterRefusal
    BY <1>1 DEF Request
  <2>2. clicks' = [clicks EXCEPT ![i] = r]
    BY <1>4
  <2>3. clicks' \in Seq(Request) /\ RefusedIsAskedAgain'
    BY <2>1, <2>2, OneSettles
  <2> QED
    BY <1>2, <2>3 DEF PickInv
<1> QED
  BY <1>3, <1>4 DEF AskToken

\* A click opens a request that has asked for nothing yet.
LEMMA ClickKeeps == ASSUME PickInv, Click PROVE PickInv'
<1> DEFINE r == [token |-> IF cachedToken THEN "got" ELSE "script",
                 silent |-> FALSE, due |-> FALSE, afterRefusal |-> FALSE]
<1>1. clicks \in Seq(Request) /\ clicks' = Append(clicks, r) /\ UNCHANGED driveGrants
  BY DEF PickInv, Click
<1>2. r \in Request /\ ~r.afterRefusal
  BY DEF Request
<1> HIDE DEF r
<1>3. clicks' \in Seq(Request)
  BY <1>1, <1>2
<1>4. \A j \in DOMAIN clicks' : clicks'[j] = r \/ (j \in DOMAIN clicks /\ clicks'[j] = clicks[j])
  BY <1>1, <1>2
<1>5. RefusedIsAskedAgain'
  BY <1>2, <1>4 DEF PickInv, RefusedIsAskedAgain
<1>6. driveGranted' \in BOOLEAN /\ RecordFollowsVerdict'
  BY <1>1, SameRecord
<1> QED
  BY <1>3, <1>5, <1>6 DEF PickInv

\* A script that fails rejects the requests that wait for it, as they are.
LEMMA ScriptKeeps ==
  ASSUME PickInv, NEW s \in Scripts, ScriptFails(s)
  PROVE  PickInv'
<1>1. clicks \in Seq(Request)
  BY DEF PickInv
<1>2. driveGranted' \in BOOLEAN /\ RecordFollowsVerdict'
  BY SameRecord DEF ScriptFails
<1>3. CASE clicks' = clicks
  BY <1>2, <1>3, SameClicks
<1>4. CASE clicks' = [j \in DOMAIN clicks |->
                        IF clicks[j].token = "script" THEN [clicks[j] EXCEPT !.token = "failed"] ELSE clicks[j]]
  <2>1. \A j \in DOMAIN clicks : /\ clicks'[j] \in Request
                                 /\ clicks'[j].silent = clicks[j].silent
                                 /\ clicks'[j].afterRefusal = clicks[j].afterRefusal
    <3> SUFFICES ASSUME NEW j \in DOMAIN clicks
                 PROVE  /\ clicks'[j] \in Request
                        /\ clicks'[j].silent = clicks[j].silent
                        /\ clicks'[j].afterRefusal = clicks[j].afterRefusal
      OBVIOUS
    <3>1. clicks[j] \in Request
      BY <1>1
    <3>2. clicks'[j] = [clicks[j] EXCEPT !.token = "failed"] \/ clicks'[j] = clicks[j]
      BY <1>4
    <3> QED
      BY <3>1, <3>2 DEF Request
  <2>2. DOMAIN clicks = 1..Len(clicks) /\ Len(clicks) \in Nat
    BY <1>1
  <2>3. clicks' \in [1..Len(clicks) -> Request]
    BY <1>4, <2>1, <2>2
  <2>4. clicks' \in Seq(Request) /\ DOMAIN clicks' = DOMAIN clicks
    BY <2>2, <2>3
  <2>5. RefusedIsAskedAgain'
    BY <2>1, <2>4, SettlingKeeps
  <2> QED
    BY <1>2, <2>4, <2>5 DEF PickInv
<1> QED
  BY <1>3, <1>4 DEF ScriptFails

LEMMA PickInvariant == PickSpec => []PickInv
<1>1. PickInit => PickInv
  BY DEF PickInit, PickInv, RecordFollowsVerdict, RefusedIsAskedAgain
<1>2. PickInv /\ [PickNext]_pickvars => PickInv'
  <2> SUFFICES ASSUME PickInv, [PickNext]_pickvars PROVE PickInv'
    OBVIOUS
  <2>1. CASE \/ Preload \/ Chosen \/ ClearDoc \/ TokenExpires \/ AskGapi \/ GapiReady \/ PickFails
             \/ OpenPicker \/ (\E s \in Scripts : ScriptLoads(s)) \/ UNCHANGED pickvars
    <3>1. clicks' = clicks /\ UNCHANGED <<driveGranted, verdict>>
      BY <2>1 DEF Preload, Chosen, ClearDoc, TokenExpires, AskGapi, GapiReady, PickFails, OpenPicker,
                  ScriptLoads, pickvars, driveGrants
    <3>2. driveGranted' \in BOOLEAN /\ RecordFollowsVerdict'
      BY <3>1 DEF PickInv, RecordFollowsVerdict
    <3> QED
      BY <3>1, <3>2, SameClicks
  <2>2. CASE Click
    BY <2>2, ClickKeeps
  <2>3. ASSUME NEW s \in Scripts, ScriptFails(s) PROVE PickInv'
    BY <2>3, ScriptKeeps
  <2>4. ASSUME NEW i \in DOMAIN clicks,
               TokenGranted(i) \/ TokenRefused(i) \/ PopupBlocked(i) \/ TimesOut(i) \/ LateAnswer(i)
        PROVE  PickInv'
    BY <2>4, AnswerKeeps
  <2>5. ASSUME NEW i \in DOMAIN clicks, AskToken(i) PROVE PickInv'
    BY <2>5, AskingKeeps
  <2> QED
    BY <2>1, <2>2, <2>3, <2>4, <2>5 DEF PickNext, PickBrowser
<1> QED
  BY <1>1, <1>2, PTL DEF PickSpec

\* googlePicker.ts:226-237 and 283: no request made after Google refused is silent,
\* for any number of clicks, of scripts that fail and of answers that come late.
THEOREM RefusalsAreAskedAgain == PickSpec => []RefusedIsAskedAgain
<1>1. PickInv => RefusedIsAskedAgain
  BY DEF PickInv
<1> QED
  BY <1>1, PickInvariant, PTL

\* The picker's state is what it should be.
THEOREM PickTyped == PickSpec => []PickTypeOK
<1> DEFINE Rest == /\ scriptLoads \in [Scripts -> {"absent", "loading", "loaded"}]
                   /\ pickerApi \in {"none", "waiting", "asked", "ready", "rejected"}
                   /\ selectedDoc \in Docs \cup {"none"} /\ cachedToken \in BOOLEAN
<1>1. PickInit => Rest
  BY DEF PickInit, Scripts
<1>2. Rest /\ [PickNext]_pickvars => Rest'
  <2> SUFFICES ASSUME Rest, [PickNext]_pickvars PROVE Rest'
    OBVIOUS
  <2>1. CASE Preload \/ Click
    <3>1. BeginLoads /\ UNCHANGED <<selectedDoc, cachedToken>>
      BY <2>1 DEF Preload, Click, driveGrants
    <3> QED
      BY <3>1 DEF BeginLoads, Started, Scripts
  <2>2. ASSUME NEW s \in Scripts, ScriptFails(s) \/ ScriptLoads(s) PROVE Rest'
    BY <2>2 DEF ScriptFails, ScriptLoads, driveGrants
  <2>3. CASE AskGapi \/ GapiReady
    BY <2>3 DEF AskGapi, GapiReady, driveGrants
  <2>4. ASSUME NEW i \in DOMAIN clicks,
               TokenGranted(i) \/ TokenRefused(i) \/ PopupBlocked(i) \/ TimesOut(i) \/ LateAnswer(i) \/ AskToken(i)
        PROVE  Rest'
    BY <2>4 DEF TokenGranted, TokenRefused, PopupBlocked, TimesOut, LateAnswer, AskToken, loadsOfPicker, driveGrants
  <2>5. CASE Chosen \/ ClearDoc \/ TokenExpires \/ PickFails \/ OpenPicker \/ UNCHANGED pickvars
    BY <2>5 DEF Chosen, ClearDoc, TokenExpires, PickFails, OpenPicker, pickvars, loadsOfPicker, driveGrants
  <2> QED
    BY <2>1, <2>2, <2>3, <2>4, <2>5 DEF PickNext, PickBrowser
<1>3. PickInv /\ Rest => PickTypeOK
  <2> SUFFICES ASSUME PickInv, Rest PROVE PickTypeOK
    OBVIOUS
  <2>1. ASSUME NEW i \in DOMAIN clicks PROVE clicks[i].token \in {"script", "asked", "got", "failed"}
    <3>1. clicks[i] \in Request
      BY DEF PickInv
    <3> QED
      BY <3>1 DEF Request
  <2> QED
    BY <2>1 DEF PickTypeOK
<1> HIDE DEF Rest
<1> QED
  BY <1>1, <1>2, <1>3, PickInvariant, PTL DEF PickSpec

-----------------------------------------------------------------------------
\* ---- The tokens: every row of them on its way to the account, whoever carries it,
\* pairs an access token with the hour it expires; and a request that asks Google,
\* or clears the tokens for its answer, asks with a refresh token that it read.

\* A row as Google makes them, or none.
Tokens == {t \in [access : Nat, refresh : Nat, expiry : Nat] : t.expiry = t.access}

Places == {"start", "read", "asking", "saving", "clearing", "authorized", "reauth", "failed"}

Asked(r) == held[r].at \in {"asking", "clearing"} => held[r].user.refresh # Null

TokenInv ==
  /\ hour \in Nat /\ consented \in Nat /\ accepted \subseteq Nat
  /\ users \in Tokens /\ signing \subseteq Tokens /\ writes \subseteq Tokens
  /\ held \in [Callers -> [at : Places, user : Tokens, client : Tokens]]
  /\ \A r \in Callers : Asked(r)

\* A row that Google has just made, with or without a refresh token
LEMMA FreshTokens ==
  ASSUME NEW h \in Nat, NEW refresh \in Nat
  PROVE  [access |-> h + Life, refresh |-> refresh, expiry |-> h + Life] \in Tokens
  BY TokenAssumption DEF Tokens

\* upsertUser and updateUserTokens write one row's access token and expiry.
LEMMA UpdateKeeps ==
  ASSUME users \in Tokens, NEW row \in Tokens, Update(row)
  PROVE  users' \in Tokens
<1>1. users' = [row EXCEPT !.refresh = Coalesce(row.refresh, users.refresh)]
  BY DEF Update
<1>2. Coalesce(row.refresh, users.refresh) \in Nat
  BY DEF Coalesce, Tokens
<1> QED
  BY <1>1, <1>2 DEF Tokens

LEMMA TokensInitially == TokenInit => TokenInv
  BY DEF TokenInit, TokenInv, Asked, NoTokens, Null, Tokens, Places

\* What a request does to itself
LEMMA GoKeeps ==
  ASSUME TokenInv, NEW r \in Callers, NEW place \in Places, Go(r, place),
         place \in {"asking", "clearing"} => held[r].user.refresh # Null
  PROVE  /\ held' \in [Callers -> [at : Places, user : Tokens, client : Tokens]]
         /\ \A q \in Callers : Asked(q)'
  BY DEF TokenInv, Asked, Go, Places

LEMMA TokensKeep == TokenInv /\ [TokenNext]_tokenvars => TokenInv'
<1> SUFFICES ASSUME TokenInv, [TokenNext]_tokenvars PROVE TokenInv'
  OBVIOUS
<1>1. CASE HourPasses \/ Revoke \/ UNCHANGED tokenvars
  <2>1. /\ hour' \in {hour, hour + 1} /\ accepted' \in {accepted, {}}
        /\ consented' = consented /\ signing' = signing /\ users' = users /\ held' = held
        /\ writes' = writes
    BY <1>1 DEF HourPasses, Revoke, tokenvars
  <2> QED
    BY <2>1 DEF TokenInv, Asked
<1>2. CASE Consent
  <2>1. PICK refresh \in {consented', Null} :
          signing' = signing \cup {[access |-> hour + Life, refresh |-> refresh, expiry |-> hour + Life]}
    BY <1>2 DEF Consent
  <2>2. /\ consented' \in Nat /\ accepted' \subseteq Nat
        /\ UNCHANGED <<hour, users, held, writes>>
    BY <1>2 DEF Consent, TokenInv
  <2>3. signing' \subseteq Tokens
    <3>1. refresh \in Nat /\ hour \in Nat
      BY <2>1, <2>2 DEF Null, TokenInv
    <3> QED
      BY <2>1, <3>1, FreshTokens DEF TokenInv
  <2> QED
    BY <2>2, <2>3 DEF TokenInv, Asked
<1>3. CASE Upsert \/ EventSaved
  <2>1. PICK row \in signing \cup writes : Update(row)
    BY <1>3 DEF Upsert, EventSaved
  <2>2. users' \in Tokens
    BY <2>1, UpdateKeeps DEF TokenInv
  <2>3. /\ signing' \subseteq signing /\ writes' \subseteq writes
        /\ hour' = hour /\ consented' = consented /\ accepted' = accepted
        /\ held' = held
    BY <1>3 DEF Upsert, EventSaved
  <2> QED
    BY <2>2, <2>3 DEF TokenInv, Asked
<1>4. ASSUME NEW r \in Callers, ReadUser(r) PROVE TokenInv'
  <2>1. held'[r].at \notin {"asking", "clearing"} /\ held' \in [Callers -> [at : Places, user : Tokens, client : Tokens]]
    BY <1>4 DEF TokenInv, ReadUser, Reads, Places
  <2>2. \A q \in Callers \ {r} : held'[q] = held[q]
    BY <1>4 DEF TokenInv, ReadUser, Reads
  <2> QED
    BY <1>4, <2>1, <2>2 DEF TokenInv, Asked, ReadUser
<1>5. ASSUME NEW r \in Callers, UseStored(r) \/ AskGoogle(r) \/ RefreshFails(r) \/ GrantRefused(r)
      PROVE  TokenInv'
  <2>1. PICK place \in Places : /\ Go(r, place)
                                /\ place \in {"asking", "clearing"} => held[r].user.refresh # Null
    <3>1. CASE UseStored(r) \/ RefreshFails(r)
      BY <3>1 DEF UseStored, RefreshFails, Places
    <3>2. CASE AskGoogle(r)
      BY <3>2 DEF AskGoogle, Places
    <3>3. CASE GrantRefused(r)
      <4>1. Asked(r)
        BY DEF TokenInv
      <4> QED
        BY <3>3, <4>1 DEF GrantRefused, Asked, Places
    <3> QED
      BY <1>5, <3>1, <3>2, <3>3
  <2>2. UNCHANGED <<hour, consented, accepted, signing, users, writes>>
    BY <1>5 DEF UseStored, AskGoogle, RefreshFails, GrantRefused
  <2> QED
    BY <2>1, <2>2, GoKeeps DEF TokenInv
<1>6. ASSUME NEW r \in Callers, Refreshed(r) PROVE TokenInv'
  <2>1. PICK refresh \in {Null, held[r].user.refresh} :
          LET fresh == [access |-> hour + Life, refresh |-> refresh, expiry |-> hour + Life]
          IN /\ held' = [held EXCEPT ![r].at = "saving", ![r].client = fresh]
             /\ writes' = writes \cup {[fresh EXCEPT !.refresh = Null]}
    BY <1>6 DEF Refreshed
  <2> DEFINE fresh == [access |-> hour + Life, refresh |-> refresh, expiry |-> hour + Life]
  <2>2. refresh \in Nat /\ hour \in Nat
    BY <2>1 DEF TokenInv, Tokens, Null
  <2>3. fresh \in Tokens
    BY <2>2, FreshTokens
  <2>4. [fresh EXCEPT !.refresh = Null] \in Tokens
    BY <2>3 DEF Tokens, Null
  <2> HIDE DEF fresh
  <2>5. /\ held' = [held EXCEPT ![r].at = "saving", ![r].client = fresh]
        /\ writes' = writes \cup {[fresh EXCEPT !.refresh = Null]}
    BY <2>1 DEF fresh
  <2>6. /\ held' \in [Callers -> [at : Places, user : Tokens, client : Tokens]]
        /\ \A q \in Callers : Asked(q)'
    BY <2>3, <2>5 DEF TokenInv, Asked, Places
  <2> QED
    BY <1>6, <2>4, <2>5, <2>6 DEF TokenInv, Refreshed
<1>7. ASSUME NEW r \in Callers, SaveTokens(r) PROVE TokenInv'
  <2>1. Go(r, "authorized") /\ Update(held[r].client) /\ held[r].client \in Tokens
    BY <1>7 DEF SaveTokens, TokenInv
  <2>2. users' \in Tokens
    BY <2>1, UpdateKeeps DEF TokenInv
  <2>3. "authorized" \in Places \ {"asking", "clearing"}
    BY DEF Places
  <2> QED
    BY <1>7, <2>1, <2>2, <2>3, GoKeeps DEF TokenInv, SaveTokens
<1>8. ASSUME NEW r \in Callers, ClearTokens(r) PROVE TokenInv'
  <2>1. NoTokens \in Tokens /\ "reauth" \in Places \ {"asking", "clearing"}
    BY DEF NoTokens, Null, Tokens, Places
  <2> QED
    BY <1>8, <2>1, GoKeeps DEF TokenInv, ClearTokens
<1> QED
  BY <1>1, <1>2, <1>3, <1>4, <1>5, <1>6, <1>7, <1>8 DEF TokenNext

LEMMA TokensSafe == TokenSpec => []TokenInv
  BY TokensInitially, TokensKeep, PTL DEF TokenSpec

-----------------------------------------------------------------------------
\* googleClient.ts:66-72, users.ts:59-65: whichever write lands last, the stored
\* expiry is that of the stored access token.
THEOREM ExpiryStaysWithAccess == TokenSpec => []ExpiryIsOfAccess
<1>1. TokenInv => ExpiryIsOfAccess
  BY DEF TokenInv, Tokens, ExpiryIsOfAccess
<1> QED
  BY <1>1, TokensSafe, PTL

\* users.ts:20, 59-75, googleClient.ts:74-80: no write of a sign-in or a refresh takes the
\* stored refresh token away; only the clearing by a request that asked Google with the
\* refresh token it had read, and was answered with one of the three errors, does.
THEOREM ConsentIsKept == TokenSpec => RefreshSurvives
<1>1. TokenInv /\ [TokenNext]_tokenvars
        => [users.refresh # Null /\ users'.refresh = Null
              => \E r \in Callers : /\ held[r].at = "clearing" /\ held'[r].at = "reauth"
                                   /\ held[r].user.refresh # Null]_users
  <2> DEFINE Cleared(r) == /\ held[r].at = "clearing" /\ held'[r].at = "reauth"
                            /\ held[r].user.refresh # Null
  <2> SUFFICES ASSUME TokenInv, [TokenNext]_tokenvars, users.refresh # Null, users'.refresh = Null,
                      users' # users
               PROVE  \E r \in Callers : Cleared(r)
    OBVIOUS
  <2>1. ASSUME NEW row \in Tokens PROVE ~Update(row)
    <3>1. users'.refresh # Null \/ ~Update(row)
      BY <2>1 DEF Update, Coalesce, TokenInv, Tokens
    <3> QED
      BY <3>1
  <2>2. ~Upsert /\ ~EventSaved
    BY <2>1 DEF Upsert, EventSaved, TokenInv
  <2>3. ASSUME NEW r \in Callers PROVE ~SaveTokens(r)
    BY <2>1, <2>3 DEF SaveTokens, TokenInv
  <2>4. PICK r \in Callers : ClearTokens(r)
    BY <2>2, <2>3 DEF TokenNext, tokenvars, HourPasses, Consent, Revoke, ReadUser, UseStored,
                      AskGoogle, Refreshed, RefreshFails, GrantRefused
  <2>5. Asked(r) /\ held'[r].at = "reauth"
    BY <2>4 DEF ClearTokens, Go, TokenInv
  <2> QED
    BY <2>4, <2>5 DEF ClearTokens, Asked
<1> QED
  BY <1>1, TokensSafe, PTL DEF TokenSpec, RefreshSurvives

\* Tokens whose refresh token, if any, came with a consent
Granted == {t \in Tokens : t.refresh \in 0..Consents}

TokensGranted ==
  /\ hour \in 1..Hours /\ consented \in 0..Consents /\ accepted \subseteq 1..Consents
  /\ users \in Granted /\ signing \subseteq Granted /\ writes \subseteq Granted
  /\ \A r \in Callers : held[r].user \in Granted /\ held[r].client \in Granted

\* An UPDATE with such tokens keeps them so.
LEMMA UpdateGrants ==
  ASSUME users \in Granted, NEW row \in Granted, Update(row) PROVE users' \in Granted
<1>1. users' \in Tokens
  BY UpdateKeeps DEF Granted
<1>2. users'.refresh \in 0..Consents
  BY DEF Update, Coalesce, Granted, Tokens
<1> QED
  BY <1>1, <1>2 DEF Granted

\* Each step of a sign-in, a refresh or Google keeps them so.
LEMMA TokensStayGranted == TokenInv /\ TokensGranted /\ [TokenNext]_tokenvars => TokensGranted'
<1> SUFFICES ASSUME TokenInv, TokensGranted, [TokenNext]_tokenvars PROVE TokensGranted'
  OBVIOUS
<1>c. Hours \in Nat /\ Consents \in Nat
  BY TokenAssumption
<1>f. ASSUME NEW refresh \in 0..Consents
      PROVE  [access |-> hour + Life, refresh |-> refresh, expiry |-> hour + Life] \in Granted
  <2>1. refresh \in Nat /\ hour \in Nat
    BY <1>c DEF TokenInv
  <2> QED
    BY <2>1, FreshTokens DEF Granted
<1>1. CASE HourPasses \/ Revoke \/ UNCHANGED tokenvars
  <2>1. UNCHANGED <<consented, users, signing, writes, held>> /\ accepted' \subseteq 1..Consents
    BY <1>1 DEF HourPasses, Revoke, tokenvars, TokensGranted
  <2>2. hour' \in 1..Hours
    <3>1. CASE HourPasses
      BY <1>c, <3>1 DEF HourPasses, TokensGranted
    <3>2. CASE Revoke \/ UNCHANGED tokenvars
      BY <3>2 DEF Revoke, tokenvars, TokensGranted
    <3> QED
      BY <1>1, <3>1, <3>2
  <2> QED
    BY <2>1, <2>2 DEF TokensGranted
<1>2. CASE Consent
  <2>c. consented < Consents /\ consented' = consented + 1 /\ accepted' = accepted \cup {consented'}
    BY <1>2 DEF Consent
  <2>g. consented \in 0..Consents /\ accepted \subseteq 1..Consents
    BY DEF TokensGranted
  <2>n. consented' \in 0..Consents /\ consented' \in 1..Consents
    BY <1>c, <2>c, <2>g
  <2>1. consented' \in 0..Consents /\ consented' \in 1..Consents /\ accepted' \subseteq 1..Consents
    BY <2>c, <2>g, <2>n
  <2>2. PICK refresh \in {consented', Null} :
          signing' = signing \cup {[access |-> hour + Life, refresh |-> refresh, expiry |-> hour + Life]}
    BY <1>2 DEF Consent
  <2>3. refresh \in 0..Consents
    BY <1>c, <2>1, <2>2 DEF Null
  <2>4. signing' \subseteq Granted
    BY <1>f, <2>2, <2>3 DEF TokensGranted
  <2> QED
    BY <1>2, <2>1, <2>4 DEF Consent, TokensGranted
<1>3. CASE Upsert
  <2>1. PICK row \in signing : signing' = signing \ {row} /\ Update(row)
    BY <1>3 DEF Upsert
  <2>2. row \in Granted /\ users' \in Granted
    BY <2>1, UpdateGrants DEF TokensGranted
  <2> QED
    BY <1>3, <2>1, <2>2 DEF Upsert, TokensGranted
<1>4. CASE EventSaved
  <2>1. PICK row \in writes : writes' = writes \ {row} /\ Update(row)
    BY <1>4 DEF EventSaved
  <2>2. row \in Granted /\ users' \in Granted
    BY <2>1, UpdateGrants DEF TokensGranted
  <2> QED
    BY <1>4, <2>1, <2>2 DEF EventSaved, TokensGranted
<1>5. ASSUME NEW r \in Callers PROVE held[r] \in [at : Places, user : Tokens, client : Tokens]
  BY DEF TokenInv
<1>6. ASSUME NEW r \in Callers, ReadUser(r) PROVE TokensGranted'
  <2>1. \A q \in Callers : held'[q].user \in {users, held[q].user} /\ held'[q].client \in {users, held[q].client}
    BY <1>5, <1>6 DEF ReadUser, Reads, TokenInv
  <2> QED
    BY <1>6, <2>1 DEF ReadUser, TokensGranted
<1>7. ASSUME NEW r \in Callers, NEW place, Go(r, place)
      PROVE  \A q \in Callers : held'[q].user = held[q].user /\ held'[q].client = held[q].client
  BY <1>5, <1>7 DEF Go, TokenInv
<1>8. ASSUME NEW r \in Callers, UseStored(r) \/ AskGoogle(r) \/ RefreshFails(r) \/ GrantRefused(r)
      PROVE  TokensGranted'
  <2>1. PICK place : Go(r, place)
    BY <1>8 DEF UseStored, AskGoogle, RefreshFails, GrantRefused
  <2> QED
    BY <1>7, <1>8, <2>1 DEF UseStored, AskGoogle, RefreshFails, GrantRefused, TokensGranted
<1>9. ASSUME NEW r \in Callers, SaveTokens(r) PROVE TokensGranted'
  <2>1. users' \in Granted
    BY <1>9, UpdateGrants DEF SaveTokens, TokensGranted
  <2>2. \A q \in Callers : held'[q].user = held[q].user /\ held'[q].client = held[q].client
    BY <1>7, <1>9 DEF SaveTokens
  <2> QED
    BY <1>9, <2>1, <2>2 DEF SaveTokens, TokensGranted
<1>10. ASSUME NEW r \in Callers, ClearTokens(r) PROVE TokensGranted'
  <2>1. users' \in Granted
    BY <1>10, <1>c DEF ClearTokens, NoTokens, Null, Granted, Tokens
  <2>2. \A q \in Callers : held'[q].user = held[q].user /\ held'[q].client = held[q].client
    BY <1>7, <1>10 DEF ClearTokens
  <2> QED
    BY <1>10, <2>1, <2>2 DEF ClearTokens, TokensGranted
<1>11. ASSUME NEW r \in Callers, Refreshed(r) PROVE TokensGranted'
  <2>1. PICK refresh \in {Null, held[r].user.refresh} :
          LET fresh == [access |-> hour + Life, refresh |-> refresh, expiry |-> hour + Life]
          IN /\ held' = [held EXCEPT ![r].at = "saving", ![r].client = fresh]
             /\ writes' = writes \cup {[fresh EXCEPT !.refresh = Null]}
    BY <1>11 DEF Refreshed
  <2>2. refresh \in 0..Consents /\ Null \in 0..Consents
    BY <1>c, <2>1 DEF TokensGranted, Granted, Null
  <2>f. PICK fresh \in Granted : fresh = [access |-> hour + Life, refresh |-> refresh, expiry |-> hour + Life]
    BY <1>f, <2>2
  <2>3. [fresh EXCEPT !.refresh = Null] \in Granted
    BY <1>f, <2>2, <2>f
  <2>4. held' = [held EXCEPT ![r].at = "saving", ![r].client = fresh] /\ writes' = writes \cup {[fresh EXCEPT !.refresh = Null]}
    BY <2>1, <2>f
  <2>5. \A q \in Callers : held'[q].user = held[q].user /\ held'[q].client \in {fresh, held[q].client}
    BY <1>5, <2>4 DEF TokenInv
  <2> QED
    BY <1>11, <2>3, <2>4, <2>5 DEF Refreshed, TokensGranted
<1> QED
  BY <1>1, <1>2, <1>3, <1>4, <1>6, <1>8, <1>9, <1>10, <1>11 DEF TokenNext

\* The tokens' state is what it should be: a refresh token is one of a consent's.
THEOREM TokensTyped == TokenSpec => []TokenTypeOK
<1>1. TokenInit => TokensGranted
  BY TokenAssumption DEF TokenInit, TokensGranted, Granted, Tokens, NoTokens, Null
<1>2. TokenInv /\ TokensGranted => TokenTypeOK
  BY DEF TokenInv, TokensGranted, Granted, Tokens, Places, TokenTypeOK
<1> QED
  BY <1>1, <1>2, TokensStayGranted, TokensSafe, PTL DEF TokenSpec

-----------------------------------------------------------------------------
\* ---- Launch checks and prices

\* What the boot check let through stays let through.
Launched == deploy = "up" /\ env.production => LaunchErrors = {}

DeployInv == Launched /\ CustomersCanPay

\* A launch without errors and outside free mode can bill and has a pack to sell.
LEMMA LaunchedCanBill ==
  ASSUME LaunchErrors = {}, ~FreeMode
  PROVE  BillingEnabled /\ Purchasable # {}
<1>1. KeyErrors = {}
  BY DEF LaunchErrors
<1>2. Purchasable # {}
  BY <1>1 DEF LaunchErrors
<1>3. HasValue(env.secretKey) /\ HasValue(env.webhookSecret)
  <2>1. "secretKey" \notin KeyErrors /\ "webhookSecret" \notin KeyErrors
    BY <1>1
  <2> QED
    BY <2>1 DEF KeyErrors
<1>4. BillingEnabled
  BY <1>3 DEF HasValue, BillingEnabled, Truthy
<1> QED
  BY <1>2, <1>4

\* Nobody changes the environment of a running deploy.
LEMMA SameEnvironment ==
  ASSUME env' = env
  PROVE  /\ LaunchErrors' = LaunchErrors /\ FreeMode' = FreeMode
         /\ BillingEnabled' = BillingEnabled /\ Purchasable' = Purchasable
  BY DEF LaunchErrors, KeyErrors, FreeMode, BillingEnabled, Purchasable, Truthy, HasValue

LEMMA LaunchedKeeps == ASSUME Launched, [DeployNext]_deployvars PROVE Launched'
<1>1. CASE Preflight
  <2>1. env' = env /\ (deploy' = "up" => ~(env.production /\ LaunchErrors # {}))
    BY <1>1 DEF Preflight
  <2> QED
    BY <2>1, SameEnvironment DEF Launched
<1>2. CASE SubmitJob \/ (\E p \in Packs : BuyPack(p)) \/ UNCHANGED deployvars
  <2>1. env' = env /\ deploy' = deploy
    BY <1>2 DEF SubmitJob, BuyPack, deployvars
  <2> QED
    BY <2>1, SameEnvironment DEF Launched
<1> QED
  BY <1>1, <1>2 DEF DeployNext

LEMMA PayingKeeps == ASSUME DeployInv, [DeployNext]_deployvars PROVE CustomersCanPay'
<1>1. CASE SubmitJob
  <2>1. deploy = "up" /\ env' = env
    BY <1>1 DEF SubmitJob
  <2>2. env.production /\ ~FreeMode => BillingEnabled /\ Purchasable # {}
    BY <2>1, LaunchedCanBill DEF DeployInv, Launched
  <2>3. answer' # "shut"
    BY <1>1, <2>2 DEF SubmitJob, ShutGate
  <2>4. PaywallHasAWayThrough'
    BY <2>1, <2>2, SameEnvironment DEF PaywallHasAWayThrough
  <2> QED
    BY <2>3, <2>4 DEF CustomersCanPay, GateIsNeverShut
<1>2. CASE \E p \in Packs : BuyPack(p)
  <2>1. answer' = "sold" \/ answer' = "503"
    BY <1>2 DEF BuyPack
  <2> QED
    BY <2>1 DEF CustomersCanPay, GateIsNeverShut, PaywallHasAWayThrough
<1>3. CASE Preflight \/ UNCHANGED deployvars
  <2>1. env' = env /\ answer' = answer
    BY <1>3 DEF Preflight, deployvars
  <2> QED
    BY <2>1, SameEnvironment DEF DeployInv, CustomersCanPay, GateIsNeverShut, PaywallHasAWayThrough
<1> QED
  BY <1>1, <1>2, <1>3 DEF DeployNext

\* launchChecks.ts:63-67, isAuthenticated.ts:61-65: a production deploy that boots
\* never reaches the gate of deploys that cannot bill, and whoever it turns away for
\* lack of credits finds a pack on sale.
THEOREM BootedDeploysSell == DeploySpec => []CustomersCanPay
<1>1. DeployInit => DeployInv
  BY DEF DeployInit, DeployInv, Launched, CustomersCanPay, GateIsNeverShut, PaywallHasAWayThrough
<1>2. DeployInv /\ [DeployNext]_deployvars => DeployInv'
  <2> SUFFICES ASSUME DeployInv, [DeployNext]_deployvars PROVE DeployInv'
    OBVIOUS
  <2>1. Launched'
    BY LaunchedKeeps DEF DeployInv
  <2>2. CustomersCanPay'
    BY PayingKeeps
  <2> QED
    BY <2>1, <2>2 DEF DeployInv
<1>3. DeployInv => CustomersCanPay
  BY DEF DeployInv
<1> QED
  BY <1>1, <1>2, <1>3, PTL DEF DeploySpec

\* The deploy's state is what it should be: who has nothing is not charged.
THEOREM DeployTyped == DeploySpec => []DeployTypeOK
<1>1. DeployInit => DeployTypeOK
  BY DEF DeployInit, DeployTypeOK
<1>2. DeployTypeOK /\ [DeployNext]_deployvars => DeployTypeOK'
  <2> SUFFICES ASSUME DeployTypeOK, [DeployNext]_deployvars PROVE DeployTypeOK'
    OBVIOUS
  <2>1. CASE Preflight \/ UNCHANGED deployvars
    BY <2>1 DEF Preflight, deployvars, DeployTypeOK
  <2>2. CASE SubmitJob
    BY <2>2 DEF SubmitJob, DeployTypeOK
  <2>3. ASSUME NEW p \in Packs, BuyPack(p) PROVE DeployTypeOK'
    BY <2>3 DEF BuyPack, DeployTypeOK
  <2> QED
    BY <2>1, <2>2, <2>3 DEF DeployNext
<1> QED
  BY <1>1, <1>2, PTL DEF DeploySpec

-----------------------------------------------------------------------------
\* What division by a positive number yields
LEMMA Quotient ==
  ASSUME NEW n \in Nat, NEW d \in Nat \ {0}
  PROVE  /\ n \div d \in Nat
         /\ (n \div d) * d <= n /\ n < (n \div d) * d + d
  BY Z3

\* Multiplication by a positive number keeps the order of whole numbers.
LEMMA Times ==
  ASSUME NEW a \in Nat, NEW b \in Nat, NEW d \in Nat \ {0}, a < b
  PROVE  a * d + d <= b * d
<1>1. PICK k \in Nat : b = a + 1 + k
  <2>1. b - a - 1 \in Nat /\ b = a + 1 + (b - a - 1)
    OBVIOUS
  <2> QED
    BY <2>1
<1>2. b * d = a * d + d + k * d
  BY <1>1
<1>3. k * d \in Nat
  OBVIOUS
<1> QED
  BY <1>2, <1>3

LEMMA RatioCovers ==
  ASSUME NEW c \in Nat, NEW d \in Nat \ {0}
  PROVE  /\ Ratio(c, d) \in Nat
         /\ Ratio(c, d) * d >= c * CreditScale
         /\ Ratio(c, d) * d < c * CreditScale + d
<1> DEFINE n == c * CreditScale + d - 1
<1>1. n \in Nat /\ c * CreditScale \in Nat
  BY DEF CreditScale
<1>2. (n \div d) \in Nat /\ (n \div d) * d <= n /\ n < (n \div d) * d + d
  BY <1>1, Quotient
<1>3. Ratio(c, d) = n \div d
  BY DEF Ratio
<1>4. (n \div d) * d \in Nat
  BY <1>2
<1> HIDE DEF n
<1>5. n = c * CreditScale + d - 1
  BY DEF n
<1> QED
  BY <1>1, <1>2, <1>3, <1>4, <1>5

\* A product decides the order of what was multiplied.
LEMMA Order ==
  ASSUME NEW a \in Nat, NEW b \in Nat, NEW d \in Nat \ {0}
  PROVE  /\ a * d < b * d + d => a <= b
         /\ a * d > b * d => a > b
<1>1. a * d \in Nat /\ b * d \in Nat
  OBVIOUS
<1>2. CASE b < a
  <2>1. b * d + d <= a * d
    BY <1>2, Times
  <2> QED
    BY <1>1, <1>2, <2>1
<1>3. CASE a < b
  <2>1. a * d + d <= b * d
    BY <1>3, Times
  <2> QED
    BY <1>1, <1>3, <2>1
<1>4. CASE a = b
  BY <1>1, <1>4
<1> QED
  BY <1>2, <1>3, <1>4

\* The least price of a text is its ratio, and nothing only for no text.
LEMMA PriceIsRatio ==
  ASSUME NEW c \in Nat, NEW d \in Nat \ {0}
  PROVE  /\ CreditsForChars(c, d) = IF c = 0 THEN 0 ELSE Ratio(c, d)
         /\ c > 0 => Ratio(c, d) > 0
<1>1. Ratio(c, d) \in Nat /\ Ratio(c, d) * d >= c * CreditScale
  BY RatioCovers
<1>2. ASSUME c > 0 PROVE Ratio(c, d) > 0
  <2>1. c * CreditScale > 0 /\ c * CreditScale \in Nat /\ 0 * d = 0
    BY <1>2 DEF CreditScale
  <2>2. ASSUME Ratio(c, d) = 0 PROVE FALSE
    <3>1. Ratio(c, d) * d = 0
      BY <2>1, <2>2
    <3> QED
      BY <1>1, <2>1, <3>1
  <2>3. Ratio(c, d) \in Nat \ {0}
    BY <1>1, <2>2
  <2> QED
    BY <2>3
<1>3. CASE c = 0
  BY <1>3 DEF CreditsForChars
<1>4. CASE c > 0
  <2>1. ~(Ratio(c, d) < 1)
    BY <1>1, <1>2, <1>4
  <2> QED
    BY <1>2, <1>4, <2>1 DEF CreditsForChars
<1> QED
  BY <1>3, <1>4

\* A text whose characters are worth no more than h hundredths costs at most h.
LEMMA Affordable ==
  ASSUME NEW c \in Nat, NEW h \in Nat, NEW d \in Nat \ {0}, c * CreditScale <= h * d
  PROVE  CreditsForChars(c, d) <= h
<1>1. CASE c = 0
  BY <1>1, PriceIsRatio
<1>2. CASE c > 0
  <2>1. Ratio(c, d) \in Nat /\ Ratio(c, d) * d < c * CreditScale + d
    BY RatioCovers
  <2>2. Ratio(c, d) * d \in Nat /\ c * CreditScale \in Nat /\ h * d \in Nat
    BY <2>1 DEF CreditScale
  <2>3. Ratio(c, d) * d < h * d + d
    BY <2>1, <2>2
  <2>4. Ratio(c, d) <= h
    BY <2>1, <2>3, Order
  <2> QED
    BY <1>2, <2>4, PriceIsRatio
<1> QED
  BY <1>1, <1>2

\* One worth more costs more.
LEMMA Unaffordable ==
  ASSUME NEW c \in Nat, NEW h \in Nat, NEW d \in Nat \ {0}, c * CreditScale > h * d
  PROVE  CreditsForChars(c, d) > h
<1>1. Ratio(c, d) \in Nat /\ Ratio(c, d) * d >= c * CreditScale
  BY RatioCovers
<1>2. Ratio(c, d) * d \in Nat /\ c * CreditScale \in Nat /\ h * d \in Nat
  BY <1>1 DEF CreditScale
<1>3. Ratio(c, d) * d > h * d
  BY <1>1, <1>2
<1>4. Ratio(c, d) > h
  BY <1>1, <1>3, Order
<1>5. c # 0
  BY <1>2 DEF CreditScale
<1> QED
  BY <1>4, <1>5, PriceIsRatio

\* What a balance buys can be paid from it, and two characters more cannot.
LEMMA BalanceBuys ==
  ASSUME NEW h \in Nat \ {0}, NEW d \in Nat \ {0}, NEW chars \in CharsForCredits(h, d)
  PROVE  CreditsForChars(chars, d) <= h /\ CreditsForChars(chars + 2, d) > h
<1> DEFINE exact == (h * d) \div CreditScale
<1>1. h * d \in Nat /\ CreditScale \in Nat \ {0}
  BY DEF CreditScale
<1>2. exact \in Nat /\ exact * CreditScale <= h * d /\ h * d < exact * CreditScale + CreditScale
  BY <1>1, Quotient
<1>3. chars = exact \/ (exact > 0 /\ chars = exact - 1)
  BY DEF CharsForCredits
<1> HIDE DEF exact
<1>4. chars \in Nat
  BY <1>2, <1>3
<1>5. chars * CreditScale <= h * d /\ (chars + 2) * CreditScale > h * d
  BY <1>1, <1>2, <1>3 DEF CreditScale
<1>6. CreditsForChars(chars, d) <= h
  BY <1>4, <1>5, Affordable
<1>7. chars + 2 \in Nat
  BY <1>4
<1>8. CreditsForChars(chars + 2, d) > h
  BY <1>5, <1>7, Unaffordable
<1> QED
  BY <1>6, <1>8

LEMMA PricesOf ==
  ASSUME rate \in Nat \ {0}, length \in Nat
  PROVE  PricesAgree
<1> DEFINE h == CreditsForChars(length, rate)
<1>1. CASE length = 0
  <2>1. h = 0
    BY <1>1 DEF CreditsForChars
  <2>2. CharsForCredits(h, rate) = {0}
    BY <2>1 DEF CharsForCredits
  <2>3. CreditsForChars(0, rate) = 0
    BY DEF CreditsForChars
  <2>4. h * rate >= length * CreditScale
    BY <1>1, <2>1 DEF CreditScale
  <2> HIDE DEF h
  <2>5. PriceIsLeast
    BY <2>1, <2>4 DEF PriceIsLeast, h
  <2>6. BalanceBuysIt
    BY <2>1, <2>2, <2>3 DEF BalanceBuysIt, h
  <2> QED
    BY <2>5, <2>6 DEF PricesAgree
<1>2. CASE length > 0
  <2>1. h = Ratio(length, rate) /\ h \in Nat \ {0}
    BY <1>2, PriceIsRatio, RatioCovers
  <2>2. h * rate >= length * CreditScale /\ h * rate < length * CreditScale + rate
    BY <2>1, RatioCovers
  <2> HIDE DEF h
  <2>3. (h - 1) * rate = h * rate - rate /\ h * rate \in Nat /\ length * CreditScale \in Nat
    BY <2>1 DEF CreditScale
  <2>4. (h - 1) * rate < length * CreditScale
    BY <2>2, <2>3
  <2>5. PriceIsLeast
    BY <2>2, <2>4 DEF PriceIsLeast, h
  <2>6. \A chars \in CharsForCredits(h, rate) :
          CreditsForChars(chars, rate) <= h /\ CreditsForChars(chars + 2, rate) > h
    BY <2>1, BalanceBuys
  <2>7. BalanceBuysIt
    BY <2>6 DEF BalanceBuysIt, h
  <2> QED
    BY <2>5, <2>7 DEF PricesAgree
<1> QED
  BY <1>1, <1>2

\* amount.ts:77-84, catalog.ts:120-137: at any rate a deploy may configure and for any
\* length, the price is the least number of hundredths that covers the text, and the
\* length a balance is said to buy can be paid from it.
THEOREM PricesAlwaysAgree == AmountsSpec => []PricesAgree
<1> DEFINE Counted == rate \in Rates /\ length \in Nat
<1>1. AmountsInit => Counted
  BY DEF AmountsInit
<1>2. Counted /\ [AmountsNext]_amountvars => Counted'
  BY DEF AmountsNext, amountvars
<1>3. Counted => PricesAgree
  BY RateAssumption, PricesOf
<1> QED
  BY <1>1, <1>2, <1>3, PTL DEF AmountsSpec

-----------------------------------------------------------------------------
(* The planner. *)

Reader == INSTANCE FoldSteps WITH Op <- Played
Clock == INSTANCE FoldSteps WITH Op <- Later
Counter == INSTANCE FoldSteps WITH Op <- Longer
Speller == INSTANCE FoldSteps WITH Op <- Spelt
Adder == INSTANCE FoldSteps WITH Op <- Plus

Key == [type : {"type"}, char : Alphabet, ms : {1}]
Gap == [type : {"pause"}, ms : Nat, rest : BOOLEAN, floor : Nat]
Repair == [type : {"repair"}, offset : Nat, remove : Nat \ {0}, insert : Seq(Alphabet), ms : {1}]
Quiet == Key \cup Gap
PlanEvent == Quiet \cup Repair

\* What a plan types
PageOf(events) == FoldLeft(Played, <<>>, events)

-----------------------------------------------------------------------------
(* What the folds of the planner compute. *)

\* What the model folds is what FoldSteps is about.
LEMMA PlanFolds ==
  /\ \A s : PageOf(s) = Reader!Fold(<<>>, s)
  /\ \A s : Lasting(s) = Clock!Fold(0, s)
  /\ \A s : Net(s) = Counter!Fold(0, s)
  /\ \A s : TextOf(s) = Speller!Fold(<<>>, s)
  /\ \A s : FoldLeft(Plus, 0, s) = Adder!Fold(0, s)
<1>1. \A s : PageOf(s) = Reader!Fold(<<>>, s)
  BY DEF PageOf, Reader!Fold, Reader!FoldLeft, Reader!MapThenFoldSet, Reader!Max,
         FoldLeft, MapThenFoldSet, Max
<1>2. \A s : Lasting(s) = Clock!Fold(0, s)
  BY DEF Lasting, Clock!Fold, Clock!FoldLeft, Clock!MapThenFoldSet, Clock!Max,
         FoldLeft, MapThenFoldSet, Max
<1>3. \A s : Net(s) = Counter!Fold(0, s)
  BY DEF Net, Counter!Fold, Counter!FoldLeft, Counter!MapThenFoldSet, Counter!Max,
         FoldLeft, MapThenFoldSet, Max
<1>4. \A s : TextOf(s) = Speller!Fold(<<>>, s)
  BY DEF TextOf, Speller!Fold, Speller!FoldLeft, Speller!MapThenFoldSet, Speller!Max,
         FoldLeft, MapThenFoldSet, Max
<1>5. \A s : FoldLeft(Plus, 0, s) = Adder!Fold(0, s)
  BY DEF Adder!Fold, Adder!FoldLeft, Adder!MapThenFoldSet, Adder!Max,
         FoldLeft, MapThenFoldSet, Max
<1> QED
  BY <1>1, <1>2, <1>3, <1>4, <1>5

\* One event more.
LEMMA EventMeasured ==
  /\ Lasting(<<>>) = 0 /\ Net(<<>>) = 0 /\ PageOf(<<>>) = <<>>
  /\ \A s \in Seq(PlanEvent), e \in PlanEvent :
       /\ Lasting(Append(s, e)) = Lasting(s) + e.ms
       /\ Net(Append(s, e)) = Longer(Net(s), e)
       /\ PageOf(Append(s, e)) = Played(PageOf(s), e)
<1>1. Lasting(<<>>) = 0 /\ Net(<<>>) = 0 /\ PageOf(<<>>) = <<>>
  BY PlanFolds, Clock!FoldEmpty, Counter!FoldEmpty, Reader!FoldEmpty
<1>2. ASSUME NEW s \in Seq(PlanEvent), NEW e \in PlanEvent
      PROVE  /\ Lasting(Append(s, e)) = Lasting(s) + e.ms
             /\ Net(Append(s, e)) = Longer(Net(s), e)
             /\ PageOf(Append(s, e)) = Played(PageOf(s), e)
  <2>1. Clock!Fold(0, Append(s, e)) = Later(Clock!Fold(0, s), e)
    BY Clock!FoldAppend
  <2>2. Counter!Fold(0, Append(s, e)) = Longer(Counter!Fold(0, s), e)
    BY Counter!FoldAppend
  <2>3. Reader!Fold(<<>>, Append(s, e)) = Played(Reader!Fold(<<>>, s), e)
    BY Reader!FoldAppend
  <2> QED
    BY <2>1, <2>2, <2>3, PlanFolds DEF Later
<1> QED
  BY <1>1, <1>2

\* What an event is made of
LEMMA EventKinds ==
  /\ \A e \in Key : e.type = "type" /\ e.char \in Alphabet /\ e.ms = 1
  /\ \A e \in Gap : e.type = "pause" /\ e.ms \in Nat /\ e.rest \in BOOLEAN /\ e.floor \in Nat
  /\ \A e \in Repair : /\ e.type = "repair" /\ e.ms = 1 /\ e.insert \in Seq(Alphabet)
                       /\ e.offset \in Nat /\ e.remove \in Nat \ {0}
  /\ \A e \in PlanEvent : e.ms \in Nat /\ (e \in Quiet <=> e.type # "repair")
                          /\ (e \in Gap <=> IsPause(e))
  BY DEF Key, Gap, Repair, PlanEvent, Quiet, IsPause

\* What a sequence is made of
LEMMA EventSeqs ==
  /\ Seq(Key) \subseteq Seq(Quiet) /\ Seq(Gap) \subseteq Seq(Quiet)
  /\ Seq(Quiet) \subseteq Seq(PlanEvent)
  BY DEF Quiet, PlanEvent

\* A plan lasts some time, and adds some characters or takes some away.
LEMMA MeasuresTyped ==
  \A s \in Seq(PlanEvent) : Lasting(s) \in Nat /\ Net(s) \in Int
<1> DEFINE S == {s \in Seq(PlanEvent) : Lasting(s) \in Nat /\ Net(s) \in Int}
<1>1. <<>> \in S
  BY EventMeasured
<1>2. ASSUME NEW s \in Seq(PlanEvent), NEW e \in PlanEvent, s \in S
      PROVE  Append(s, e) \in S
  <2>1. Lasting(Append(s, e)) = Lasting(s) + e.ms /\ Net(Append(s, e)) = Longer(Net(s), e)
    BY EventMeasured
  <2>2. e.ms \in Nat
    BY EventKinds
  <2>3. Longer(Net(s), e) \in Int
    BY <1>2, EventKinds DEF Longer, PlanEvent, Quiet
  <2>4. Append(s, e) \in Seq(PlanEvent)
    OBVIOUS
  <2> QED
    BY <1>2, <2>1, <2>2, <2>3, <2>4
<1>3. Seq(PlanEvent) \subseteq S
  <2> HIDE DEF S
  <2> QED
    BY <1>1, <1>2, Clock!SequenceInduction
<1> QED
  BY <1>3

\* What an event adds to a length does not depend on the length.
LEMMA LongerAdds ==
  \A n \in Int, e \in PlanEvent : Longer(n, e) = n + Longer(0, e) /\ Longer(n, e) \in Int
<1> TAKE n \in Int, e \in PlanEvent
<1> QED
  BY EventKinds DEF Longer, PlanEvent, Quiet

\* Of two parts
LEMMA MeasuresAdd ==
  ASSUME NEW s \in Seq(PlanEvent)
  PROVE  \A r \in Seq(PlanEvent) :
           Lasting(s \o r) = Lasting(s) + Lasting(r) /\ Net(s \o r) = Net(s) + Net(r)
<1> DEFINE S == {r \in Seq(PlanEvent) :
                  Lasting(s \o r) = Lasting(s) + Lasting(r) /\ Net(s \o r) = Net(s) + Net(r)}
<1>0. Lasting(s) \in Nat /\ Net(s) \in Int
  BY MeasuresTyped
<1>1. <<>> \in S
  <2>1. s \o <<>> = s
    OBVIOUS
  <2> QED
    BY <1>0, <2>1, EventMeasured
<1>2. ASSUME NEW r \in Seq(PlanEvent), NEW e \in PlanEvent, r \in S
      PROVE  Append(r, e) \in S
  <2>1. s \o Append(r, e) = Append(s \o r, e) /\ s \o r \in Seq(PlanEvent)
        /\ Append(r, e) \in Seq(PlanEvent)
    OBVIOUS
  <2> DEFINE t == s \o r
             a == Append(r, e)
             b == Append(t, e)
  <2>2. Lasting(b) = Lasting(t) + e.ms /\ Net(b) = Longer(Net(t), e)
    <3>1. t \in Seq(PlanEvent)
      BY <2>1
    <3> HIDE DEF t
    <3> QED
      BY <3>1, EventMeasured
  <2>3. Lasting(a) = Lasting(r) + e.ms /\ Net(a) = Longer(Net(r), e)
    BY EventMeasured
  <2>4. Lasting(t) = Lasting(s) + Lasting(r) /\ Net(t) = Net(s) + Net(r)
    BY <1>2
  <2>5. Lasting(r) \in Nat /\ Net(r) \in Int /\ e.ms \in Nat
    BY MeasuresTyped, EventKinds
  <2>6. s \o a = b /\ a \in Seq(PlanEvent)
    BY <2>1
  <2> HIDE DEF a, b, t
  <2>7. Lasting(b) = Lasting(s) + Lasting(a)
    BY <1>0, <2>2, <2>3, <2>4, <2>5
  <2>8. Net(b) = Net(s) + Net(a)
    <3>1. Longer(Net(t), e) = Net(t) + Longer(0, e) /\ Longer(Net(r), e) = Net(r) + Longer(0, e)
          /\ Longer(0, e) \in Int
      <4>1. Net(t) \in Int
        BY <1>0, <2>4, <2>5
      <4> QED
        BY <4>1, <2>5, LongerAdds
    <3> QED
      BY <1>0, <2>2, <2>3, <2>4, <2>5, <3>1
  <2>9. Lasting(s \o a) = Lasting(s) + Lasting(a) /\ Net(s \o a) = Net(s) + Net(a) /\ a \in Seq(PlanEvent)
    BY <2>6, <2>7, <2>8
  <2> QED
    BY <2>9 DEF a
<1>3. Seq(PlanEvent) \subseteq S
  <2> HIDE DEF S
  <2> QED
    BY <1>1, <1>2, Clock!SequenceInduction
<1> QED
  BY <1>3

\* Keys and pauses only add to a page, the characters typed.
LEMMA QuietMeasured ==
  \A r \in Seq(Quiet) : PageOf(r) \in Seq(Alphabet) /\ Net(r) = Len(PageOf(r))
<1> DEFINE S == {r \in Seq(Quiet) : PageOf(r) \in Seq(Alphabet) /\ Net(r) = Len(PageOf(r))}
<1>1. <<>> \in S
  <2>1. <<>> \in Seq(Quiet) /\ <<>> \in Seq(Alphabet) /\ Len(<<>>) = 0
    OBVIOUS
  <2> QED
    BY <2>1, EventMeasured
<1>2. ASSUME NEW r \in Seq(Quiet), NEW e \in Quiet, r \in S
      PROVE  Append(r, e) \in S
  <2>1. r \in Seq(PlanEvent) /\ e \in PlanEvent /\ Append(r, e) \in Seq(Quiet)
    BY EventSeqs DEF PlanEvent
  <2>2. Net(Append(r, e)) = Longer(Net(r), e) /\ PageOf(Append(r, e)) = Played(PageOf(r), e)
    BY <2>1, EventMeasured
  <2>3. PageOf(r) \in Seq(Alphabet) /\ Net(r) = Len(PageOf(r))
    BY <1>2
  <2>4. Played(PageOf(r), e) \in Seq(Alphabet) /\ Longer(Net(r), e) = Len(Played(PageOf(r), e))
    <3> PICK page \in Seq(Alphabet) : page = PageOf(r)
      BY <2>3
    <3>1. CASE e \in Key
      <4>1. Played(page, e) = Append(page, e.char) /\ Longer(Len(page), e) = Len(page) + 1 /\ e.char \in Alphabet
        BY <3>1, EventKinds DEF Played, Longer
      <4> QED
        BY <2>3, <4>1
    <3>2. CASE e \in Gap
      BY <2>3, <3>2, EventKinds DEF Played, Longer
    <3> QED
      BY <3>1, <3>2 DEF Quiet
  <2> QED
    BY <2>1, <2>2, <2>4
<1>3. Seq(Quiet) \subseteq S
  <2> HIDE DEF S
  <2> QED
    BY <1>1, <1>2, Clock!SequenceInduction
<1> QED
  BY <1>3

\* Keys and pauses after a plan type the same as on an empty page, at its end.
LEMMA QuietAdds ==
  ASSUME NEW s \in Seq(PlanEvent), PageOf(s) \in Seq(Alphabet)
  PROVE  \A r \in Seq(Quiet) : PageOf(s \o r) = PageOf(s) \o PageOf(r)
<1> DEFINE S == {r \in Seq(Quiet) : PageOf(s \o r) = PageOf(s) \o PageOf(r)}
<1>1. <<>> \in S
  <2>1. s \o <<>> = s /\ PageOf(s) \o <<>> = PageOf(s)
    OBVIOUS
  <2> QED
    BY <2>1, EventMeasured
<1>2. ASSUME NEW r \in Seq(Quiet), NEW e \in Quiet, r \in S
      PROVE  Append(r, e) \in S
  <2>1. r \in Seq(PlanEvent) /\ e \in PlanEvent /\ Append(r, e) \in Seq(Quiet)
    BY EventSeqs DEF PlanEvent
  <2>2. s \o Append(r, e) = Append(s \o r, e) /\ s \o r \in Seq(PlanEvent)
    BY <2>1
  <2>3. PageOf(Append(r, e)) = Played(PageOf(r), e)
    BY <2>1, EventMeasured
  <2>4. PageOf(Append(s \o r, e)) = Played(PageOf(s \o r), e)
    <3> PICK t \in Seq(PlanEvent) : t = s \o r
      BY <2>2
    <3>1. PageOf(Append(t, e)) = Played(PageOf(t), e)
      BY <2>1, EventMeasured
    <3> QED
      BY <3>1
  <2> PICK a \in Seq(Alphabet), b \in Seq(Alphabet) : a = PageOf(s) /\ b = PageOf(r)
    BY QuietMeasured
  <2>5. PageOf(s \o r) = a \o b
    BY <1>2
  <2>6. Played(a \o b, e) = a \o Played(b, e)
    <3>1. CASE e \in Key
      <4>1. e.char \in Alphabet /\ Played(b, e) = Append(b, e.char) /\ Played(a \o b, e) = Append(a \o b, e.char)
        BY <3>1, EventKinds DEF Played
      <4> PICK c \in Alphabet : c = e.char
        BY <4>1
      <4>2. Append(a \o b, c) = a \o Append(b, c)
        <5>1. Append(b, c) = b \o <<c>> /\ Append(a \o b, c) = (a \o b) \o <<c>>
          BY AppendIsConcat
        <5>2. <<c>> \in Seq(Alphabet)
          OBVIOUS
        <5> QED
          BY <5>1, <5>2, ConcatAssociative
      <4> QED
        BY <4>1, <4>2
    <3>2. CASE e \in Gap
      BY <3>2, EventKinds DEF Played
    <3> QED
      BY <3>1, <3>2 DEF Quiet
  <2>7. PageOf(s \o Append(r, e)) = a \o PageOf(Append(r, e))
    BY <2>2, <2>3, <2>4, <2>5, <2>6
  <2> QED
    BY <2>1, <2>7
<1>3. Seq(Quiet) \subseteq S
  <2> HIDE DEF S
  <2> QED
    BY <1>1, <1>2, Clock!SequenceInduction
<1> QED
  BY <1>3

\* Pauses type nothing.
LEMMA PausesTypeNothing ==
  ASSUME NEW s \in Seq(PlanEvent)
  PROVE  \A r \in Seq(Gap) : PageOf(s \o r) = PageOf(s) /\ Net(s \o r) = Net(s)
<1> DEFINE S == {r \in Seq(Gap) : PageOf(s \o r) = PageOf(s) /\ Net(s \o r) = Net(s)}
<1>1. <<>> \in S
  <2>1. s \o <<>> = s
    OBVIOUS
  <2> QED
    BY <2>1
<1>2. ASSUME NEW r \in Seq(Gap), NEW e \in Gap, r \in S
      PROVE  Append(r, e) \in S
  <2>1. r \in Seq(PlanEvent) /\ e \in PlanEvent /\ Append(r, e) \in Seq(Gap)
    BY EventSeqs DEF PlanEvent, Quiet
  <2>2. s \o Append(r, e) = Append(s \o r, e) /\ s \o r \in Seq(PlanEvent)
    BY <2>1
  <2>3. PageOf(Append(s \o r, e)) = Played(PageOf(s \o r), e) /\ Net(Append(s \o r, e)) = Longer(Net(s \o r), e)
    <3> PICK t \in Seq(PlanEvent) : t = s \o r
      BY <2>2
    <3>1. PageOf(Append(t, e)) = Played(PageOf(t), e) /\ Net(Append(t, e)) = Longer(Net(t), e)
      BY <2>1, EventMeasured
    <3> QED
      BY <3>1
  <2>4. \A v : Played(v, e) = v /\ Longer(v, e) = v
    BY EventKinds DEF Played, Longer
  <2> QED
    BY <1>2, <2>1, <2>2, <2>3, <2>4
<1>3. Seq(Gap) \subseteq S
  <2> HIDE DEF S
  <2> QED
    BY <1>1, <1>2, Clock!SequenceInduction
<1> QED
  BY <1>3

\* The keys of a text type it, one unit each.
LEMMA StrokesType ==
  \A w \in Seq(Alphabet) :
    /\ Strokes(w) \in Seq(Key) /\ Len(Strokes(w)) = Len(w)
    /\ PageOf(Strokes(w)) = w /\ Lasting(Strokes(w)) = Len(w)
<1> DEFINE S == {w \in Seq(Alphabet) :
                  /\ Strokes(w) \in Seq(Key) /\ Len(Strokes(w)) = Len(w)
                  /\ PageOf(Strokes(w)) = w /\ Lasting(Strokes(w)) = Len(w)}
<1>1. <<>> \in S
  <2>1. Strokes(<<>>) = <<>>
    BY DEF Strokes
  <2>2. <<>> \in Seq(Key) /\ <<>> \in Seq(Alphabet) /\ Len(<<>>) = 0
    OBVIOUS
  <2> QED
    BY <2>1, <2>2, EventMeasured
<1>2. ASSUME NEW w \in Seq(Alphabet), NEW c \in Alphabet, w \in S
      PROVE  Append(w, c) \in S
  <2> DEFINE k == Strokes(w)
             e == Stroke(c)
  <2>1. k \in Seq(Key) /\ Len(k) = Len(w) /\ PageOf(k) = w /\ Lasting(k) = Len(w)
    BY <1>2
  <2>2. e \in Key /\ e.type = "type" /\ e.char = c /\ e.ms = 1
    BY DEF Stroke, Key
  <2>3. Strokes(Append(w, c)) = Append(k, e)
    <3>1. Strokes(Append(w, c)) \in Seq(Key) /\ Len(Strokes(Append(w, c))) = Len(w) + 1
          /\ \A i \in 1..(Len(w) + 1) : Strokes(Append(w, c))[i] = Stroke(Append(w, c)[i])
      BY DEF Strokes, Stroke, Key
    <3>2. \A i \in 1..Len(w) : k[i] = Stroke(w[i])
      BY DEF Strokes
    <3> HIDE DEF k
    <3>3. Append(k, e) \in Seq(Key) /\ Len(Append(k, e)) = Len(w) + 1
          /\ \A i \in 1..(Len(w) + 1) : Append(k, e)[i] = Stroke(Append(w, c)[i])
      BY <2>1, <2>2, <3>2
    <3> QED
      BY <3>1, <3>3, SeqEqual
  <2> HIDE DEF k, e
  <2>4. k \in Seq(PlanEvent) /\ e \in PlanEvent
    BY <2>1, <2>2, EventSeqs DEF PlanEvent, Quiet
  <2>5. Lasting(Append(k, e)) = Lasting(k) + e.ms /\ PageOf(Append(k, e)) = Played(PageOf(k), e)
    BY <2>4, EventMeasured
  <2>6. PageOf(Append(k, e)) = Append(w, c) /\ Lasting(Append(k, e)) = Len(w) + 1
    BY <2>1, <2>2, <2>5 DEF Played
  <2>7. Append(k, e) \in Seq(Key) /\ Len(Append(k, e)) = Len(k) + 1
        /\ Append(w, c) \in Seq(Alphabet) /\ Len(Append(w, c)) = Len(w) + 1
    BY <2>1, <2>2
  <2> QED
    BY <2>1, <2>3, <2>6, <2>7
<1>3. Seq(Alphabet) \subseteq S
  <2> HIDE DEF S
  <2> QED
    BY <1>1, <1>2, Clock!SequenceInduction
<1> QED
  BY <1>3

-----------------------------------------------------------------------------
(* Parts of a sequence that grows. *)

Associate(x, y, z) == (x \o y) \o z = x \o (y \o z)

\* Concatenation is associative.
LEMMA Associative == \A S : \A x, y, z \in Seq(S) : Associate(x, y, z)
  BY ConcatAssociative DEF Associate

\* A part of a sequence is where it was once more is added at the end.
LEMMA Windows ==
  ASSUME NEW E, NEW s \in Seq(E), NEW r \in Seq(E), NEW a \in Nat \ {0}
  PROVE  /\ s \o r \in Seq(E) /\ Len(s \o r) = Len(s) + Len(r)
         /\ \A i \in 1..Len(s) : (s \o r)[i] = s[i]
         /\ \A b \in 0..Len(s) : SubSeq(s \o r, a, b) = SubSeq(s, a, b) /\ SubSeq(s, a, b) \in Seq(E)
<1>t. PICK t \in Seq(E) : t = s \o r
  BY ConcatProperties
<1>1. /\ Len(t) = Len(s) + Len(r) /\ Len(s) \in Nat /\ Len(r) \in Nat
      /\ \A i \in 1..(Len(s) + Len(r)) : t[i] = IF i <= Len(s) THEN s[i] ELSE r[i - Len(s)]
      /\ \A i \in 1..Len(s) : s[i] \in E
      /\ \A i \in 1..Len(t) : t[i] \in E
  BY <1>t, ConcatProperties
<1>2. ASSUME NEW b \in 0..Len(s) PROVE SubSeq(t, a, b) = SubSeq(s, a, b) /\ SubSeq(s, a, b) \in Seq(E)
  <2>1. /\ SubSeq(s, a, b) \in Seq(E) /\ Len(SubSeq(s, a, b)) = IF a <= b THEN b - a + 1 ELSE 0
        /\ \A i \in 1..(b - a + 1) : SubSeq(s, a, b)[i] = s[a + i - 1]
    <3>1. \A i \in a..b : s[i] \in E
      BY <1>1
    <3> QED
      BY <3>1, SubSeqProperties
  <2>2. /\ SubSeq(t, a, b) \in Seq(E) /\ Len(SubSeq(t, a, b)) = IF a <= b THEN b - a + 1 ELSE 0
        /\ \A i \in 1..(b - a + 1) : SubSeq(t, a, b)[i] = t[a + i - 1]
    <3>1. \A i \in a..b : t[i] \in E
      BY <1>1
    <3> QED
      BY <3>1, SubSeqProperties
  <2>3. ASSUME NEW i \in 1..Len(SubSeq(s, a, b)) PROVE SubSeq(t, a, b)[i] = SubSeq(s, a, b)[i]
    <3>1. i \in 1..(b - a + 1) /\ a + i - 1 \in 1..Len(s) /\ a + i - 1 \in 1..(Len(s) + Len(r))
      BY <1>1, <2>1
    <3>2. t[a + i - 1] = s[a + i - 1]
      BY <1>1, <3>1
    <3> QED
      BY <2>1, <2>2, <3>1, <3>2
  <2> QED
    <3> PICK x \in Seq(E), y \in Seq(E) : x = SubSeq(t, a, b) /\ y = SubSeq(s, a, b)
      BY <2>1, <2>2
    <3>1. Len(x) = Len(y) /\ \A i \in 1..Len(y) : x[i] = y[i]
      BY <2>1, <2>2, <2>3
    <3> QED
      BY <2>1, <3>1, SeqEqual
<1>3. t \in Seq(E) /\ Len(t) = Len(s) + Len(r) /\ \A i \in 1..Len(s) : t[i] = s[i]
  BY <1>1
<1> QED
  BY <1>2, <1>3, <1>t, Zenon

\* The end of a sequence and what was added to it
LEMMA WindowGrows ==
  ASSUME NEW E, NEW s \in Seq(E), NEW r \in Seq(E), NEW a \in Nat \ {0}, a <= Len(s) + 1
  PROVE  SubSeq(s \o r, a, Len(s \o r)) = SubSeq(s, a, Len(s)) \o r
<1>t. PICK t \in Seq(E) : t = s \o r
  BY ConcatProperties
<1>1. /\ Len(t) = Len(s) + Len(r) /\ Len(s) \in Nat /\ Len(r) \in Nat
      /\ \A i \in 1..(Len(s) + Len(r)) : t[i] = IF i <= Len(s) THEN s[i] ELSE r[i - Len(s)]
      /\ \A i \in 1..Len(s) : s[i] \in E
      /\ \A i \in 1..Len(t) : t[i] \in E
  BY <1>t, ConcatProperties
<1>3. SubSeq(t, a, Len(t)) = SubSeq(s, a, Len(s)) \o r
  <2> DEFINE n == Len(s)
             m == Len(t)
  <2>1. /\ SubSeq(s, a, n) \in Seq(E) /\ Len(SubSeq(s, a, n)) = n - a + 1
        /\ \A i \in 1..(n - a + 1) : SubSeq(s, a, n)[i] = s[a + i - 1]
    <3>1. \A i \in a..n : s[i] \in E
      BY <1>1
    <3>2. /\ SubSeq(s, a, n) \in Seq(E) /\ Len(SubSeq(s, a, n)) = IF a <= n THEN n - a + 1 ELSE 0
          /\ \A i \in 1..(n - a + 1) : SubSeq(s, a, n)[i] = s[a + i - 1]
      <4>1. a \in Int /\ n \in Int
        BY <1>1
      <4> HIDE DEF n
      <4> QED
        BY <3>1, <4>1, SubSeqProperties
    <3>3. (IF a <= n THEN n - a + 1 ELSE 0) = n - a + 1
      BY <1>1
    <3> HIDE DEF n
    <3> QED
      BY <3>2, <3>3
  <2>2. /\ SubSeq(t, a, m) \in Seq(E) /\ Len(SubSeq(t, a, m)) = m - a + 1
        /\ \A i \in 1..(m - a + 1) : SubSeq(t, a, m)[i] = t[a + i - 1]
    <3>1. \A i \in a..m : t[i] \in E
      BY <1>1
    <3>2. /\ SubSeq(t, a, m) \in Seq(E) /\ Len(SubSeq(t, a, m)) = IF a <= m THEN m - a + 1 ELSE 0
          /\ \A i \in 1..(m - a + 1) : SubSeq(t, a, m)[i] = t[a + i - 1]
      <4>1. a \in Int /\ m \in Int
        BY <1>1
      <4> HIDE DEF m
      <4> QED
        BY <3>1, <4>1, SubSeqProperties
    <3>3. (IF a <= m THEN m - a + 1 ELSE 0) = m - a + 1
      BY <1>1
    <3> HIDE DEF m
    <3> QED
      BY <3>2, <3>3
  <2>x. PICK x \in Seq(E), y \in Seq(E) : x = SubSeq(t, a, m) /\ y = SubSeq(s, a, n)
    BY <2>1, <2>2
  <2>z. PICK z \in Seq(E) : z = y \o r
    BY ConcatProperties
  <2>3. Len(z) = Len(y) + Len(r) /\ \A i \in 1..(Len(y) + Len(r)) : z[i] = IF i <= Len(y) THEN y[i] ELSE r[i - Len(y)]
    BY <2>z, ConcatProperties
  <2>4. Len(y) = n - a + 1 /\ Len(x) = Len(z)
    BY <1>1, <2>1, <2>2, <2>3, <2>x
  <2>5. ASSUME NEW i \in 1..Len(x) PROVE x[i] = z[i]
    <3>1. i \in 1..(m - a + 1) /\ a + i - 1 \in 1..(Len(s) + Len(r)) /\ i \in 1..(Len(y) + Len(r)) /\ i \in Int
      BY <1>1, <2>2, <2>3, <2>4, <2>x
    <3>2. x[i] = t[a + i - 1]
      BY <2>2, <2>x, <3>1
    <3>3. CASE i <= Len(y)
      <4>1. i \in 1..(n - a + 1) /\ a + i - 1 <= Len(s)
        BY <1>1, <2>4, <3>1, <3>3
      <4>2. y[i] = s[a + i - 1]
        BY <2>1, <2>x, <4>1
      <4>3. t[a + i - 1] = s[a + i - 1]
        BY <1>1, <3>1, <4>1
      <4>4. z[i] = y[i]
        BY <2>3, <3>1, <3>3
      <4> QED
        BY <3>2, <4>2, <4>3, <4>4
    <3>4. CASE ~(i <= Len(y))
      <4>1. ~(a + i - 1 <= Len(s)) /\ (a + i - 1) - Len(s) = i - Len(y)
        <5>l. PICK l \in Nat, k \in Int, q \in Nat : l = Len(s) /\ k = Len(y) /\ q = a
          BY <1>1
        <5>1. k = l - q + 1 /\ ~(i <= k) /\ i \in Int
          BY <2>4, <3>1, <3>4, <5>l
        <5>2. ~(q + i - 1 <= l) /\ (q + i - 1) - l = i - k
          BY <5>1
        <5> QED
          BY <5>2, <5>l
      <4>2. t[a + i - 1] = r[i - Len(y)]
        <5>p. PICK p \in 1..(Len(s) + Len(r)) : p = a + i - 1
          BY <3>1
        <5>1. ~(p <= Len(s)) /\ p - Len(s) = i - Len(y)
          BY <4>1, <5>p
        <5>2. t[p] = r[p - Len(s)]
          BY <1>1, <5>1
        <5> QED
          BY <5>p, <5>1, <5>2
      <4>3. z[i] = r[i - Len(y)]
        BY <2>3, <3>1, <3>4
      <4> QED
        BY <3>2, <4>2, <4>3
    <3> QED
      BY <3>3, <3>4
  <2>6. x = z
    BY <2>4, <2>5, SeqEqual
  <2> QED
    BY <2>6, <2>x, <2>z
<1> QED
  BY <1>3, <1>t

-----------------------------------------------------------------------------
(* The plan types the text. *)

Mistake == [offset : Nat, remove : Nat \ {0}, insert : Seq(Alphabet), madeAt : Nat, rests : Nat]

Spliced(page, o, r, ins) == SubSeq(page, 1, o) \o ins \o SubSeq(page, o + r + 1, Len(page))

PutRight(page, m) ==
  IF m = <<>> THEN page ELSE Spliced(page, m[1].offset, m[1].remove, m[1].insert)

\* A splice before the end of a page is the same with more text after it.
LEMMA SpliceBefore ==
  ASSUME NEW page \in Seq(Alphabet), NEW ins \in Seq(Alphabet), NEW o \in Nat, NEW r \in Nat,
         o + r <= Len(page)
  PROVE  /\ Spliced(page, o, r, ins) \in Seq(Alphabet)
         /\ Len(Spliced(page, o, r, ins)) = Len(page) + Len(ins) - r
         /\ \A k \in Seq(Alphabet) : Spliced(page \o k, o, r, ins) = Spliced(page, o, r, ins) \o k
<1>0. /\ SubSeq(page, 1, o) \in Seq(Alphabet) /\ Len(SubSeq(page, 1, o)) = o
      /\ SubSeq(page, o + r + 1, Len(page)) \in Seq(Alphabet)
      /\ Len(SubSeq(page, o + r + 1, Len(page))) = Len(page) - (o + r)
  <2>1. Len(page) \in Nat /\ o \in 0..Len(page) /\ \A i \in 1..Len(page) : page[i] \in Alphabet
    OBVIOUS
  <2>2. /\ \A i \in 1..o : page[i] \in Alphabet
        /\ \A i \in (o + r + 1)..Len(page) : page[i] \in Alphabet
    BY <2>1
  <2>3. SubSeq(page, 1, o) \in Seq(Alphabet) /\ Len(SubSeq(page, 1, o)) = IF 1 <= o THEN o - 1 + 1 ELSE 0
    BY <2>2, SubSeqProperties
  <2>4. /\ SubSeq(page, o + r + 1, Len(page)) \in Seq(Alphabet)
        /\ Len(SubSeq(page, o + r + 1, Len(page)))
             = IF o + r + 1 <= Len(page) THEN Len(page) - (o + r + 1) + 1 ELSE 0
    BY <2>1, <2>2, SubSeqProperties
  <2> QED
    BY <2>1, <2>3, <2>4
<1>a. PICK a \in Seq(Alphabet), b \in Seq(Alphabet) :
      a = SubSeq(page, 1, o) /\ b = SubSeq(page, o + r + 1, Len(page))
  BY <1>0
<1>1. Len(a) = o /\ Len(b) = Len(page) - (o + r)
  BY <1>0, <1>a
<1>c. PICK c \in Seq(Alphabet) : c = a \o ins
  BY ConcatProperties
<1>2. Spliced(page, o, r, ins) = c \o b
  BY <1>a, <1>c DEF Spliced
<1>3. Len(c) = o + Len(ins) /\ c \o b \in Seq(Alphabet) /\ Len(c \o b) = Len(c) + Len(b)
  <2>1. Len(a \o ins) = Len(a) + Len(ins)
    BY ConcatProperties
  <2>2. c \o b \in Seq(Alphabet) /\ Len(c \o b) = Len(c) + Len(b)
    BY ConcatProperties
  <2> QED
    BY <1>1, <1>c, <2>1, <2>2
<1>4. ASSUME NEW k \in Seq(Alphabet) PROVE Spliced(page \o k, o, r, ins) = (c \o b) \o k
  <2>1. SubSeq(page \o k, 1, o) = a
    <3>1. 1 \in Nat \ {0} /\ o \in 0..Len(page)
      OBVIOUS
    <3> QED
      BY <1>a, <3>1, Windows
  <2>2. SubSeq(page \o k, o + r + 1, Len(page \o k)) = b \o k
    <3>q. PICK q \in Nat \ {0} : q = o + r + 1 /\ q <= Len(page) + 1
      OBVIOUS
    <3>1. SubSeq(page \o k, q, Len(page \o k)) = SubSeq(page, q, Len(page)) \o k
      BY <3>q, WindowGrows
    <3> QED
      BY <1>a, <3>q, <3>1
  <2>3. Spliced(page \o k, o, r, ins) = c \o (b \o k)
    BY <1>c, <2>1, <2>2 DEF Spliced
  <2>4. Associate(c, b, k)
    BY Associative
  <2> QED
    BY <2>3, <2>4 DEF Associate
<1>5. Spliced(page, o, r, ins) \in Seq(Alphabet)
  BY <1>2, <1>3
<1>6. Len(Spliced(page, o, r, ins)) = Len(page) + Len(ins) - r
  <2>1. Len(page) \in Nat /\ Len(ins) \in Nat
    OBVIOUS
  <2>d. PICK d : d = c \o b
    OBVIOUS
  <2>2. Len(d) = (o + Len(ins)) + (Len(page) - (o + r))
    BY <1>1, <1>3, <2>d
  <2>3. Len(d) = Len(page) + Len(ins) - r
    BY <2>1, <2>2
  <2> QED
    BY <1>2, <2>d, <2>3
<1>7. \A k \in Seq(Alphabet) : Spliced(page \o k, o, r, ins) = Spliced(page, o, r, ins) \o k
  BY <1>2, <1>4
<1> QED
  BY <1>5, <1>6, <1>7

\* A repair puts the right letters in the place of the wrong ones.
LEMMA FixingSplices ==
  ASSUME NEW m \in Mistake
  PROVE  /\ Fixing(m) \in Repair /\ Fixing(m).offset = m.offset /\ Fixing(m).remove = m.remove
         /\ \A page : Played(page, Fixing(m)) = Spliced(page, m.offset, m.remove, m.insert)
         /\ \A n : Longer(n, Fixing(m)) = n + Len(m.insert) - m.remove
<1>1. m.offset \in Nat /\ m.remove \in Nat \ {0} /\ m.insert \in Seq(Alphabet)
  BY DEF Mistake
<1>2. /\ Fixing(m) \in Repair /\ Fixing(m).type = "repair" /\ Fixing(m).offset = m.offset
      /\ Fixing(m).remove = m.remove /\ Fixing(m).insert = m.insert
  BY <1>1 DEF Fixing, Repair
<1> QED
  BY <1>2 DEF Played, Spliced, Longer

RepairsIn(s) == {i \in DOMAIN s : s[i].type = "repair"}
LengthAt(s, n) == Net(SubSeq(s, 1, n))

\* What is added to a plan leaves what it was.
LEMMA PlanGrows ==
  ASSUME NEW s \in Seq(PlanEvent), NEW r \in Seq(PlanEvent)
  PROVE  /\ s \o r \in Seq(PlanEvent) /\ Len(s \o r) = Len(s) + Len(r)
         /\ \A i \in 1..Len(s) : (s \o r)[i] = s[i]
         /\ \A b \in 0..Len(s) : LengthAt(s \o r, b) = LengthAt(s, b)
         /\ LengthAt(s \o r, Len(s) + Len(r)) = Net(s) + Net(r)
         /\ LengthAt(s, Len(s)) = Net(s)
         /\ \A b \in 0..Len(s) : LengthAt(s, b) \in Int
<1>1. 1 \in Nat \ {0}
  OBVIOUS
<1>2. /\ s \o r \in Seq(PlanEvent) /\ Len(s \o r) = Len(s) + Len(r)
      /\ \A i \in 1..Len(s) : (s \o r)[i] = s[i]
      /\ \A b \in 0..Len(s) : SubSeq(s \o r, 1, b) = SubSeq(s, 1, b) /\ SubSeq(s, 1, b) \in Seq(PlanEvent)
  BY <1>1, Windows
<1>3. Net(s \o r) = Net(s) + Net(r)
  BY MeasuresAdd
<1>t. PICK t \in Seq(PlanEvent) : t = s \o r
  BY <1>2
<1>4. SubSeq(t, 1, Len(t)) = t
  BY SubSeqFull
<1>5. SubSeq(s, 1, Len(s)) = s
  BY SubSeqFull
<1>6. \A b \in 0..Len(s) : LengthAt(s, b) \in Int
  BY <1>2, MeasuresTyped DEF LengthAt
<1>7. \A b \in 0..Len(s) : LengthAt(s \o r, b) = LengthAt(s, b)
  BY <1>2 DEF LengthAt
<1>8. LengthAt(s \o r, Len(s) + Len(r)) = Net(s) + Net(r) /\ LengthAt(s, Len(s)) = Net(s)
  BY <1>2, <1>3, <1>t, <1>4, <1>5 DEF LengthAt
<1> QED
  BY <1>2, <1>6, <1>7, <1>8

\* Keys and pauses are no repairs.
LEMMA QuietAddsNoRepair ==
  ASSUME NEW s \in Seq(PlanEvent), NEW r \in Seq(Quiet)
  PROVE  RepairsIn(s \o r) = RepairsIn(s)
<1>t. PICK t \in Seq(PlanEvent) : t = s \o r
  BY EventSeqs, ConcatProperties
<1>1. r \in Seq(PlanEvent)
  BY EventSeqs
<1>2. /\ Len(t) = Len(s) + Len(r) /\ DOMAIN t = 1..Len(t) /\ DOMAIN s = 1..Len(s)
      /\ Len(s) \in Nat /\ Len(r) \in Nat
      /\ \A i \in 1..(Len(s) + Len(r)) : t[i] = IF i <= Len(s) THEN s[i] ELSE r[i - Len(s)]
  <2>1. /\ Len(t) = Len(s) + Len(r)
        /\ \A i \in 1..(Len(s) + Len(r)) : t[i] = IF i <= Len(s) THEN s[i] ELSE r[i - Len(s)]
    BY <1>1, <1>t, ConcatProperties
  <2> QED
    BY <2>1
<1>3. \A i \in 1..Len(r) : r[i].type # "repair"
  BY EventKinds DEF PlanEvent
<1>4. ASSUME NEW i \in 1..Len(t), t[i].type = "repair" PROVE i <= Len(s)
  <2>1. CASE ~(i <= Len(s))
    <3>1. i - Len(s) \in 1..Len(r) /\ t[i] = r[i - Len(s)]
      BY <1>2, <2>1
    <3> QED
      BY <1>3, <1>4, <3>1
  <2> QED
    BY <2>1
<1>5. \A i \in 1..Len(s) : i \in 1..Len(t) /\ t[i] = s[i]
  BY <1>2
<1>6. ASSUME NEW i \in RepairsIn(t) PROVE i \in RepairsIn(s)
  BY <1>2, <1>4, <1>5 DEF RepairsIn
<1>7. ASSUME NEW i \in RepairsIn(s) PROVE i \in RepairsIn(t)
  BY <1>2, <1>5 DEF RepairsIn
<1> QED
  BY <1>t, <1>6, <1>7

\* One repair more, and the last of the plan
LEMMA RepairAdded ==
  ASSUME NEW s \in Seq(PlanEvent), NEW f \in Repair
  PROVE  /\ <<f>> \in Seq(PlanEvent) /\ Len(<<f>>) = 1
         /\ RepairsIn(s \o <<f>>) = RepairsIn(s) \cup {Len(s) + 1}
         /\ (s \o <<f>>)[Len(s) + 1] = f
         /\ RepairsIn(s) \subseteq 1..Len(s)
<1>1. f \in PlanEvent /\ f.type = "repair"
  BY EventKinds DEF PlanEvent
<1>2. <<f>> \in Seq(PlanEvent) /\ Len(<<f>>) = 1 /\ <<f>>[1] = f
  BY <1>1
<1>t. PICK t \in Seq(PlanEvent) : t = s \o <<f>>
  BY <1>2, ConcatProperties
<1>3. /\ Len(t) = Len(s) + 1 /\ DOMAIN t = 1..Len(t) /\ DOMAIN s = 1..Len(s) /\ Len(s) \in Nat
      /\ \A i \in 1..Len(s) : t[i] = s[i]
      /\ t[Len(s) + 1] = f
  <2>1. t = Append(s, f)
    BY <1>1, <1>t, AppendIsConcat
  <2> QED
    BY <1>1, <2>1
<1>4. RepairsIn(t) = RepairsIn(s) \cup {Len(s) + 1}
  <2>1. ASSUME NEW i \in RepairsIn(t) PROVE i \in RepairsIn(s) \cup {Len(s) + 1}
    BY <1>3 DEF RepairsIn
  <2>2. ASSUME NEW i \in RepairsIn(s) PROVE i \in RepairsIn(t)
    BY <1>3 DEF RepairsIn
  <2>3. Len(s) + 1 \in RepairsIn(t)
    BY <1>1, <1>3 DEF RepairsIn
  <2> QED
    BY <2>1, <2>2, <2>3
<1>5. RepairsIn(s) \subseteq 1..Len(s)
  BY <1>3 DEF RepairsIn
<1> QED
  BY <1>2, <1>t, <1>3, <1>4, <1>5

\* Each repair is of text that is there, all of it typed after the repair before.
RepairsInTurn(s) ==
  \A i \in RepairsIn(s) :
    /\ s[i].offset + s[i].remove <= LengthAt(s, i - 1)
    /\ \A h \in RepairsIn(s) : h < i => LengthAt(s, h) <= s[i].offset

\* No repair so far reached the mistake that is outstanding.
Reach(n, m) == IF m = <<>> THEN n ELSE m[1].offset

\* The plan s, of net length n, types the text once the mistake m is put right.
DraftOf(s, n, m, body) ==
  /\ s \in Seq(PlanEvent) /\ PageOf(s) \in Seq(Alphabet)
  /\ n = Len(PageOf(s)) /\ n = Net(s)
  /\ m \in Seq(Mistake) /\ Len(m) <= 1
  /\ m # <<>> => m[1].offset + m[1].remove <= n
  /\ body = PutRight(PageOf(s), m)
  /\ RepairsInTurn(s)
  /\ \A h \in RepairsIn(s) : LengthAt(s, h) <= Reach(n, m)

\* What an outstanding mistake says
LEMMA MistakeIs ==
  ASSUME NEW m \in Seq(Mistake), m # <<>>
  PROVE  /\ m[1] \in Mistake /\ m[1].offset \in Nat /\ m[1].remove \in Nat
         /\ m[1].insert \in Seq(Alphabet) /\ m[1].madeAt \in Nat /\ m[1].rests \in Nat
<1>1. m[1] \in Mistake
  OBVIOUS
<1> QED
  BY <1>1 DEF Mistake

\* At most one mistake is outstanding.
LEMMA OneMistake == \A m \in Seq(Mistake) : Len(m) <= 1 /\ m # <<>> => Len(m) = 1
<1> TAKE m \in Seq(Mistake)
<1>1. m # <<>> => Len(m) \in Nat /\ Len(m) # 0
  BY EmptySeq
<1> QED
  BY <1>1

\* Keys and pauses add to the text what they type.
LEMMA QuietKeepsDraft ==
  ASSUME NEW s, NEW n, NEW m, NEW body, DraftOf(s, n, m, body), NEW r \in Seq(Quiet)
  PROVE  DraftOf(s \o r, n + Net(r), m, body \o PageOf(r))
<1>1. /\ s \in Seq(PlanEvent) /\ PageOf(s) \in Seq(Alphabet) /\ n = Len(PageOf(s)) /\ n = Net(s)
      /\ m \in Seq(Mistake) /\ Len(m) <= 1 /\ r \in Seq(PlanEvent)
      /\ PageOf(r) \in Seq(Alphabet) /\ Net(r) = Len(PageOf(r)) /\ Net(r) \in Nat /\ n \in Nat
  <2>1. /\ s \in Seq(PlanEvent) /\ PageOf(s) \in Seq(Alphabet) /\ n = Len(PageOf(s)) /\ n = Net(s)
        /\ m \in Seq(Mistake) /\ Len(m) <= 1
    BY DEF DraftOf
  <2>2. r \in Seq(PlanEvent) /\ PageOf(r) \in Seq(Alphabet) /\ Net(r) = Len(PageOf(r))
    BY EventSeqs, QuietMeasured
  <2>3. \A q \in Seq(Alphabet) : Len(q) \in Nat
    OBVIOUS
  <2> QED
    BY <2>1, <2>2, <2>3
<1>a. PICK a \in Seq(Alphabet), b \in Seq(Alphabet) : a = PageOf(s) /\ b = PageOf(r)
  BY <1>1
<1>2. PageOf(s \o r) = a \o b
  BY <1>1, <1>a, QuietAdds
<1>3. a \o b \in Seq(Alphabet) /\ Len(a \o b) = Len(a) + Len(b)
  BY ConcatProperties
<1>4. Net(s \o r) = n + Net(r) /\ n + Net(r) = Len(PageOf(s \o r)) /\ PageOf(s \o r) \in Seq(Alphabet)
  <2>1. Net(s \o r) = Net(s) + Net(r)
    BY <1>1, MeasuresAdd
  <2> QED
    BY <1>1, <1>a, <1>2, <1>3, <2>1
<1>5. m # <<>> => m[1].offset + m[1].remove <= n + Net(r)
  <2>1. m # <<>> => m[1].offset + m[1].remove <= n /\ m[1].offset + m[1].remove \in Nat
    BY <1>1, MistakeIs DEF DraftOf
  <2> QED
    BY <1>1, <2>1
<1>6. body \o b = PutRight(a \o b, m)
  <2>1. body = PutRight(a, m)
    BY <1>a DEF DraftOf
  <2>2. CASE m = <<>>
    BY <2>1, <2>2 DEF PutRight
  <2>3. CASE m # <<>>
    <3>m. PICK o \in Nat, q \in Nat, ins \in Seq(Alphabet) :
            o = m[1].offset /\ q = m[1].remove /\ ins = m[1].insert
      BY <1>1, <2>3, MistakeIs
    <3>1. o + q <= Len(a)
      BY <1>1, <1>a, <2>3, <3>m DEF DraftOf
    <3>2. Spliced(a \o b, o, q, ins) = Spliced(a, o, q, ins) \o b
      BY <3>1, SpliceBefore
    <3> QED
      BY <2>1, <2>3, <3>m, <3>2 DEF PutRight
  <2> QED
    BY <2>2, <2>3
<1>7. /\ s \o r \in Seq(PlanEvent) /\ RepairsIn(s \o r) = RepairsIn(s) /\ RepairsIn(s) \subseteq 1..Len(s)
      /\ \A i \in 1..Len(s) : (s \o r)[i] = s[i]
      /\ \A i \in 0..Len(s) : LengthAt(s \o r, i) = LengthAt(s, i) /\ LengthAt(s, i) \in Int
  <2>1. RepairsIn(s) \subseteq 1..Len(s)
    BY <1>1 DEF RepairsIn
  <2> QED
    BY <1>1, <2>1, PlanGrows, QuietAddsNoRepair
<1>8. RepairsInTurn(s \o r)
  <2>1. \A i \in RepairsIn(s) : i - 1 \in 0..Len(s) /\ i \in 0..Len(s)
    BY <1>7
  <2> QED
    BY <1>7, <2>1 DEF DraftOf, RepairsInTurn
<1>9. \A h \in RepairsIn(s \o r) : LengthAt(s \o r, h) <= Reach(n + Net(r), m)
  <2> SUFFICES ASSUME NEW h \in RepairsIn(s) PROVE LengthAt(s \o r, h) <= Reach(n + Net(r), m)
    BY <1>7
  <2>1. h \in 0..Len(s) /\ LengthAt(s, h) <= Reach(n, m)
    BY <1>7 DEF DraftOf
  <2>2. LengthAt(s \o r, h) = LengthAt(s, h) /\ LengthAt(s, h) \in Int
    BY <1>7, <2>1
  <2>3. Reach(n, m) \in Nat /\ Reach(n, m) <= Reach(n + Net(r), m) /\ Reach(n + Net(r), m) \in Nat
    BY <1>1, MistakeIs DEF Reach
  <2> QED
    BY <2>1, <2>2, <2>3
<1> QED
  BY <1>1, <1>a, <1>2, <1>4, <1>5, <1>6, <1>7, <1>8, <1>9 DEF DraftOf

\* The repair of the mistake leaves the text.
LEMMA FixKeepsDraft ==
  ASSUME NEW s, NEW n, NEW m, NEW body, DraftOf(s, n, m, body), m # <<>>
  PROVE  DraftOf(s \o <<Fixing(m[1])>>, n + Net(<<Fixing(m[1])>>), <<>>, body)
<1>1. /\ s \in Seq(PlanEvent) /\ PageOf(s) \in Seq(Alphabet) /\ n = Len(PageOf(s)) /\ n = Net(s)
      /\ m \in Seq(Mistake) /\ m[1].offset + m[1].remove <= n /\ n \in Nat
  <2>1. /\ s \in Seq(PlanEvent) /\ PageOf(s) \in Seq(Alphabet) /\ n = Len(PageOf(s)) /\ n = Net(s)
        /\ m \in Seq(Mistake) /\ m[1].offset + m[1].remove <= n
    BY DEF DraftOf
  <2>2. \A q \in Seq(Alphabet) : Len(q) \in Nat
    OBVIOUS
  <2> QED
    BY <2>1, <2>2
<1>m. PICK mk \in Mistake : mk = m[1]
  BY <1>1, MistakeIs
<1>2. mk.offset \in Nat /\ mk.remove \in Nat /\ mk.insert \in Seq(Alphabet)
  BY DEF Mistake
<1>f. PICK f \in Repair : f = Fixing(mk)
  BY FixingSplices
<1>3. /\ f.offset = mk.offset /\ f.remove = mk.remove /\ f \in PlanEvent
      /\ \A page : Played(page, f) = Spliced(page, mk.offset, mk.remove, mk.insert)
      /\ \A k : Longer(k, f) = k + Len(mk.insert) - mk.remove
  BY <1>f, FixingSplices DEF PlanEvent
<1>4. /\ <<f>> \in Seq(PlanEvent) /\ Len(<<f>>) = 1
      /\ RepairsIn(s \o <<f>>) = RepairsIn(s) \cup {Len(s) + 1}
      /\ (s \o <<f>>)[Len(s) + 1] = f
      /\ RepairsIn(s) \subseteq 1..Len(s)
  BY <1>1, RepairAdded
<1>5. /\ s \o <<f>> \in Seq(PlanEvent)
      /\ \A i \in 1..Len(s) : (s \o <<f>>)[i] = s[i]
      /\ \A b \in 0..Len(s) : LengthAt(s \o <<f>>, b) = LengthAt(s, b) /\ LengthAt(s, b) \in Int
      /\ LengthAt(s \o <<f>>, Len(s) + 1) = n + Net(<<f>>) /\ LengthAt(s, Len(s)) = n
  <2>1. /\ s \o <<f>> \in Seq(PlanEvent)
        /\ \A i \in 1..Len(s) : (s \o <<f>>)[i] = s[i]
        /\ \A b \in 0..Len(s) : LengthAt(s \o <<f>>, b) = LengthAt(s, b) /\ LengthAt(s, b) \in Int
        /\ LengthAt(s \o <<f>>, Len(s) + Len(<<f>>)) = Net(s) + Net(<<f>>) /\ LengthAt(s, Len(s)) = Net(s)
    BY <1>1, <1>4, PlanGrows
  <2> QED
    BY <1>1, <1>4, <2>1
<1>6. Net(<<f>>) = Len(mk.insert) - mk.remove /\ Net(s \o <<f>>) = n + Net(<<f>>)
  <2>1. <<f>> = Append(<<>>, f) /\ <<>> \in Seq(PlanEvent)
    OBVIOUS
  <2>2. Net(<<f>>) = Longer(0, f)
    BY <1>3, <2>1, EventMeasured
  <2>3. Net(s \o <<f>>) = Net(s) + Net(<<f>>)
    BY <1>1, <1>4, MeasuresAdd
  <2>4. 0 + Len(mk.insert) - mk.remove = Len(mk.insert) - mk.remove
    BY <1>2
  <2> QED
    BY <1>1, <1>3, <2>2, <2>3, <2>4
<1>7. PageOf(s \o <<f>>) = Spliced(PageOf(s), mk.offset, mk.remove, mk.insert)
  <2>1. s \o <<f>> = Append(s, f)
    BY <1>1, <1>3, AppendIsConcat
  <2>2. PageOf(Append(s, f)) = Played(PageOf(s), f)
    BY <1>1, <1>3, EventMeasured
  <2> QED
    BY <1>3, <2>1, <2>2
<1>8. /\ PageOf(s \o <<f>>) \in Seq(Alphabet) /\ Len(PageOf(s \o <<f>>)) = n + Net(<<f>>)
      /\ mk.offset <= n + Net(<<f>>) /\ Net(<<f>>) \in Int
  <2>a. PICK a \in Seq(Alphabet), o \in Nat, q \in Nat, ins \in Seq(Alphabet) :
          a = PageOf(s) /\ o = mk.offset /\ q = mk.remove /\ ins = mk.insert
    BY <1>1, <1>2
  <2>1. o + q <= Len(a)
    BY <1>1, <1>m, <2>a
  <2>2. Spliced(a, o, q, ins) \in Seq(Alphabet) /\ Len(Spliced(a, o, q, ins)) = Len(a) + Len(ins) - q
    BY <2>1, SpliceBefore
  <2>3. Len(ins) \in Nat /\ Net(<<f>>) = Len(ins) - q /\ n = Len(a)
    <3>1. \A k \in Seq(Alphabet) : Len(k) \in Nat
      OBVIOUS
    <3>2. Net(<<f>>) = Len(ins) - q
      BY <1>6, <2>a
    <3>3. n = Len(a)
      BY <1>1, <2>a
    <3> QED
      BY <3>1, <3>2, <3>3
  <2>4. Len(a) + Len(ins) - q = n + Net(<<f>>) /\ o <= n + Net(<<f>>) /\ Net(<<f>>) \in Int
    BY <2>1, <2>3
  <2> QED
    BY <1>7, <2>a, <2>2, <2>4
<1>9. body = PutRight(PageOf(s \o <<f>>), <<>>)
  BY <1>7, <1>m DEF DraftOf, PutRight
<1>10. \A h \in RepairsIn(s) : LengthAt(s, h) <= mk.offset
  BY <1>m DEF DraftOf, Reach
<1>11. RepairsInTurn(s \o <<f>>)
  <2> SUFFICES ASSUME NEW i \in RepairsIn(s \o <<f>>)
               PROVE  /\ (s \o <<f>>)[i].offset + (s \o <<f>>)[i].remove <= LengthAt(s \o <<f>>, i - 1)
                      /\ \A h \in RepairsIn(s \o <<f>>) : h < i => LengthAt(s \o <<f>>, h) <= (s \o <<f>>)[i].offset
    BY DEF RepairsInTurn
  <2>1. Len(s) \in Nat
    BY <1>1
  <2>2. CASE i = Len(s) + 1
    <3>1. (s \o <<f>>)[i].offset = mk.offset /\ (s \o <<f>>)[i].remove = mk.remove /\ i - 1 = Len(s)
      BY <1>3, <1>4, <2>1, <2>2
    <3>2. LengthAt(s \o <<f>>, i - 1) = n
      BY <1>5, <2>1, <3>1
    <3>3. ASSUME NEW h \in RepairsIn(s \o <<f>>), h < i PROVE LengthAt(s \o <<f>>, h) <= mk.offset
      <4>1. h \in RepairsIn(s) /\ h \in 0..Len(s)
        BY <1>4, <2>1, <2>2, <3>3
      <4> QED
        BY <1>5, <1>10, <4>1
    <3> QED
      BY <1>1, <1>m, <3>1, <3>2, <3>3
  <2>3. CASE i \in RepairsIn(s)
    <3>1. i \in 1..Len(s) /\ i - 1 \in 0..Len(s) /\ i # Len(s) + 1
      BY <1>4, <2>1, <2>3
    <3>2. (s \o <<f>>)[i] = s[i] /\ LengthAt(s \o <<f>>, i - 1) = LengthAt(s, i - 1)
      BY <1>5, <3>1
    <3>3. s[i].offset + s[i].remove <= LengthAt(s, i - 1)
      BY <2>3 DEF DraftOf, RepairsInTurn
    <3>4. ASSUME NEW h \in RepairsIn(s \o <<f>>), h < i PROVE LengthAt(s \o <<f>>, h) <= s[i].offset
      <4>1. h \in RepairsIn(s) /\ h \in 0..Len(s)
        BY <1>4, <2>1, <3>1, <3>4
      <4>2. LengthAt(s, h) <= s[i].offset
        BY <2>3, <3>4, <4>1 DEF DraftOf, RepairsInTurn
      <4> QED
        BY <1>5, <4>1, <4>2
    <3> QED
      BY <3>2, <3>3, <3>4
  <2> QED
    BY <1>4, <2>2, <2>3
<1>12. \A h \in RepairsIn(s \o <<f>>) : LengthAt(s \o <<f>>, h) <= Reach(n + Net(<<f>>), <<>>)
  <2> SUFFICES ASSUME NEW h \in RepairsIn(s \o <<f>>) PROVE LengthAt(s \o <<f>>, h) <= n + Net(<<f>>)
    BY DEF Reach
  <2>1. CASE h = Len(s) + 1
    BY <1>1, <1>5, <1>8, <2>1
  <2>2. CASE h \in RepairsIn(s)
    <3>1. h \in 0..Len(s)
      BY <1>4, <2>2
    <3>2. LengthAt(s \o <<f>>, h) = LengthAt(s, h) /\ LengthAt(s, h) \in Int /\ LengthAt(s, h) <= mk.offset
      BY <1>5, <1>10, <2>2, <3>1
    <3> QED
      BY <1>1, <1>2, <1>8, <3>2
  <2> QED
    BY <1>4, <2>1, <2>2
<1>13. <<>> \in Seq(Mistake) /\ Len(<<>>) <= 1
  OBVIOUS
<1>14. DraftOf(s \o <<f>>, n + Net(<<f>>), <<>>, body)
  BY <1>5, <1>6, <1>8, <1>9, <1>11, <1>12, <1>13 DEF DraftOf
<1> QED
  BY <1>m, <1>f, <1>14

\* A splice of the end of a page
LEMMA SpliceEnd ==
  ASSUME NEW base \in Seq(Alphabet), NEW wrong \in Seq(Alphabet), NEW ins \in Seq(Alphabet)
  PROVE  Spliced(base \o wrong, Len(base), Len(wrong), ins) = base \o ins
<1>1. SubSeq(base \o wrong, 1, Len(base)) = base
  <2>1. 1 \in Nat \ {0} /\ Len(base) \in 0..Len(base)
    OBVIOUS
  <2>2. SubSeq(base \o wrong, 1, Len(base)) = SubSeq(base, 1, Len(base))
    BY <2>1, Windows
  <2> QED
    BY <2>2, SubSeqFull
<1>2. SubSeq(base \o wrong, Len(base) + Len(wrong) + 1, Len(base \o wrong)) = <<>>
  <2>1. Len(base \o wrong) = Len(base) + Len(wrong) /\ Len(base) \in Nat /\ Len(wrong) \in Nat
    BY ConcatProperties
  <2>2. \A n \in Nat : SubSeq(base \o wrong, n + 1, n) = <<>>
    BY SubSeqEmpty
  <2> QED
    BY <2>1, <2>2
<1>3. (base \o ins) \o <<>> = base \o ins
  <2>c. PICK c \in Seq(Alphabet) : c = base \o ins
    BY ConcatProperties
  <2>1. c \o <<>> = c
    BY ConcatEmptySeq
  <2> QED
    BY <2>c, <2>1
<1> QED
  BY <1>1, <1>2, <1>3 DEF Spliced

\* A mistake is typed, and its repair known.
LEMMA FumbleKeepsDraft ==
  ASSUME NEW s, NEW n, NEW body, DraftOf(s, n, <<>>, body),
         NEW u \in Seq(Alphabet), NEW wrong \in Seq(Alphabet), NEW mk \in Mistake,
         mk.offset = n + Len(u), mk.remove = Len(wrong)
  PROVE  DraftOf(s \o Strokes(u \o wrong), n + Net(Strokes(u \o wrong)), <<mk>>, (body \o u) \o mk.insert)
<1>w. PICK w \in Seq(Alphabet) : w = u \o wrong
  BY ConcatProperties
<1>k. PICK k \in Seq(Quiet) : k = Strokes(w)
  BY StrokesType, EventSeqs
<1>1. PageOf(k) = w /\ Net(k) = Len(w) /\ Len(w) = Len(u) + Len(wrong) /\ Len(u) \in Nat /\ Len(wrong) \in Nat
  <2>1. PageOf(k) = w
    BY <1>k, StrokesType
  <2>2. Net(k) = Len(PageOf(k))
    BY QuietMeasured
  <2>3. Len(w) = Len(u) + Len(wrong) /\ Len(u) \in Nat /\ Len(wrong) \in Nat
    BY <1>w, ConcatProperties
  <2> QED
    BY <2>1, <2>2, <2>3
<1>2. DraftOf(s \o k, n + Net(k), <<>>, body \o w)
  BY <1>1, QuietKeepsDraft
<1>3. body \in Seq(Alphabet) /\ Len(body) = n /\ n \in Nat /\ s \in Seq(PlanEvent)
  <2>1. body \in Seq(Alphabet) /\ Len(body) = n /\ s \in Seq(PlanEvent)
    BY DEF DraftOf, PutRight
  <2> QED
    BY <2>1
<1>b. PICK base \in Seq(Alphabet) : base = body \o u /\ Len(base) = n + Len(u)
  BY <1>3, ConcatProperties
<1>4. body \o w = base \o wrong
  <2>1. Associate(body, u, wrong)
    BY <1>3, Associative
  <2> QED
    BY <1>b, <1>w, <2>1 DEF Associate
<1>5. PageOf(s \o k) = base \o wrong
  BY <1>2, <1>4 DEF DraftOf, PutRight
<1>6. mk.insert \in Seq(Alphabet) /\ mk.offset \in Nat
  BY DEF Mistake
<1>7. PutRight(PageOf(s \o k), <<mk>>) = base \o mk.insert
  <2>1. \A ins \in Seq(Alphabet) : Spliced(base \o wrong, Len(base), Len(wrong), ins) = base \o ins
    BY SpliceEnd
  <2>2. Spliced(base \o wrong, mk.offset, mk.remove, mk.insert) = base \o mk.insert
    BY <1>b, <1>6, <2>1
  <2>3. <<mk>> # <<>> /\ <<mk>>[1] = mk
    OBVIOUS
  <2> QED
    BY <1>5, <2>2, <2>3 DEF PutRight
<1>8. <<mk>> \in Seq(Mistake) /\ Len(<<mk>>) <= 1 /\ <<mk>> # <<>> /\ <<mk>>[1] = mk
  OBVIOUS
<1>9. mk.offset + mk.remove <= n + Net(k)
  BY <1>1, <1>3
<1>10. RepairsIn(s \o k) = RepairsIn(s) /\ \A h \in RepairsIn(s) : LengthAt(s \o k, h) <= mk.offset
  <2>1. RepairsIn(s \o k) = RepairsIn(s)
    BY <1>3, QuietAddsNoRepair
  <2>2. ASSUME NEW h \in RepairsIn(s) PROVE LengthAt(s \o k, h) <= mk.offset
    <3>1. h \in 0..Len(s)
      BY <1>3 DEF RepairsIn
    <3>2. k \in Seq(PlanEvent)
      BY EventSeqs
    <3>3. LengthAt(s \o k, h) = LengthAt(s, h) /\ LengthAt(s, h) \in Int
      BY <1>3, <3>1, <3>2, PlanGrows
    <3>4. LengthAt(s, h) <= n
      BY DEF DraftOf, Reach
    <3> QED
      BY <1>1, <1>3, <3>3, <3>4
  <2> QED
    BY <2>1, <2>2
<1>11. DraftOf(s \o k, n + Net(k), <<mk>>, base \o mk.insert)
  <2>1. /\ s \o k \in Seq(PlanEvent) /\ PageOf(s \o k) \in Seq(Alphabet)
        /\ n + Net(k) = Len(PageOf(s \o k)) /\ n + Net(k) = Net(s \o k)
        /\ RepairsInTurn(s \o k)
    BY <1>2 DEF DraftOf
  <2>2. \A h \in RepairsIn(s \o k) : LengthAt(s \o k, h) <= Reach(n + Net(k), <<mk>>)
    BY <1>8, <1>10 DEF Reach
  <2> QED
    BY <1>7, <1>8, <1>9, <2>1, <2>2 DEF DraftOf
<1> QED
  BY <1>w, <1>k, <1>b, <1>11

\* A trailing pause types nothing.
LEMMA TrimKeepsDraft ==
  ASSUME NEW s \in Seq(PlanEvent), NEW r \in Seq(Gap), NEW n, NEW body, DraftOf(s \o r, n, <<>>, body)
  PROVE  DraftOf(s, n, <<>>, body)
<1>1. PageOf(s \o r) = PageOf(s) /\ Net(s \o r) = Net(s)
  BY PausesTypeNothing
<1>2. r \in Seq(PlanEvent) /\ r \in Seq(Quiet)
  BY EventSeqs
<1>3. RepairsIn(s \o r) = RepairsIn(s) /\ RepairsIn(s) \subseteq 1..Len(s)
  <2>1. RepairsIn(s) \subseteq 1..Len(s)
    BY DEF RepairsIn
  <2> QED
    BY <1>2, <2>1, QuietAddsNoRepair
<1>4. /\ \A i \in RepairsIn(s) : (s \o r)[i] = s[i] /\ LengthAt(s \o r, i) = LengthAt(s, i)
      /\ \A i \in RepairsIn(s) : LengthAt(s \o r, i - 1) = LengthAt(s, i - 1)
  <2>1. /\ \A i \in 1..Len(s) : (s \o r)[i] = s[i]
        /\ \A i \in 0..Len(s) : LengthAt(s \o r, i) = LengthAt(s, i)
    BY <1>2, PlanGrows
  <2>2. \A i \in RepairsIn(s) : i \in 1..Len(s) /\ i \in 0..Len(s) /\ i - 1 \in 0..Len(s)
    BY <1>3
  <2> QED
    BY <2>1, <2>2
<1>5. RepairsInTurn(s)
  BY <1>3, <1>4 DEF DraftOf, RepairsInTurn
<1>6. \A h \in RepairsIn(s) : LengthAt(s, h) <= Reach(n, <<>>)
  BY <1>3, <1>4 DEF DraftOf
<1> QED
  BY <1>1, <1>5, <1>6 DEF DraftOf

\* Two plans that differ in how long they pause
OnlyPauses(s, r) ==
  /\ Len(s) = Len(r)
  /\ \A i \in 1..Len(s) : r[i] = s[i] \/ (s[i] \in Gap /\ r[i] \in Gap)

\* Pauses may last longer: what is typed stays the same.
LEMMA PausesAreAlike ==
  ASSUME NEW s \in Seq(PlanEvent), NEW r \in Seq(PlanEvent), OnlyPauses(s, r)
  PROVE  PageOf(s) = PageOf(r) /\ Net(s) = Net(r)
<1>1. \A k \in 1..Len(s) : \A v : Played(v, s[k]) = Played(v, r[k])
  BY EventKinds DEF OnlyPauses, Played
<1>2. \A k \in 1..Len(s) : \A v : Longer(v, s[k]) = Longer(v, r[k])
  BY EventKinds DEF OnlyPauses, Longer
<1>3. Len(s) = Len(r)
  BY DEF OnlyPauses
<1>4. Reader!Fold(<<>>, s) = Reader!Fold(<<>>, r)
  BY <1>1, <1>3, Reader!FoldAlike
<1>5. Counter!Fold(0, s) = Counter!Fold(0, r)
  BY <1>2, <1>3, Counter!FoldAlike
<1> QED
  BY <1>4, <1>5, PlanFolds

\* A plan with other pauses types the same text, with the same repairs.
LEMMA StretchKeepsDraft ==
  ASSUME NEW s \in Seq(PlanEvent), NEW r \in Seq(PlanEvent), OnlyPauses(s, r),
         NEW n, NEW body, DraftOf(s, n, <<>>, body)
  PROVE  DraftOf(r, n, <<>>, body)
<1>1. PageOf(s) = PageOf(r) /\ Net(s) = Net(r)
  BY PausesAreAlike
<1>2. Len(s) = Len(r) /\ Len(s) \in Nat /\ DOMAIN s = 1..Len(s) /\ DOMAIN r = 1..Len(s)
  BY DEF OnlyPauses
<1>3. ASSUME NEW b \in 0..Len(s) PROVE LengthAt(s, b) = LengthAt(r, b)
  <2>1. \A i \in 1..b : s[i] \in PlanEvent /\ r[i] \in PlanEvent /\ i \in 1..Len(s)
    BY <1>2
  <2>2. /\ SubSeq(s, 1, b) \in Seq(PlanEvent) /\ Len(SubSeq(s, 1, b)) = IF 1 <= b THEN b - 1 + 1 ELSE 0
        /\ \A i \in 1..(b - 1 + 1) : SubSeq(s, 1, b)[i] = s[1 + i - 1]
    BY <2>1, SubSeqProperties
  <2>3. /\ SubSeq(r, 1, b) \in Seq(PlanEvent) /\ Len(SubSeq(r, 1, b)) = IF 1 <= b THEN b - 1 + 1 ELSE 0
        /\ \A i \in 1..(b - 1 + 1) : SubSeq(r, 1, b)[i] = r[1 + i - 1]
    BY <2>1, SubSeqProperties
  <2>x. PICK x \in Seq(PlanEvent), y \in Seq(PlanEvent) : x = SubSeq(s, 1, b) /\ y = SubSeq(r, 1, b)
    BY <2>2, <2>3
  <2>4. Len(x) = b /\ Len(y) = b /\ \A i \in 1..b : x[i] = s[i] /\ y[i] = r[i]
    BY <1>2, <2>2, <2>3, <2>x
  <2>5. OnlyPauses(x, y)
    BY <2>1, <2>4 DEF OnlyPauses
  <2>6. Net(x) = Net(y)
    BY <2>5, PausesAreAlike
  <2> QED
    BY <2>x, <2>6 DEF LengthAt
<1>4. ASSUME NEW i \in 1..Len(s) PROVE s[i].type = r[i].type /\ (s[i].type = "repair" => r[i] = s[i])
  BY EventKinds DEF OnlyPauses
<1>5. RepairsIn(s) = RepairsIn(r) /\ RepairsIn(s) \subseteq 1..Len(s)
  BY <1>2, <1>4 DEF RepairsIn
<1>6. \A i \in RepairsIn(s) : /\ r[i] = s[i] /\ LengthAt(r, i) = LengthAt(s, i)
                              /\ LengthAt(r, i - 1) = LengthAt(s, i - 1)
  <2>1. \A i \in RepairsIn(s) : i \in 1..Len(s) /\ i \in 0..Len(s) /\ i - 1 \in 0..Len(s)
    BY <1>2, <1>5
  <2>2. \A i \in RepairsIn(s) : s[i].type = "repair"
    BY DEF RepairsIn
  <2> QED
    BY <1>3, <1>4, <2>1, <2>2
<1>7. RepairsInTurn(r) /\ \A h \in RepairsIn(r) : LengthAt(r, h) <= Reach(n, <<>>)
  BY <1>5, <1>6 DEF DraftOf, RepairsInTurn
<1> QED
  BY <1>1, <1>7 DEF DraftOf

-----------------------------------------------------------------------------
(* Mistakes are seen. *)

RepairNo(s, i) == Cardinality({j \in RepairsIn(s) : j <= i})

\* Since the wrong keys of a repair were typed
TimeSeen(s, typedAt, i) == Lasting(SubSeq(s, typedAt + 1, i - 1))

\* At `time` every repair was of a mistake long enough on the page, and the one
\* outstanding is there since it was made.
SeenOf(s, keys, m, time) ==
  /\ s \in Seq(PlanEvent) /\ keys \in Seq(Nat) /\ m \in Seq(Mistake) /\ Len(m) <= 1
  /\ Len(keys) = Cardinality(RepairsIn(s)) + Len(m)
  /\ \A i \in RepairsIn(s) : TimeSeen(s, keys[RepairNo(s, i)], i) >= CorrectionGap
  /\ m # <<>> => /\ keys[Len(keys)] <= Len(s)
                 /\ Lasting(SubSeq(s, keys[Len(keys)] + 1, Len(s))) >= time - m[1].madeAt

\* The repairs of a plan are finitely many, and each has its number among them.
LEMMA RepairsCounted ==
  ASSUME NEW s \in Seq(PlanEvent)
  PROVE  /\ RepairsIn(s) \subseteq 1..Len(s) /\ IsFiniteSet(RepairsIn(s)) /\ Cardinality(RepairsIn(s)) \in Nat
         /\ \A i \in RepairsIn(s) : RepairNo(s, i) \in 1..Cardinality(RepairsIn(s))
<1>1. RepairsIn(s) \subseteq 1..Len(s) /\ Len(s) \in Nat
  BY DEF RepairsIn
<1>2. IsFiniteSet(1..Len(s))
  BY <1>1, FS_Interval
<1>3. IsFiniteSet(RepairsIn(s)) /\ Cardinality(RepairsIn(s)) \in Nat
  BY <1>1, <1>2, FS_Subset, FS_CardinalityType
<1>4. ASSUME NEW i \in RepairsIn(s) PROVE RepairNo(s, i) \in 1..Cardinality(RepairsIn(s))
  <2> DEFINE T == {j \in RepairsIn(s) : j <= i}
  <2>1. T \subseteq RepairsIn(s) /\ i \in T
    BY <1>1
  <2> HIDE DEF T
  <2>2. IsFiniteSet(T) /\ Cardinality(T) \in Nat /\ Cardinality(T) <= Cardinality(RepairsIn(s))
    BY <1>3, <2>1, FS_Subset, FS_CardinalityType
  <2>3. Cardinality(T) # 0
    BY <2>1, <2>2, FS_EmptySet
  <2>4. Cardinality(T) \in 1..Cardinality(RepairsIn(s))
    BY <1>3, <2>2, <2>3
  <2> QED
    BY <2>4 DEF RepairNo, T
<1> QED
  BY <1>1, <1>3, <1>4

\* Time passes while keys and pauses are added.
LEMMA QuietKeepsSeen ==
  ASSUME NEW s, NEW keys, NEW m, NEW time \in Int, SeenOf(s, keys, m, time), NEW r \in Seq(Quiet)
  PROVE  SeenOf(s \o r, keys, m, time + Lasting(r))
<1>1. /\ s \in Seq(PlanEvent) /\ keys \in Seq(Nat) /\ m \in Seq(Mistake) /\ Len(m) <= 1
      /\ Len(keys) = Cardinality(RepairsIn(s)) + Len(m)
  BY DEF SeenOf
<1>2. r \in Seq(PlanEvent) /\ Lasting(r) \in Nat
  BY EventSeqs, MeasuresTyped
<1>3. RepairsIn(s \o r) = RepairsIn(s) /\ \A i : RepairNo(s \o r, i) = RepairNo(s, i)
  BY <1>1, QuietAddsNoRepair DEF RepairNo
<1>4. s \o r \in Seq(PlanEvent) /\ Len(s \o r) = Len(s) + Len(r) /\ Len(s) \in Nat /\ Len(r) \in Nat
  BY <1>1, <1>2, ConcatProperties
<1>5. ASSUME NEW i \in RepairsIn(s)
      PROVE  TimeSeen(s \o r, keys[RepairNo(s \o r, i)], i) >= CorrectionGap
  <2>1. RepairNo(s, i) \in 1..Len(keys)
    <3>1. RepairNo(s, i) \in 1..Cardinality(RepairsIn(s)) /\ Cardinality(RepairsIn(s)) \in Nat
      BY <1>1, RepairsCounted
    <3>2. Len(m) \in Nat
      BY <1>1
    <3> QED
      BY <1>1, <3>1, <3>2
  <2>w. PICK w \in Nat : w = keys[RepairNo(s, i)]
    BY <1>1, <2>1
  <2>2. i - 1 \in 0..Len(s) /\ w + 1 \in Nat \ {0}
    BY <1>1, RepairsCounted
  <2>3. SubSeq(s \o r, w + 1, i - 1) = SubSeq(s, w + 1, i - 1)
    BY <1>1, <1>2, <2>2, Windows
  <2>4. TimeSeen(s, w, i) >= CorrectionGap
    BY <2>w DEF SeenOf
  <2> QED
    BY <1>3, <2>w, <2>3, <2>4 DEF TimeSeen
<1>6. ASSUME m # <<>>
      PROVE  /\ keys[Len(keys)] <= Len(s \o r)
             /\ Lasting(SubSeq(s \o r, keys[Len(keys)] + 1, Len(s \o r))) >= (time + Lasting(r)) - m[1].madeAt
  <2>1. Len(keys) \in 1..Len(keys)
    <3>1. Cardinality(RepairsIn(s)) \in Nat
      BY <1>1, RepairsCounted
    <3>2. Len(m) = 1
      BY <1>1, <1>6, OneMistake
    <3> QED
      BY <1>1, <3>1, <3>2
  <2>w. PICK w \in Nat : w = keys[Len(keys)]
    BY <1>1, <2>1
  <2>2. w <= Len(s) /\ Lasting(SubSeq(s, w + 1, Len(s))) >= time - m[1].madeAt
    BY <1>6, <2>w DEF SeenOf
  <2>q. PICK q \in Nat \ {0} : q = w + 1 /\ q <= Len(s) + 1
    BY <1>4, <2>2
  <2>3. SubSeq(s \o r, q, Len(s \o r)) = SubSeq(s, q, Len(s)) \o r
    BY <1>1, <1>2, <2>q, WindowGrows
  <2>4. SubSeq(s, q, Len(s)) \in Seq(PlanEvent)
    <3>1. Len(s) \in 0..Len(s)
      BY <1>4
    <3> QED
      BY <1>1, <1>2, <3>1, Windows
  <2>x. PICK x \in Seq(PlanEvent) : x = SubSeq(s, q, Len(s))
    BY <2>4
  <2>5. Lasting(x \o r) = Lasting(x) + Lasting(r) /\ Lasting(x) \in Nat
    BY <1>2, MeasuresAdd, MeasuresTyped
  <2>6. m[1].madeAt \in Nat
    BY <1>1, <1>6, MistakeIs
  <2>7. Lasting(x) >= time - m[1].madeAt
    BY <2>2, <2>q, <2>x
  <2>8. Lasting(x \o r) >= (time + Lasting(r)) - m[1].madeAt
    BY <1>2, <2>5, <2>6, <2>7
  <2>9. w <= Len(s) + Len(r)
    BY <1>4, <2>2
  <2> QED
    BY <1>4, <2>w, <2>q, <2>3, <2>x, <2>8, <2>9
<1>7. \A i \in RepairsIn(s \o r) : TimeSeen(s \o r, keys[RepairNo(s \o r, i)], i) >= CorrectionGap
  BY <1>3, <1>5
<1>8. Len(keys) = Cardinality(RepairsIn(s \o r)) + Len(m)
  BY <1>1, <1>3
<1> QED
  BY <1>1, <1>4, <1>6, <1>7, <1>8 DEF SeenOf

\* The key that finds its mistake long enough on the page
LEMMA FixKeepsSeen ==
  ASSUME NEW s, NEW keys, NEW m, NEW time \in Int, SeenOf(s, keys, m, time), m # <<>>,
         time - m[1].madeAt >= CorrectionGap, CorrectionGap \in Nat, NEW later
  PROVE  SeenOf(s \o <<Fixing(m[1])>>, keys, <<>>, later)
<1>1. /\ s \in Seq(PlanEvent) /\ keys \in Seq(Nat) /\ m \in Seq(Mistake) /\ Len(m) = 1
      /\ Len(keys) = Cardinality(RepairsIn(s)) + 1
      /\ m[1] \in Mistake /\ m[1].madeAt \in Nat
  <2>1. /\ s \in Seq(PlanEvent) /\ keys \in Seq(Nat) /\ m \in Seq(Mistake) /\ Len(m) <= 1
        /\ Len(keys) = Cardinality(RepairsIn(s)) + Len(m)
    BY DEF SeenOf
  <2>2. Len(m) = 1
    BY <2>1, OneMistake
  <2> QED
    BY <2>1, <2>2, MistakeIs
<1>f. PICK f \in Repair : f = Fixing(m[1])
  BY <1>1, FixingSplices
<1>2. /\ <<f>> \in Seq(PlanEvent) /\ Len(<<f>>) = 1
      /\ RepairsIn(s \o <<f>>) = RepairsIn(s) \cup {Len(s) + 1}
  BY <1>1, RepairAdded
<1>3. /\ RepairsIn(s) \subseteq 1..Len(s) /\ IsFiniteSet(RepairsIn(s)) /\ Cardinality(RepairsIn(s)) \in Nat
      /\ \A i \in RepairsIn(s) : RepairNo(s, i) \in 1..Cardinality(RepairsIn(s))
      /\ Len(s) \in Nat
  BY <1>1, RepairsCounted
<1>4. Len(s) + 1 \notin RepairsIn(s) /\ \A i \in RepairsIn(s) : i \in Nat /\ i <= Len(s) /\ ~(Len(s) + 1 <= i)
  BY <1>3
<1>5. Cardinality(RepairsIn(s \o <<f>>)) = Cardinality(RepairsIn(s)) + 1
  BY <1>2, <1>3, <1>4, FS_AddElement
<1>6. RepairNo(s \o <<f>>, Len(s) + 1) = Len(keys)
  <2>1. {j \in RepairsIn(s \o <<f>>) : j <= Len(s) + 1} = RepairsIn(s \o <<f>>)
    BY <1>2, <1>3, <1>4
  <2> QED
    BY <1>1, <1>5, <2>1 DEF RepairNo
<1>7. ASSUME NEW i \in RepairsIn(s) PROVE RepairNo(s \o <<f>>, i) = RepairNo(s, i)
  <2>1. {j \in RepairsIn(s \o <<f>>) : j <= i} = {j \in RepairsIn(s) : j <= i}
    BY <1>2, <1>4
  <2> QED
    BY <2>1 DEF RepairNo
<1>8. ASSUME NEW w \in Nat, NEW i \in 0..Len(s)
      PROVE  SubSeq(s \o <<f>>, w + 1, i) = SubSeq(s, w + 1, i)
  <2>1. w + 1 \in Nat \ {0}
    OBVIOUS
  <2> QED
    BY <1>1, <1>2, <2>1, Windows
<1>9. ASSUME NEW i \in RepairsIn(s \o <<f>>)
      PROVE  TimeSeen(s \o <<f>>, keys[RepairNo(s \o <<f>>, i)], i) >= CorrectionGap
  <2>1. CASE i \in RepairsIn(s)
    <3>1. RepairNo(s, i) \in 1..Len(keys)
      BY <1>1, <1>3, <2>1
    <3>w. PICK w \in Nat : w = keys[RepairNo(s, i)]
      BY <1>1, <3>1
    <3>2. i - 1 \in 0..Len(s)
      BY <1>3, <2>1
    <3>3. SubSeq(s \o <<f>>, w + 1, i - 1) = SubSeq(s, w + 1, i - 1)
      BY <1>8, <3>2
    <3>4. TimeSeen(s, w, i) >= CorrectionGap
      BY <2>1, <3>w DEF SeenOf
    <3> QED
      BY <1>7, <2>1, <3>w, <3>3, <3>4 DEF TimeSeen
  <2>2. CASE i = Len(s) + 1
    <3>1. Len(keys) \in 1..Len(keys)
      BY <1>1, <1>3
    <3>w. PICK w \in Nat : w = keys[Len(keys)]
      BY <1>1, <3>1
    <3>2. w <= Len(s) /\ Lasting(SubSeq(s, w + 1, Len(s))) >= time - m[1].madeAt
      BY <3>w DEF SeenOf
    <3>3. i - 1 = Len(s) /\ Len(s) \in 0..Len(s)
      BY <1>3, <2>2
    <3>4. SubSeq(s \o <<f>>, w + 1, i - 1) = SubSeq(s, w + 1, Len(s))
      BY <1>8, <3>3
    <3>5. Lasting(SubSeq(s, w + 1, Len(s))) >= CorrectionGap
      <4>1. SubSeq(s, w + 1, Len(s)) \in Seq(PlanEvent)
        <5>1. w + 1 \in Nat \ {0}
          OBVIOUS
        <5> QED
          BY <1>1, <1>2, <3>3, <5>1, Windows
      <4>2. Lasting(SubSeq(s, w + 1, Len(s))) \in Nat
        BY <4>1, MeasuresTyped
      <4> QED
        BY <1>1, <3>2, <4>2
    <3> QED
      BY <1>6, <2>2, <3>w, <3>4, <3>5 DEF TimeSeen
  <2> QED
    BY <1>2, <2>1, <2>2
<1>10. s \o <<f>> \in Seq(PlanEvent)
  BY <1>1, <1>2, ConcatProperties
<1>11. <<>> \in Seq(Mistake) /\ Len(<<>>) = 0
  OBVIOUS
<1>12. Len(keys) = Cardinality(RepairsIn(s \o <<f>>)) + Len(<<>>)
  BY <1>1, <1>3, <1>5, <1>11
<1>13. SeenOf(s \o <<f>>, keys, <<>>, later)
  BY <1>1, <1>9, <1>10, <1>11, <1>12 DEF SeenOf
<1> QED
  BY <1>f, <1>13

\* A mistake is made: its time starts once its keys are typed.
LEMMA FumbleKeepsSeen ==
  ASSUME NEW s, NEW keys, NEW time \in Int, SeenOf(s, keys, <<>>, time),
         NEW k \in Seq(Quiet), NEW mk \in Mistake, mk.madeAt > time + Lasting(k)
  PROVE  SeenOf(s \o k, Append(keys, Len(s) + Len(k)), <<mk>>, time + Lasting(k))
<1>1. SeenOf(s \o k, keys, <<>>, time + Lasting(k))
  BY QuietKeepsSeen
<1>t. PICK t : t = s \o k
  OBVIOUS
<1>2. /\ t \in Seq(PlanEvent) /\ keys \in Seq(Nat) /\ Len(keys) = Cardinality(RepairsIn(t)) + Len(<<>>)
      /\ \A i \in RepairsIn(t) : TimeSeen(t, keys[RepairNo(t, i)], i) >= CorrectionGap
  BY <1>1, <1>t DEF SeenOf
<1>3. s \in Seq(PlanEvent) /\ k \in Seq(PlanEvent) /\ Lasting(k) \in Nat /\ Len(s) + Len(k) \in Nat /\ Len(t) = Len(s) + Len(k)
  <2>1. s \in Seq(PlanEvent) /\ k \in Seq(PlanEvent) /\ Lasting(k) \in Nat
    BY EventSeqs, MeasuresTyped DEF SeenOf
  <2>2. Len(t) = Len(s) + Len(k) /\ Len(s) + Len(k) \in Nat
    BY <1>t, <2>1, ConcatProperties
  <2> QED
    BY <2>1, <2>2
<1>4. /\ Cardinality(RepairsIn(t)) \in Nat
      /\ \A i \in RepairsIn(t) : RepairNo(t, i) \in 1..Cardinality(RepairsIn(t))
  BY <1>2, RepairsCounted
<1>q. PICK q \in Seq(Nat) : q = Append(keys, Len(t))
  <2>1. Len(t) \in Nat
    BY <1>3
  <2>2. Append(keys, Len(t)) \in Seq(Nat)
    BY <1>2, <2>1, AppendProperties
  <2> QED
    BY <2>2
<1>5. /\ Len(q) = Len(keys) + 1 /\ \A i \in 1..Len(keys) : q[i] = keys[i]
      /\ q[Len(keys) + 1] = Len(t) /\ Len(keys) = Cardinality(RepairsIn(t))
  <2>1. Len(keys) = Cardinality(RepairsIn(t))
    BY <1>2, <1>4
  <2>2. Len(q) = Len(keys) + 1 /\ (\A i \in 1..Len(keys) : q[i] = keys[i]) /\ q[Len(keys) + 1] = Len(t)
    BY <1>2, <1>3, <1>q
  <2> QED
    BY <2>1, <2>2
<1>6. \A i \in RepairsIn(t) : TimeSeen(t, q[RepairNo(t, i)], i) >= CorrectionGap
  BY <1>2, <1>4, <1>5
<1>7. <<mk>> \in Seq(Mistake) /\ Len(<<mk>>) = 1 /\ <<mk>>[1] = mk
  OBVIOUS
<1>8. Lasting(SubSeq(t, q[Len(q)] + 1, Len(t))) >= (time + Lasting(k)) - mk.madeAt
  <2>1. \A n \in Nat : SubSeq(t, n + 1, n) = <<>>
    BY SubSeqEmpty
  <2>2. SubSeq(t, q[Len(q)] + 1, Len(t)) = <<>>
    BY <1>3, <1>5, <2>1
  <2>3. Lasting(<<>>) = 0 /\ mk.madeAt \in Nat
    BY EventMeasured DEF Mistake
  <2>4. Lasting(SubSeq(t, q[Len(q)] + 1, Len(t))) = 0
    BY <2>2, <2>3
  <2>5. 0 >= (time + Lasting(k)) - mk.madeAt
    BY <1>3, <2>3
  <2> QED
    BY <2>4, <2>5
<1>9. q[Len(q)] <= Len(t)
  BY <1>3, <1>5
<1>10. SeenOf(t, q, <<mk>>, time + Lasting(k))
  BY <1>2, <1>4, <1>5, <1>6, <1>7, <1>8, <1>9 DEF SeenOf
<1> QED
  BY <1>t, <1>3, <1>q, <1>10

\* The trailing pauses are after every repair.
LEMMA TrimKeepsSeen ==
  ASSUME NEW s \in Seq(PlanEvent), NEW r \in Seq(Gap), NEW keys, NEW time, NEW later, SeenOf(s \o r, keys, <<>>, time)
  PROVE  SeenOf(s, keys, <<>>, later)
<1>1. r \in Seq(PlanEvent) /\ r \in Seq(Quiet)
  BY EventSeqs
<1>2. RepairsIn(s \o r) = RepairsIn(s) /\ \A i : RepairNo(s \o r, i) = RepairNo(s, i)
  BY <1>1, QuietAddsNoRepair DEF RepairNo
<1>3. keys \in Seq(Nat) /\ Len(keys) = Cardinality(RepairsIn(s)) + Len(<<>>)
  BY <1>2 DEF SeenOf
<1>4. ASSUME NEW i \in RepairsIn(s) PROVE TimeSeen(s, keys[RepairNo(s, i)], i) >= CorrectionGap
  <2>1. /\ RepairNo(s, i) \in 1..Cardinality(RepairsIn(s)) /\ Cardinality(RepairsIn(s)) \in Nat
        /\ RepairsIn(s) \subseteq 1..Len(s)
    BY RepairsCounted
  <2>2. RepairNo(s, i) \in 1..Len(keys)
    BY <1>3, <2>1
  <2>w. PICK w \in Nat : w = keys[RepairNo(s, i)]
    BY <1>3, <2>2
  <2>3. i - 1 \in 0..Len(s) /\ w + 1 \in Nat \ {0}
    BY <2>1
  <2>4. SubSeq(s \o r, w + 1, i - 1) = SubSeq(s, w + 1, i - 1)
    BY <1>1, <2>3, Windows
  <2>5. TimeSeen(s \o r, w, i) >= CorrectionGap
    BY <1>2, <2>w DEF SeenOf
  <2> QED
    BY <2>w, <2>4, <2>5 DEF TimeSeen
<1>5. <<>> \in Seq(Mistake) /\ Len(<<>>) <= 1
  OBVIOUS
<1> QED
  BY <1>3, <1>4, <1>5 DEF SeenOf

\* Nothing is sooner in a plan that pauses longer.
LEMMA LongerLasts ==
  ASSUME NEW s \in Seq(PlanEvent), NEW r \in Seq(PlanEvent), Len(s) = Len(r),
         \A i \in 1..Len(s) : s[i].ms <= r[i].ms
  PROVE  Lasting(s) <= Lasting(r)
<1> DEFINE S(k) == Clock!Fold(0, SubSeq(s, 1, k))
           R(k) == Clock!Fold(0, SubSeq(r, 1, k))
           K == {k \in Nat : k <= Len(s) => S(k) \in Nat /\ R(k) \in Nat /\ S(k) <= R(k)}
<1>1. Clock!ByPrefixes(0, s) /\ Clock!ByPrefixes(0, r)
  BY Clock!FoldBy
<1>2. /\ S(0) = 0 /\ S(Len(s)) = Clock!Fold(0, s)
      /\ \A k \in 1..Len(s) : S(k) = Later(S(k - 1), s[k])
      /\ R(0) = 0 /\ R(Len(r)) = Clock!Fold(0, r)
      /\ \A k \in 1..Len(r) : R(k) = Later(R(k - 1), r[k])
  BY <1>1, Zenon DEF Clock!ByPrefixes
<1> HIDE DEF S, R
<1>3. 0 \in K
  BY <1>2
<1>4. ASSUME NEW k \in Nat, k \in K PROVE k + 1 \in K
  <2> SUFFICES ASSUME k + 1 <= Len(s) PROVE S(k + 1) \in Nat /\ R(k + 1) \in Nat /\ S(k + 1) <= R(k + 1)
    OBVIOUS
  <2>1. k + 1 \in 1..Len(s) /\ k + 1 \in 1..Len(r) /\ (k + 1) - 1 = k /\ k <= Len(s)
    OBVIOUS
  <2>2. S(k + 1) = S(k) + s[k + 1].ms /\ R(k + 1) = R(k) + r[k + 1].ms
    BY <1>2, <2>1 DEF Later
  <2>3. s[k + 1].ms \in Nat /\ r[k + 1].ms \in Nat /\ s[k + 1].ms <= r[k + 1].ms
    <3>1. s[k + 1] \in PlanEvent /\ r[k + 1] \in PlanEvent
      BY <2>1
    <3> QED
      BY <2>1, <3>1, EventKinds
  <2>4. S(k) \in Nat /\ R(k) \in Nat /\ S(k) <= R(k)
    BY <1>4, <2>1
  <2> QED
    BY <2>2, <2>3, <2>4
<1>5. Len(s) \in K
  <2> HIDE DEF K
  <2> QED
    BY <1>3, <1>4, Clock!Induction
<1> QED
  BY <1>2, <1>5, PlanFolds

\* With longer pauses every mistake is seen at least as long.
LEMMA StretchKeepsSeen ==
  ASSUME NEW s \in Seq(PlanEvent), NEW r \in Seq(PlanEvent), OnlyPauses(s, r),
         \A i \in 1..Len(s) : s[i].ms <= r[i].ms, CorrectionGap \in Nat,
         NEW keys, NEW time, NEW later, SeenOf(s, keys, <<>>, time)
  PROVE  SeenOf(r, keys, <<>>, later)
<1>1. Len(s) = Len(r) /\ Len(s) \in Nat /\ DOMAIN s = 1..Len(s) /\ DOMAIN r = 1..Len(s)
  BY DEF OnlyPauses
<1>2. \A i \in 1..Len(s) : s[i].type = r[i].type
  BY EventKinds DEF OnlyPauses
<1>3. RepairsIn(s) = RepairsIn(r) /\ \A i : RepairNo(r, i) = RepairNo(s, i)
  BY <1>1, <1>2 DEF RepairsIn, RepairNo
<1>4. keys \in Seq(Nat) /\ Len(keys) = Cardinality(RepairsIn(s)) + Len(<<>>)
  BY DEF SeenOf
<1>5. ASSUME NEW i \in RepairsIn(r) PROVE TimeSeen(r, keys[RepairNo(r, i)], i) >= CorrectionGap
  <2>1. /\ RepairNo(s, i) \in 1..Cardinality(RepairsIn(s)) /\ Cardinality(RepairsIn(s)) \in Nat
        /\ RepairsIn(s) \subseteq 1..Len(s)
    BY <1>3, RepairsCounted
  <2>2. RepairNo(s, i) \in 1..Len(keys)
    BY <1>4, <2>1
  <2>w. PICK w \in Nat : w = keys[RepairNo(s, i)]
    BY <1>4, <2>2
  <2>b. PICK a \in Nat \ {0}, b \in 0..Len(s) : a = w + 1 /\ b = i - 1
    <3>1. i \in 1..Len(s)
      BY <1>3, <2>1
    <3>2. w + 1 \in Nat \ {0} /\ i - 1 \in 0..Len(s)
      BY <3>1
    <3> QED
      BY <3>2
  <2>3. \A j \in a..b : s[j] \in PlanEvent /\ r[j] \in PlanEvent /\ j \in 1..Len(s)
    BY <1>1
  <2>4. /\ SubSeq(s, a, b) \in Seq(PlanEvent) /\ Len(SubSeq(s, a, b)) = IF a <= b THEN b - a + 1 ELSE 0
        /\ \A j \in 1..(b - a + 1) : SubSeq(s, a, b)[j] = s[a + j - 1]
    BY <2>3, SubSeqProperties
  <2>5. /\ SubSeq(r, a, b) \in Seq(PlanEvent) /\ Len(SubSeq(r, a, b)) = IF a <= b THEN b - a + 1 ELSE 0
        /\ \A j \in 1..(b - a + 1) : SubSeq(r, a, b)[j] = r[a + j - 1]
    BY <2>3, SubSeqProperties
  <2>x. PICK x \in Seq(PlanEvent), y \in Seq(PlanEvent) : x = SubSeq(s, a, b) /\ y = SubSeq(r, a, b)
    BY <2>4, <2>5
  <2>6. Len(x) = Len(y) /\ \A j \in 1..Len(x) : j \in 1..(b - a + 1) /\ a + j - 1 \in a..b
    BY <2>4, <2>5, <2>x
  <2>7. \A j \in 1..Len(x) : x[j].ms <= y[j].ms
    BY <2>3, <2>4, <2>5, <2>6, <2>x
  <2>8. Lasting(x) <= Lasting(y) /\ Lasting(x) \in Nat /\ Lasting(y) \in Nat
    BY <2>6, <2>7, LongerLasts, MeasuresTyped
  <2>9. Lasting(x) >= CorrectionGap
    BY <1>3, <2>w, <2>b, <2>x DEF SeenOf, TimeSeen
  <2> QED
    BY <1>3, <2>w, <2>b, <2>x, <2>8, <2>9 DEF TimeSeen
<1>6. <<>> \in Seq(Mistake) /\ Len(<<>>) <= 1
  OBVIOUS
<1> QED
  BY <1>3, <1>4, <1>5, <1>6 DEF SeenOf
-----------------------------------------------------------------------------
(* A stretched plan lasts what was asked for. *)

\* Of products
LEMMA Product == \A a, b, c \in Int : a * (b + c) = a * b + a * c /\ a * b \in Int
  OBVIOUS

\* A factor that both sides share
LEMMA Cancel == \A w \in Nat \ {0}, x, c \in Int : w * x <= w * c => x <= c
<1> TAKE w \in Nat \ {0}, x, c \in Int
<1> SUFFICES ASSUME x > c PROVE w * x > w * c
  OBVIOUS
<1>1. w * (c + (x - c)) = w * c + w * (x - c) /\ c + (x - c) = x
  OBVIOUS
<1>2. w * (x - c) > 0
  OBVIOUS
<1> QED
  BY <1>1, <1>2

\* Of quotients
LEMMA Divides == \A x \in Nat, y \in Nat \ {0} : x \div y \in Nat /\ y * (x \div y) <= x /\ x < y * (x \div y) + y
  OBVIOUS

\* Rounding is off by half a unit at most.
LEMMA RoundedIsClose ==
  ASSUME NEW a \in Nat, NEW b \in Nat \ {0}
  PROVE  /\ Rounded(a, b) \in Nat
         /\ (2 * b) * Rounded(a, b) <= 2 * a + b
         /\ 2 * a - b <= (2 * b) * Rounded(a, b)
<1>1. 2 * a + b \in Nat /\ 2 * b \in Nat \ {0}
  OBVIOUS
<1>x. PICK x \in Nat, y \in Nat \ {0} : x = 2 * a + b /\ y = 2 * b
  BY <1>1
<1>2. x \div y \in Nat /\ y * (x \div y) <= x /\ x < y * (x \div y) + y
  BY Divides
<1>3. 2 * a - b = x - y
  BY <1>x
<1> QED
  BY <1>x, <1>2, <1>3 DEF Rounded

\* How many of T there are up to k
Upto(T, k) == Cardinality({i \in T : i <= k})

Counts(T, n) ==
  /\ Upto(T, 0) = 0 /\ Upto(T, n) = Cardinality(T)
  /\ \A k \in 0..n : Upto(T, k) \in Nat
  /\ \A k \in 0..n : k + 1 <= n => Upto(T, k + 1) = IF k + 1 \in T THEN Upto(T, k) + 1 ELSE Upto(T, k)

\* Counting the members of a finite set of positions one position after the other
LEMMA UptoGrows == \A n \in Nat : \A T \in SUBSET (1..n) : Counts(T, n)
<1> TAKE n \in Nat
<1> TAKE T \in SUBSET (1..n)
<1>1. IsFiniteSet(T)
  <2>1. IsFiniteSet(1..n)
    BY FS_Interval
  <2> QED
    BY <2>1, FS_Subset
<1>2. {i \in T : i <= 0} = {} /\ {i \in T : i <= n} = T
  <2>1. \A i \in T : ~(i <= 0) /\ i <= n
    OBVIOUS
  <2>2. {i \in T : i <= 0} = {}
    BY <2>1
  <2>3. {i \in T : i <= n} = T
    BY <2>1
  <2> QED
    BY <2>2, <2>3
<1>3. ASSUME NEW k \in 0..n
      PROVE  /\ Upto(T, k) \in Nat
             /\ k + 1 <= n => Upto(T, k + 1) = IF k + 1 \in T THEN Upto(T, k) + 1 ELSE Upto(T, k)
  <2> DEFINE P == {i \in T : i <= k}
             Q == {i \in T : i <= k + 1}
  <2>1. P \subseteq T /\ k + 1 \notin P /\ Q = IF k + 1 \in T THEN P \cup {k + 1} ELSE P
    <3>1. \A i \in T : i \in Int
      OBVIOUS
    <3>2. P \subseteq T /\ k + 1 \notin P
      OBVIOUS
    <3>3. \A i \in T : i <= k + 1 <=> i <= k \/ i = k + 1
      BY <3>1
    <3>4. CASE k + 1 \in T
      BY <3>2, <3>3, <3>4
    <3>5. CASE k + 1 \notin T
      BY <3>2, <3>3, <3>5
    <3> QED
      BY <3>2, <3>4, <3>5
  <2> HIDE DEF P, Q
  <2>2. IsFiniteSet(P) /\ Cardinality(P) \in Nat
    BY <1>1, <2>1, FS_Subset, FS_CardinalityType
  <2>3. Cardinality(P \cup {k + 1}) = Cardinality(P) + 1
    BY <2>1, <2>2, FS_AddElement
  <2>4. Cardinality(Q) = IF k + 1 \in T THEN Cardinality(P) + 1 ELSE Cardinality(P)
    BY <2>1, <2>3
  <2>5. Upto(T, k) = Cardinality(P) /\ Upto(T, k + 1) = Cardinality(Q)
    BY DEF Upto, P, Q
  <2> QED
    BY <2>2, <2>4, <2>5
<1>4. Upto(T, 0) = 0 /\ Upto(T, n) = Cardinality(T)
  BY <1>2, FS_EmptySet DEF Upto
<1> QED
  BY <1>3, <1>4 DEF Counts

\* One share is off its weight's part by half a unit at most, and none where there is no weight.
LEMMA ShareIsClose ==
  ASSUME NEW extra \in Nat, NEW w \in Nat \ {0}, NEW u \in Nat
  PROVE  /\ Rounded(extra * u, w) \in Nat
         /\ u = 0 => Rounded(extra * u, w) = 0
         /\ (2 * w) * Rounded(extra * u, w) <= (2 * extra) * u + w
         /\ (2 * extra) * u - w <= (2 * w) * Rounded(extra * u, w)
<1>a. PICK a \in Nat : a = extra * u
  OBVIOUS
<1>1. Rounded(a, w) \in Nat /\ (2 * w) * Rounded(a, w) <= 2 * a + w /\ 2 * a - w <= (2 * w) * Rounded(a, w)
  BY RoundedIsClose
<1>2. 2 * a = (2 * extra) * u
  BY <1>a
<1>3. u = 0 => a = 0
  BY <1>a
<1>4. Rounded(0, w) = 0
  <2>q. PICK y \in Nat \ {0} : y = 2 * w /\ w < y
    OBVIOUS
  <2>1. w \div y \in Nat /\ y * (w \div y) <= w /\ w < y * (w \div y) + y
    BY Divides
  <2>p. PICK p \in Nat : p = w \div y
    BY <2>1
  <2>2. p = 0
    <3>1. y * p <= w /\ w < y
      BY <2>1, <2>p, <2>q
    <3>2. CASE p > 0
      <4>1. p = 1 + (p - 1) /\ p - 1 \in Nat
        BY <3>2
      <4>2. y * (1 + (p - 1)) = y * 1 + y * (p - 1)
        BY <4>1, Product
      <4>3. y * (p - 1) >= 0
        BY <4>1
      <4> QED
        BY <3>1, <4>1, <4>2, <4>3
    <3> QED
      BY <3>2
  <2>3. 2 * 0 + w = w
    OBVIOUS
  <2> QED
    BY <2>p, <2>q, <2>2, <2>3 DEF Rounded
<1> QED
  BY <1>a, <1>1, <1>2, <1>3, <1>4

\* Rests with a weight weigh together at least as much as there are of them.
Weighed(u, T, k) ==
  /\ Adder!Fold(0, SubSeq(u, 1, k)) \in Nat
  /\ Upto(T, k) <= Adder!Fold(0, SubSeq(u, 1, k))

\* The weights of a plan with a rest add up to something to divide by.
LEMMA WeightsCount ==
  ASSUME NEW u \in Seq(Nat), NEW T \in SUBSET (1..Len(u)), \A i \in T : u[i] >= 1
  PROVE  /\ \A k \in 0..Len(u) : Weighed(u, T, k)
         /\ T # {} => FoldLeft(Plus, 0, u) \in Nat \ {0}
<1> DEFINE U(k) == Adder!Fold(0, SubSeq(u, 1, k))
           C(k) == Upto(T, k)
           K == {k \in Nat : k <= Len(u) => U(k) \in Nat /\ C(k) <= U(k)}
<1>0. Len(u) \in Nat /\ \A i \in 1..Len(u) : u[i] \in Nat
  OBVIOUS
<1>1. Adder!ByPrefixes(0, u)
  BY Adder!FoldBy
<1>2. /\ U(0) = 0 /\ U(Len(u)) = Adder!Fold(0, u)
      /\ \A k \in 1..Len(u) : U(k) = Plus(U(k - 1), u[k])
  BY <1>1, Zenon DEF Adder!ByPrefixes
<1>3. /\ C(0) = 0 /\ C(Len(u)) = Cardinality(T)
      /\ \A k \in 0..Len(u) : C(k) \in Nat
      /\ \A k \in 0..Len(u) : k + 1 <= Len(u) => C(k + 1) = IF k + 1 \in T THEN C(k) + 1 ELSE C(k)
  <2>1. Counts(T, Len(u))
    BY <1>0, UptoGrows
  <2> QED
    BY <2>1 DEF Counts
<1> HIDE DEF U, C
<1>4. 0 \in K
  BY <1>0, <1>2, <1>3
<1>5. ASSUME NEW k \in Nat, k \in K PROVE k + 1 \in K
  <2> SUFFICES ASSUME k + 1 <= Len(u) PROVE U(k + 1) \in Nat /\ C(k + 1) <= U(k + 1)
    OBVIOUS
  <2>1. k + 1 \in 1..Len(u) /\ (k + 1) - 1 = k /\ k <= Len(u) /\ k \in 0..Len(u)
    BY <1>0
  <2>2. U(k + 1) = U(k) + u[k + 1] /\ u[k + 1] \in Nat
    BY <1>0, <1>2, <2>1 DEF Plus
  <2>3. C(k + 1) = IF k + 1 \in T THEN C(k) + 1 ELSE C(k)
    BY <1>3, <2>1
  <2>4. U(k) \in Nat /\ C(k) <= U(k) /\ C(k) \in Nat
    BY <1>3, <1>5, <2>1
  <2>5. k + 1 \in T => u[k + 1] >= 1
    OBVIOUS
  <2> QED
    BY <2>2, <2>3, <2>4, <2>5
<1>6. Nat \subseteq K
  <2> HIDE DEF K
  <2> QED
    BY <1>4, <1>5, Clock!Induction
<1>7. \A k \in 0..Len(u) : Weighed(u, T, k)
  BY <1>6 DEF Weighed, U, C
<1>8. ASSUME T # {} PROVE FoldLeft(Plus, 0, u) \in Nat \ {0}
  <2>1. FoldLeft(Plus, 0, u) = U(Len(u))
    BY <1>2, PlanFolds
  <2>2. Cardinality(T) # 0
    <3>1. IsFiniteSet(1..Len(u))
      BY <1>0, FS_Interval
    <3>2. IsFiniteSet(T)
      BY <3>1, FS_Subset
    <3> QED
      BY <1>8, <3>2, FS_EmptySet
  <2>3. Cardinality(T) \in Nat /\ U(Len(u)) \in Nat /\ Cardinality(T) <= U(Len(u))
    BY <1>0, <1>3, <1>6
  <2> QED
    BY <2>1, <2>2, <2>3
<1> QED
  BY <1>7, <1>8

\* The plan r is s with its events in T longer by their share of `extra`, by weight.
Shares(s, r, u, T, extra, sum) ==
  /\ Len(r) = Len(s) /\ Len(u) = Len(s) /\ T # {} /\ T \subseteq 1..Len(s)
  /\ \A i \in 1..Len(s) : IF i \in T THEN u[i] >= 1 ELSE u[i] = 0
  /\ sum = FoldLeft(Plus, 0, u)
  /\ \A i \in 1..Len(s) : r[i].ms = s[i].ms + Rounded(extra * u[i], sum)

\* A sum of two bounded terms is bounded by the sum of the bounds.
LEMMA AddBounds ==
  ASSUME NEW a \in Int, NEW b \in Int, NEW c \in Int, NEW d \in Int, NEW e \in Int, NEW f \in Int,
         a <= c + e, c - e <= a, b <= d + f, d - f <= b
  PROVE  a + b <= (c + d) + (e + f) /\ (c + d) - (e + f) <= a + b
OBVIOUS

\* What a pause adds to the time of a prefix is what it adds to the difference.
LEMMA Regroup ==
  ASSUME NEW s \in Nat, NEW r \in Nat, NEW m \in Nat, NEW q \in Nat
  PROVE  s + m \in Nat /\ r + (m + q) \in Nat /\ (r + (m + q)) - (s + m) = (r - s) + q
OBVIOUS

\* Rests that share what is missing by their weights share it but for the rounding.
LEMMA StretchedLasts ==
  ASSUME NEW s \in Seq(PlanEvent), NEW r \in Seq(PlanEvent), NEW u \in Seq(Nat),
         NEW T, NEW extra \in Nat, NEW sum, Shares(s, r, u, T, extra, sum)
  PROVE  /\ 2 * (Lasting(r) - (Lasting(s) + extra)) <= Cardinality(T)
         /\ -(2 * (Lasting(r) - (Lasting(s) + extra))) <= Cardinality(T)
<1> DEFINE S(k) == Clock!Fold(0, SubSeq(s, 1, k))
           R(k) == Clock!Fold(0, SubSeq(r, 1, k))
           U(k) == Adder!Fold(0, SubSeq(u, 1, k))
           C(k) == Upto(T, k)
<1>0. Len(s) \in Nat /\ \A i \in 1..Len(u) : u[i] \in Nat
  OBVIOUS
<1>a. /\ Len(r) = Len(s) /\ Len(u) = Len(s) /\ T # {} /\ T \in SUBSET (1..Len(s))
      /\ \A i \in 1..Len(s) : IF i \in T THEN u[i] >= 1 ELSE u[i] = 0
      /\ \A i \in 1..Len(s) : r[i].ms = s[i].ms + Rounded(extra * u[i], sum)
  BY DEF Shares
<1>f. sum = FoldLeft(Plus, 0, u)
  BY DEF Shares
<1>1. Clock!ByPrefixes(0, s) /\ Clock!ByPrefixes(0, r) /\ Adder!ByPrefixes(0, u)
  BY Clock!FoldBy, Adder!FoldBy
<1>2. /\ S(0) = 0 /\ S(Len(s)) = Clock!Fold(0, s)
      /\ \A k \in 1..Len(s) : S(k) = Later(S(k - 1), s[k])
      /\ R(0) = 0 /\ R(Len(r)) = Clock!Fold(0, r)
      /\ \A k \in 1..Len(r) : R(k) = Later(R(k - 1), r[k])
  BY <1>1, Zenon DEF Clock!ByPrefixes
<1>3. /\ U(0) = 0 /\ U(Len(u)) = Adder!Fold(0, u)
      /\ \A k \in 1..Len(u) : U(k) = Plus(U(k - 1), u[k])
  BY <1>1, Zenon DEF Adder!ByPrefixes
<1>4. /\ C(0) = 0 /\ C(Len(s)) = Cardinality(T)
      /\ \A k \in 0..Len(s) : C(k) \in Nat
      /\ \A k \in 0..Len(s) : k + 1 <= Len(s) => C(k + 1) = IF k + 1 \in T THEN C(k) + 1 ELSE C(k)
  <2>1. Counts(T, Len(s))
    BY <1>0, <1>a, UptoGrows
  <2> QED
    BY <2>1 DEF Counts
<1>w. /\ \A k \in 0..Len(s) : Weighed(u, T, k)
      /\ FoldLeft(Plus, 0, u) \in Nat \ {0}
  <2>1. T \in SUBSET (1..Len(u)) /\ (\A i \in T : u[i] >= 1) /\ T # {}
    BY <1>a
  <2> QED
    BY <1>a, <2>1, WeightsCount
<1>8. \A k \in 0..Len(s) : U(k) \in Nat
  BY <1>w DEF Weighed
<1> HIDE DEF S, R, U, C
<1>9. sum = U(Len(s)) /\ sum \in Nat \ {0} /\ Cardinality(T) \in Nat
  <2>1. sum = U(Len(s))
    BY <1>3, <1>a, <1>f, PlanFolds
  <2> QED
    BY <1>0, <1>4, <1>f, <1>w, <2>1
<1> DEFINE Close(k) == /\ S(k) \in Nat /\ R(k) \in Nat
                       /\ (2 * sum) * (R(k) - S(k)) <= (2 * extra) * U(k) + sum * C(k)
                       /\ (2 * extra) * U(k) - sum * C(k) <= (2 * sum) * (R(k) - S(k))
           L == {k \in Nat : k <= Len(s) => Close(k)}
<1>10. 0 \in L
  BY <1>2, <1>3, <1>4, <1>9
<1>11. ASSUME NEW k \in Nat, k \in L PROVE k + 1 \in L
  <2> SUFFICES ASSUME k + 1 <= Len(s) PROVE Close(k + 1)
    OBVIOUS
  <2>1. /\ k + 1 \in 1..Len(s) /\ k + 1 \in 1..Len(u) /\ k + 1 \in 1..Len(r) /\ (k + 1) - 1 = k
        /\ k <= Len(s) /\ k \in 0..Len(s)
    BY <1>0, <1>a
  <2>v. PICK v \in Nat : v = u[k + 1]
    BY <1>0, <2>1
  <2>q. PICK q \in Nat : q = Rounded(extra * v, sum)
    BY <1>9, ShareIsClose
  <2>2. /\ v = 0 => q = 0
        /\ (2 * sum) * q <= (2 * extra) * v + sum
        /\ (2 * extra) * v - sum <= (2 * sum) * q
    BY <1>9, <2>q, ShareIsClose
  <2>3. S(k + 1) = S(k) + s[k + 1].ms /\ R(k + 1) = R(k) + r[k + 1].ms /\ r[k + 1].ms = s[k + 1].ms + q
    <3>1. r[k + 1].ms = s[k + 1].ms + q
      BY <1>a, <2>1, <2>v, <2>q
    <3> QED
      BY <1>2, <2>1, <3>1 DEF Later
  <2>4. s[k + 1].ms \in Nat
    <3>1. s[k + 1] \in PlanEvent
      BY <2>1
    <3> QED
      BY <3>1, EventKinds
  <2>5. U(k + 1) = U(k) + v /\ U(k) \in Nat
    BY <1>3, <1>8, <2>1, <2>v DEF Plus
  <2>6. C(k + 1) = (IF k + 1 \in T THEN C(k) + 1 ELSE C(k)) /\ C(k) \in Nat /\ (k + 1 \notin T => v = 0)
    BY <1>4, <1>a, <2>1, <2>v
  <2>6a. S(k) \in Nat /\ R(k) \in Nat
    BY <1>11, <2>1
  <2>7. /\ (2 * sum) * (R(k) - S(k)) <= (2 * extra) * U(k) + sum * C(k)
        /\ (2 * extra) * U(k) - sum * C(k) <= (2 * sum) * (R(k) - S(k))
    BY <1>11, <2>1
  <2>d. PICK d \in Int, e \in Nat, c \in Nat, x \in Nat, y \in Nat :
          d = R(k) - S(k) /\ e = U(k) /\ c = C(k) /\ x = 2 * sum /\ y = 2 * extra
    <3>1. R(k) - S(k) \in Int
      BY <2>6a
    <3>2. U(k) \in Nat /\ C(k) \in Nat
      BY <2>5, <2>6
    <3>3. 2 * sum \in Nat /\ 2 * extra \in Nat
      BY <1>9
    <3> QED
      BY <3>1, <3>2, <3>3
  <2>8. S(k + 1) \in Nat /\ R(k + 1) \in Nat /\ R(k + 1) - S(k + 1) = d + q
    <3>a. PICK a \in Nat, b \in Nat, j \in Nat : a = S(k) /\ b = R(k) /\ j = s[k + 1].ms
      BY <2>4, <2>6a
    <3>1. S(k + 1) = a + j /\ R(k + 1) = b + (j + q) /\ d = b - a
      BY <2>3, <2>d, <3>a
    <3>2. a + j \in Nat /\ b + (j + q) \in Nat /\ (b + (j + q)) - (a + j) = (b - a) + q
      BY Regroup
    <3> QED
      BY <3>1, <3>2
  <2>9. /\ x * (d + q) = x * d + x * q /\ y * (e + v) = y * e + y * v
        /\ x * d \in Int /\ x * q \in Int /\ y * e \in Int /\ y * v \in Int
    BY Product
  <2>10. sum * (c + 1) = sum * c + sum * 1 /\ sum * 1 = sum /\ sum * c \in Int
    BY <1>9, Product
  <2>11. x * d <= y * e + sum * c /\ y * e - sum * c <= x * d
    BY <2>7, <2>d
  <2>12. x * q <= y * v + sum /\ y * v - sum <= x * q
    BY <2>2, <2>d
  <2>13. CASE k + 1 \in T
    <3>1. x * (d + q) <= y * (e + v) + sum * (c + 1) /\ y * (e + v) - sum * (c + 1) <= x * (d + q)
      <4>n. PICK xd \in Int, xq \in Int, ye \in Int, yv \in Int, tc \in Int :
              xd = x * d /\ xq = x * q /\ ye = y * e /\ yv = y * v /\ tc = sum * c
        BY <2>9, <2>10
      <4>1. xd <= ye + tc /\ ye - tc <= xd /\ xq <= yv + sum /\ yv - sum <= xq
        BY <2>11, <2>12, <4>n
      <4>2. xd + xq <= (ye + yv) + (tc + sum) /\ (ye + yv) - (tc + sum) <= xd + xq
        <5>1. sum \in Int
          BY <1>9
        <5> QED
          BY <4>1, <5>1, AddBounds
      <4>3. x * (d + q) = xd + xq /\ y * (e + v) = ye + yv /\ sum * (c + 1) = tc + sum
        BY <2>9, <2>10, <4>n
      <4> QED
        BY <4>2, <4>3
    <3>2. C(k + 1) = c + 1
      BY <2>6, <2>13, <2>d
    <3> QED
      BY <2>5, <2>8, <2>d, <3>1, <3>2
  <2>14. CASE k + 1 \notin T
    <3>1. v = 0 /\ q = 0 /\ C(k + 1) = c
      BY <2>2, <2>6, <2>14, <2>d
    <3>2. d + q = d /\ e + v = e
      BY <3>1
    <3> QED
      BY <2>5, <2>8, <2>11, <2>d, <3>1, <3>2
  <2> QED
    BY <2>13, <2>14
<1>12. Nat \subseteq L
  <2> HIDE DEF L
  <2> QED
    BY <1>10, <1>11, Clock!Induction
<1>13. Close(Len(s))
  BY <1>0, <1>12
<1>14. S(Len(s)) = Lasting(s) /\ R(Len(s)) = Lasting(r) /\ Lasting(s) \in Nat /\ Lasting(r) \in Nat
  BY <1>2, <1>a, PlanFolds, MeasuresTyped
<1>d. PICK d \in Int, c \in Nat, x \in Int : d = Lasting(r) - Lasting(s) /\ c = Cardinality(T) /\ x = 2 * d - 2 * extra
  <2>1. /\ Lasting(r) - Lasting(s) \in Int /\ Cardinality(T) \in Nat
        /\ 2 * (Lasting(r) - Lasting(s)) - 2 * extra \in Int
    BY <1>9, <1>14
  <2> QED
    BY <2>1
<1>15. (2 * sum) * d <= (2 * extra) * sum + sum * c /\ (2 * extra) * sum - sum * c <= (2 * sum) * d
  BY <1>4, <1>9, <1>13, <1>14, <1>d
<1>16. (2 * sum) * d = sum * (2 * d) /\ (2 * extra) * sum = sum * (2 * extra)
  BY <1>9
<1>17. sum * (2 * d) = sum * (2 * extra) + sum * x
  <2>1. 2 * d = 2 * extra + x
    BY <1>d
  <2>2. sum * (2 * extra + x) = sum * (2 * extra) + sum * x
    BY <1>9, Product
  <2> QED
    BY <2>1, <2>2
<1>18. sum * x <= sum * c /\ sum * (-x) <= sum * c
  <2>1. sum * x \in Int /\ sum * c \in Int /\ sum * (2 * extra) \in Int /\ sum * (-x) = -(sum * x)
    BY <1>9
  <2> QED
    BY <1>15, <1>16, <1>17, <2>1
<1>19. x <= c /\ -x <= c
  <2>1. -x \in Int /\ c \in Int
    OBVIOUS
  <2> QED
    BY <1>9, <1>18, <2>1, Cancel
<1>20. 2 * (Lasting(r) - (Lasting(s) + extra)) = x
  <2>1. d = Lasting(r) - Lasting(s) /\ x = 2 * d - 2 * extra
    BY <1>d
  <2>2. 2 * (Lasting(r) - (Lasting(s) + extra)) = 2 * (Lasting(r) - Lasting(s)) - 2 * extra
    BY <1>14
  <2> QED
    BY <2>1, <2>2
<1> QED
  BY <1>9, <1>d, <1>19, <1>20

-----------------------------------------------------------------------------
(* What is left of a text, and what of it has been said. *)

Token == [word : BOOLEAN, chars : Seq(Alphabet)]

\* The pieces tk are the end of the text wh.
LeftOf(wh, tk) ==
  /\ wh \in Seq(Token) /\ tk \in Seq(Token) /\ Len(tk) <= Len(wh)
  /\ \A i \in 1..Len(tk) : tk[i] = wh[(Len(wh) - Len(tk)) + i]

SaidOf(wh, tk) == TextOf(SubSeq(wh, 1, Len(wh) - Len(tk)))

\* What a text says is made of the alphabet.
LEMMA TextTyped == \A t \in Seq(Token) : TextOf(t) \in Seq(Alphabet)
<1>1. ASSUME NEW v \in Seq(Alphabet), NEW e \in Token PROVE Spelt(v, e) \in Seq(Alphabet)
  <2>1. e.chars \in Seq(Alphabet)
    BY DEF Token
  <2> QED
    BY <2>1, ConcatProperties DEF Spelt
<1>2. <<>> \in Seq(Alphabet)
  OBVIOUS
<1>3. \A t \in Seq(Token) : Speller!Fold(<<>>, t) \in Seq(Alphabet)
  BY <1>1, <1>2, Speller!FoldType
<1> QED
  BY <1>3, PlanFolds

\* What has been said is text.
LEMMA SaidTyped ==
  ASSUME NEW wh, NEW tk, LeftOf(wh, tk)
  PROVE  SaidOf(wh, tk) \in Seq(Alphabet)
<1>1. wh \in Seq(Token) /\ tk \in Seq(Token) /\ Len(tk) <= Len(wh)
  BY DEF LeftOf
<1>n. PICK n \in 0..Len(wh) : n = Len(wh) - Len(tk)
  BY <1>1
<1>2. SubSeq(wh, 1, n) \in Seq(Token)
  <2>1. \A i \in 1..n : wh[i] \in Token
    BY <1>1
  <2> QED
    BY <2>1, SubSeqProperties
<1> QED
  BY <1>n, <1>2, TextTyped DEF SaidOf

\* Nothing said yet, nothing left
LEMMA SaidEnds ==
  ASSUME NEW wh \in Seq(Token)
  PROVE  /\ LeftOf(wh, wh) /\ SaidOf(wh, wh) = <<>>
         /\ LeftOf(wh, <<>>) /\ SaidOf(wh, <<>>) = TextOf(wh)
<1>1. LeftOf(wh, wh) /\ LeftOf(wh, <<>>)
  BY DEF LeftOf
<1>2. SubSeq(wh, 1, 0) = <<>> /\ Len(wh) - Len(wh) = 0 /\ Len(wh) - Len(<<>>) = Len(wh)
  <2>1. SubSeq(wh, 1, 0) = <<>>
    BY SubSeqEmpty
  <2> QED
    BY <2>1
<1>3. SubSeq(wh, 1, Len(wh)) = wh
  BY SubSeqFull
<1>4. TextOf(<<>>) = <<>>
  BY PlanFolds, Speller!FoldEmpty
<1> QED
  BY <1>1, <1>2, <1>3, <1>4 DEF SaidOf

\* The first pieces of what is left are said one after the other.
LEMMA SomeSaid ==
  ASSUME NEW wh, NEW tk, LeftOf(wh, tk), NEW n \in 0..Len(tk)
  PROVE  /\ LeftOf(wh, SubSeq(tk, n + 1, Len(tk)))
         /\ Len(SubSeq(tk, n + 1, Len(tk))) = Len(tk) - n
         /\ SaidOf(wh, SubSeq(tk, n + 1, Len(tk))) = TextOf(SubSeq(wh, 1, (Len(wh) - Len(tk)) + n))
<1>1. /\ wh \in Seq(Token) /\ tk \in Seq(Token) /\ Len(tk) <= Len(wh)
      /\ \A i \in 1..Len(tk) : tk[i] = wh[(Len(wh) - Len(tk)) + i]
  BY DEF LeftOf
<1>a. PICK a \in Nat, b \in Nat, l \in Nat : a = Len(wh) /\ b = Len(tk) /\ l = a - b
  BY <1>1
<1>2. /\ SubSeq(tk, n + 1, b) \in Seq(Token) /\ Len(SubSeq(tk, n + 1, b)) = b - n
      /\ \A i \in 1..(b - n) : SubSeq(tk, n + 1, b)[i] = tk[n + i]
  <2>1. n + 1 \in Int /\ b \in Int /\ \A i \in (n + 1)..b : tk[i] \in Token
    BY <1>1, <1>a
  <2>q. PICK q \in Int : q = n + 1
    OBVIOUS
  <2>2. /\ SubSeq(tk, q, b) \in Seq(Token) /\ Len(SubSeq(tk, q, b)) = IF q <= b THEN b - q + 1 ELSE 0
        /\ \A i \in 1..(b - q + 1) : SubSeq(tk, q, b)[i] = tk[q + i - 1]
    BY <2>1, <2>q, SubSeqProperties
  <2>3. b - q + 1 = b - n /\ (IF q <= b THEN b - q + 1 ELSE 0) = b - n /\ \A i \in Int : q + i - 1 = n + i
    BY <1>a, <2>q
  <2> QED
    BY <2>2, <2>3, <2>q
<1>r. PICK r \in Seq(Token) : r = SubSeq(tk, n + 1, b)
  BY <1>2
<1>3. Len(r) = b - n /\ \A i \in 1..Len(r) : r[i] = wh[(a - Len(r)) + i]
  <2>1. Len(r) = b - n
    BY <1>2, <1>r
  <2>2. ASSUME NEW i \in 1..Len(r) PROVE r[i] = wh[(a - Len(r)) + i]
    <3>1. r[i] = tk[n + i]
      BY <1>2, <1>r, <2>1
    <3>2. n + i \in 1..b /\ l + (n + i) = (a - Len(r)) + i
      BY <1>a, <2>1
    <3>3. tk[n + i] = wh[l + (n + i)]
      BY <1>1, <1>a, <3>2
    <3> QED
      BY <3>1, <3>2, <3>3
  <2> QED
    BY <2>1, <2>2
<1>4. Len(r) <= a /\ a - Len(r) = l + n
  BY <1>1, <1>a, <1>3
<1> QED
  BY <1>1, <1>a, <1>r, <1>3, <1>4 DEF LeftOf, SaidOf

\* One piece
LEMMA OneTaken ==
  ASSUME NEW wh, NEW tk, LeftOf(wh, tk), tk # <<>>
  PROVE  /\ Head(tk) \in Token /\ Head(tk) = tk[1] /\ LeftOf(wh, Tail(tk))
         /\ SaidOf(wh, Tail(tk)) = SaidOf(wh, tk) \o Head(tk).chars
<1>1. wh \in Seq(Token) /\ tk \in Seq(Token) /\ Len(tk) <= Len(wh) /\ Len(tk) >= 1
  <2>1. Len(tk) # 0 /\ Len(tk) \in Nat
    BY EmptySeq DEF LeftOf
  <2> QED
    BY <2>1 DEF LeftOf
<1>2. Head(tk) \in Token /\ Head(tk) = tk[1] /\ Tail(tk) = SubSeq(tk, 1 + 1, Len(tk))
  BY <1>1
<1>n. PICK n \in 0..Len(wh) : n = Len(wh) - Len(tk) /\ n + 1 \in 1..Len(wh) /\ (n + 1) - 1 = n
  <2>1. Len(wh) - Len(tk) \in 0..Len(wh)
    BY <1>1
  <2>2. (Len(wh) - Len(tk)) + 1 \in 1..Len(wh) /\ ((Len(wh) - Len(tk)) + 1) - 1 = Len(wh) - Len(tk)
    BY <1>1
  <2> QED
    BY <2>1, <2>2
<1>3. LeftOf(wh, Tail(tk)) /\ SaidOf(wh, Tail(tk)) = TextOf(SubSeq(wh, 1, n + 1))
  <2>o. PICK o \in 0..Len(tk) : o = 1
    BY <1>1
  <2>1. /\ LeftOf(wh, SubSeq(tk, o + 1, Len(tk)))
        /\ SaidOf(wh, SubSeq(tk, o + 1, Len(tk))) = TextOf(SubSeq(wh, 1, (Len(wh) - Len(tk)) + o))
    BY SomeSaid
  <2> QED
    BY <1>2, <1>n, <2>o, <2>1
<1>4. TextOf(SubSeq(wh, 1, n + 1)) = TextOf(SubSeq(wh, 1, n)) \o wh[n + 1].chars
  <2>1. Speller!ByPrefixes(<<>>, wh)
    BY <1>1, Speller!FoldBy
  <2>2. Speller!Fold(<<>>, SubSeq(wh, 1, n + 1)) = Spelt(Speller!Fold(<<>>, SubSeq(wh, 1, n)), wh[n + 1])
    BY <1>n, <2>1 DEF Speller!ByPrefixes
  <2> QED
    BY <2>2, PlanFolds DEF Spelt
<1>5. tk[1] = wh[n + 1]
  <2>1. tk[1] = wh[(Len(wh) - Len(tk)) + 1]
    BY <1>1 DEF LeftOf
  <2> QED
    BY <1>n, <2>1
<1> QED
  BY <1>2, <1>n, <1>3, <1>4, <1>5 DEF SaidOf

AllBreaks(tk, n) == \A i \in 1..n : tk[i] = Sign("\n")

\* The run of n line breaks is said.
RunSaid(wh, tk, n) ==
  LET lines == [i \in 1..n |-> "\n"]
      rest == SubSeq(tk, n + 1, Len(tk))
  IN LeftOf(wh, rest) /\ lines \in Seq(Alphabet) /\ Len(lines) = n /\ SaidOf(wh, rest) = SaidOf(wh, tk) \o lines

\* A run of line breaks
LEMMA RunTaken ==
  \A wh, tk : \A n \in 1..Len(tk) : LeftOf(wh, tk) /\ AllBreaks(tk, n) => RunSaid(wh, tk, n)
<1> SUFFICES ASSUME NEW wh, NEW tk, NEW n \in 1..Len(tk), LeftOf(wh, tk), AllBreaks(tk, n)
             PROVE  RunSaid(wh, tk, n)
  OBVIOUS
<1>1. wh \in Seq(Token) /\ tk \in Seq(Token) /\ Len(tk) <= Len(wh)
  BY DEF LeftOf
<1>2. "\n" \in Alphabet
  <2>1. tk[1] \in Token /\ tk[1].chars = <<"\n">>
    BY <1>1 DEF Sign, AllBreaks
  <2>2. <<"\n">> \in Seq(Alphabet)
    BY <2>1 DEF Token
  <2>s. PICK s \in Seq(Alphabet) : s = <<"\n">>
    BY <2>2
  <2>3. s[1] = "\n" /\ 1 \in 1..Len(s)
    BY <2>s
  <2>4. \A q \in Seq(Alphabet) : \A i \in 1..Len(q) : q[i] \in Alphabet
    OBVIOUS
  <2> QED
    BY <2>3, <2>4
<1>l. PICK l \in 0..Len(wh) : l = Len(wh) - Len(tk)
  <2>1. Len(wh) - Len(tk) \in 0..Len(wh)
    BY <1>1
  <2> QED
    BY <2>1
<1> DEFINE Lines(k) == [i \in 1..k |-> "\n"]
           said == SaidOf(wh, tk)
           T(k) == Speller!Fold(<<>>, SubSeq(wh, 1, l + k))
           K == {k \in Nat : k <= n => T(k) = said \o Lines(k)}
<1>3. said \in Seq(Alphabet) /\ said = T(0)
  <2>1. l + 0 = l
    OBVIOUS
  <2> QED
    BY <1>l, <2>1, SaidTyped, PlanFolds DEF SaidOf
<1>4. \A k \in Nat : Lines(k) \in Seq(Alphabet) /\ Len(Lines(k)) = k /\ \A i \in 1..k : Lines(k)[i] = "\n"
  BY <1>2
<1>5. \A k \in 1..n : T(k) = T(k - 1) \o <<"\n">>
  <2> TAKE k \in 1..n
  <2>1. Speller!ByPrefixes(<<>>, wh)
    BY <1>1, Speller!FoldBy
  <2>2. l + k \in 1..Len(wh) /\ (l + k) - 1 = l + (k - 1) /\ k \in 1..Len(tk)
    BY <1>1, <1>l
  <2>3. T(k) = Spelt(T(k - 1), wh[l + k])
    BY <2>1, <2>2 DEF Speller!ByPrefixes
  <2>4. wh[l + k].chars = <<"\n">>
    <3>1. tk[k] = wh[l + k]
      BY <1>l, <2>2 DEF LeftOf
    <3> QED
      BY <3>1 DEF Sign, AllBreaks
  <2> QED
    BY <2>3, <2>4 DEF Spelt
<1> HIDE DEF T, said
<1>6. 0 \in K
  <2>1. Lines(0) = <<>>
    BY <1>4, EmptySeq
  <2>2. said \o <<>> = said
    BY <1>3, ConcatEmptySeq
  <2> QED
    BY <1>3, <2>1, <2>2
<1>7. ASSUME NEW k \in Nat, k \in K PROVE k + 1 \in K
  <2> HIDE DEF Lines
  <2> SUFFICES ASSUME k + 1 <= n PROVE T(k + 1) = said \o Lines(k + 1)
    OBVIOUS
  <2>1. T(k + 1) = (said \o Lines(k)) \o <<"\n">>
    <3>1. k + 1 \in 1..n /\ (k + 1) - 1 = k /\ k <= n
      <4>1. n \in Nat
        BY <1>1
      <4> QED
        BY <4>1
    <3> QED
      BY <1>5, <1>7, <3>1
  <2>2. <<"\n">> \in Seq(Alphabet) /\ Lines(k) \in Seq(Alphabet) /\ Lines(k + 1) \in Seq(Alphabet)
        /\ Len(Lines(k)) = k /\ Len(Lines(k + 1)) = k + 1
        /\ (\A i \in 1..k : Lines(k)[i] = "\n") /\ (\A i \in 1..(k + 1) : Lines(k + 1)[i] = "\n")
    BY <1>2, <1>4
  <2>3. Associate(said, Lines(k), <<"\n">>)
    BY <1>3, <2>2, Associative
  <2>4. Lines(k) \o <<"\n">> = Lines(k + 1)
    <3>1. Lines(k) \o <<"\n">> = Append(Lines(k), "\n")
      BY <1>2, <2>2, AppendIsConcat
    <3>a. PICK a \in Seq(Alphabet) : a = Append(Lines(k), "\n")
      BY <1>2, <2>2, AppendProperties
    <3>2. Len(a) = k + 1 /\ \A i \in 1..(k + 1) : a[i] = "\n"
      BY <1>2, <2>2, <3>a, AppendProperties
    <3> QED
      BY <2>2, <3>1, <3>a, <3>2, SeqEqual
  <2> QED
    BY <2>1, <2>3, <2>4 DEF Associate
<1>8. n \in K
  <2> HIDE DEF K
  <2> QED
    BY <1>6, <1>7, Clock!Induction
<1>9. LeftOf(wh, SubSeq(tk, n + 1, Len(tk))) /\ SaidOf(wh, SubSeq(tk, n + 1, Len(tk))) = T(n)
  <2>1. n \in 0..Len(tk)
    OBVIOUS
  <2> QED
    BY <1>l, <2>1, SomeSaid, PlanFolds DEF T
<1> QED
  <2>1. n \in Nat /\ n <= n
    BY <1>1
  <2>2. T(n) = said \o Lines(n) /\ Lines(n) \in Seq(Alphabet) /\ Len(Lines(n)) = n
    BY <1>4, <1>8, <2>1
  <2> HIDE DEF Lines
  <2>3. SaidOf(wh, SubSeq(tk, n + 1, Len(tk))) = SaidOf(wh, tk) \o Lines(n)
    BY <1>9, <2>2 DEF said
  <2> QED
    BY <1>9, <2>2, <2>3 DEF Lines, RunSaid

-----------------------------------------------------------------------------
(* What the steps of the planner add. *)

\* The pauses of a plan are gaps.
LEMMA PauseIs ==
  \A ms \in Nat :
    /\ Still(ms) \in Gap /\ Still(ms).ms = ms
    /\ CheckpointFloor \in Nat => Rested(ms) \in Gap /\ Rested(ms).ms = ms /\ Stalled(ms) \in Gap
<1> TAKE ms \in Nat
<1>1. Still(ms) \in Gap /\ Still(ms).ms = ms
  BY DEF Still, Gap
<1>2. ASSUME CheckpointFloor \in Nat PROVE Rested(ms) \in Gap /\ Rested(ms).ms = ms
  BY <1>2 DEF Rested, Still, Gap
<1>3. ASSUME CheckpointFloor \in Nat PROVE Stalled(ms) \in Gap
  <2>1. Min({CheckpointFloor, ms}) \in Nat
    <3> DEFINE S == {CheckpointFloor, ms}
    <3>1. \E x \in S : \A y \in S : x <= y
      BY <1>3
    <3>2. Min(S) \in S
      BY <3>1 DEF Min
    <3> QED
      BY <1>3, <3>2
  <2>m. PICK f \in Nat : f = Min({CheckpointFloor, ms})
    BY <2>1
  <2>2. Stalled(ms) = [Still(ms) EXCEPT !.floor = f]
    BY <2>m DEF Stalled
  <2>3. [Still(ms) EXCEPT !.floor = f] \in Gap
    BY DEF Still, Gap
  <2> QED
    BY <2>2, <2>3
<1> QED
  BY <1>1, <1>2, <1>3

\* Pauses after keys
LEMMA KeysThenGaps ==
  ASSUME NEW w \in Seq(Alphabet), NEW g \in Seq(Gap)
  PROVE  Strokes(w) \o g \in Seq(Quiet) /\ PageOf(Strokes(w) \o g) = w
<1>1. Strokes(w) \in Seq(Quiet) /\ Strokes(w) \in Seq(PlanEvent) /\ g \in Seq(Quiet) /\ PageOf(Strokes(w)) = w
  BY StrokesType, EventSeqs
<1>2. Strokes(w) \o g \in Seq(Quiet)
  BY <1>1, ConcatProperties
<1>3. PageOf(Strokes(w) \o g) = PageOf(Strokes(w))
  BY <1>1, PausesTypeNothing
<1> QED
  BY <1>1, <1>2, <1>3

\* A mark, the pause after it and perhaps some thinking
LEMMA MarkTypes ==
  ASSUME NEW c \in Alphabet
  PROVE  /\ Strokes(<<c>>) \in Seq(Quiet) /\ PageOf(Strokes(<<c>>)) = <<c>>
         /\ <<Stroke(c), Still(1)>> \in Seq(Quiet) /\ PageOf(<<Stroke(c), Still(1)>>) = <<c>>
         /\ \A g \in Seq(Gap) : /\ <<Stroke(c), Still(1)>> \o g \in Seq(Quiet)
                                /\ PageOf(<<Stroke(c), Still(1)>> \o g) = <<c>>
<1>1. <<c>> \in Seq(Alphabet) /\ <<Still(1)>> \in Seq(Gap)
  <2>1. Still(1) \in Gap
    BY PauseIs
  <2> QED
    BY <2>1
<1>k. PICK k \in Seq(Quiet) : k = Strokes(<<c>>) /\ PageOf(k) = <<c>> /\ k = <<Stroke(c)>>
  <2>1. Strokes(<<c>>) \in Seq(Quiet) /\ PageOf(Strokes(<<c>>)) = <<c>>
    BY <1>1, StrokesType, EventSeqs
  <2>2. Strokes(<<c>>) = <<Stroke(c)>>
    BY DEF Strokes
  <2> QED
    BY <2>1, <2>2
<1>2. <<Stroke(c), Still(1)>> = k \o <<Still(1)>>
  <2>1. <<Stroke(c), Still(1)>> = Append(k, Still(1))
    BY <1>k, Reader!Pairs
  <2>2. Still(1) \in Quiet
    BY PauseIs DEF Quiet
  <2>3. Append(k, Still(1)) = k \o <<Still(1)>>
    BY <2>2, AppendIsConcat
  <2> QED
    BY <2>1, <2>3
<1>3. k \o <<Still(1)>> \in Seq(Quiet) /\ PageOf(k \o <<Still(1)>>) = <<c>>
  BY <1>1, <1>k, KeysThenGaps
<1>4. ASSUME NEW g \in Seq(Gap)
      PROVE  (k \o <<Still(1)>>) \o g \in Seq(Quiet) /\ PageOf((k \o <<Still(1)>>) \o g) = <<c>>
  <2>1. Associate(k, <<Still(1)>>, g)
    BY <1>1, EventSeqs, Associative
  <2>2. <<Still(1)>> \o g \in Seq(Gap)
    BY <1>1, ConcatProperties
  <2>3. k \o (<<Still(1)>> \o g) \in Seq(Quiet) /\ PageOf(k \o (<<Still(1)>> \o g)) = <<c>>
    BY <1>1, <1>k, <2>2, KeysThenGaps
  <2> QED
    BY <2>1, <2>3 DEF Associate
<1> QED
  BY <1>k, <1>2, <1>3, <1>4

\* The stall and the thinking before a word
LEMMA NothingTyped ==
  ASSUME NEW g \in Seq(Gap)
  PROVE  g \in Seq(Quiet) /\ PageOf(g) = <<>> /\ Net(g) = 0
<1>1. g \in Seq(Quiet) /\ <<>> \in Seq(PlanEvent) /\ <<>> \in Seq(Gap) /\ g = <<>> \o g
  BY EventSeqs, ConcatEmptySeq
<1>2. PageOf(<<>> \o g) = PageOf(<<>>) /\ Net(<<>> \o g) = Net(<<>>)
  BY <1>1, PausesTypeNothing
<1> QED
  BY <1>1, <1>2, EventMeasured

\* Where a plan is trimmed only pauses follow.
LEMMA TrimSplits ==
  ASSUME NEW s \in Seq(PlanEvent)
  PROVE  \E p \in Seq(PlanEvent), r \in Seq(Gap) :
           /\ p = SubSeq(s, 1, Max({0} \cup {i \in DOMAIN s : ~IsPause(s[i])}))
           /\ s = p \o r
           /\ p # <<>> => ~IsPause(Last(p))
<1> DEFINE T == {i \in DOMAIN s : ~IsPause(s[i])}
           n == Max({0} \cup T)
<1>1. Len(s) \in Nat /\ DOMAIN s = 1..Len(s) /\ \A i \in 1..Len(s) : s[i] \in PlanEvent
  OBVIOUS
<1>2. T \in SUBSET (1..Len(s)) /\ \A i \in 1..Len(s) : i \notin T => s[i] \in Gap
  <2>1. T \in SUBSET (1..Len(s))
    BY <1>1
  <2>2. \A i \in 1..Len(s) : i \notin T => s[i] \in Gap
    BY <1>1, EventKinds
  <2> QED
    BY <2>1, <2>2
<1>3. n \in {0} \cup T /\ \A y \in T : y <= n
  <2> HIDE DEF T
  <2>1. \E m \in {0} \cup T : \A y \in {0} \cup T : m >= y
    <3>1. CASE T = {}
      BY <3>1
    <3>2. CASE T # {}
      <4>1. Reader!Max(T) \in T /\ \A y \in T : y <= Reader!Max(T)
        BY <1>1, <1>2, <3>2, Reader!MaxIn
      <4>2. \A y \in T : y \in Int /\ y >= 1
        BY <1>1, <1>2
      <4> QED
        BY <4>1, <4>2
    <3> QED
      BY <3>1, <3>2
  <2>2. n \in {0} \cup T /\ \A y \in {0} \cup T : n >= y
    BY <2>1 DEF Max
  <2>3. \A y \in {0} \cup T : y \in Int
    BY <1>2
  <2> QED
    BY <2>2, <2>3
<1> HIDE DEF n
<1>4. n \in 0..Len(s) /\ (n # 0 => n \in T)
  BY <1>1, <1>2, <1>3
<1>5. ASSUME NEW i \in (n + 1)..Len(s) PROVE s[i] \in Gap
  <2>1. i \in 1..Len(s) /\ i > n
    BY <1>1, <1>4
  <2>2. i \notin T
    BY <1>3, <1>4, <2>1
  <2> QED
    BY <1>2, <2>1, <2>2
<1> HIDE DEF T
<1>6. /\ SubSeq(s, 1, n) \in Seq(PlanEvent) /\ Len(SubSeq(s, 1, n)) = n
      /\ \A i \in 1..n : SubSeq(s, 1, n)[i] = s[i]
  <2>1. \A i \in 1..n : s[i] \in PlanEvent
    BY <1>1, <1>4
  <2>2. /\ SubSeq(s, 1, n) \in Seq(PlanEvent) /\ Len(SubSeq(s, 1, n)) = IF 1 <= n THEN n - 1 + 1 ELSE 0
        /\ \A i \in 1..(n - 1 + 1) : SubSeq(s, 1, n)[i] = s[1 + i - 1]
    BY <1>4, <2>1, SubSeqProperties
  <2>3. n - 1 + 1 = n /\ (IF 1 <= n THEN n - 1 + 1 ELSE 0) = n /\ \A i \in Int : 1 + i - 1 = i
    BY <1>4
  <2> QED
    BY <2>2, <2>3
<1>q. PICK q \in Nat : q = n + 1
  BY <1>4
<1>7. /\ SubSeq(s, q, Len(s)) \in Seq(Gap) /\ Len(SubSeq(s, q, Len(s))) = Len(s) - n
      /\ \A i \in 1..(Len(s) - n) : SubSeq(s, q, Len(s))[i] = s[n + i]
  <2>1. /\ SubSeq(s, q, Len(s)) \in Seq(Gap)
        /\ Len(SubSeq(s, q, Len(s))) = IF q <= Len(s) THEN Len(s) - q + 1 ELSE 0
        /\ \A i \in 1..(Len(s) - q + 1) : SubSeq(s, q, Len(s))[i] = s[q + i - 1]
    BY <1>1, <1>5, <1>q, SubSeqProperties
  <2>2. Len(s) - q + 1 = Len(s) - n /\ (IF q <= Len(s) THEN Len(s) - q + 1 ELSE 0) = Len(s) - n
    <3>1. n \in Int /\ Len(s) - n >= 0
      BY <1>1, <1>4
    <3>l. PICK l \in Nat : l = Len(s)
      BY <1>1
    <3>2. (l - q) + 1 = l - n /\ (q > l => l - n = 0)
      BY <1>q, <3>1, <3>l
    <3> QED
      BY <3>l, <3>2
  <2>3. \A i \in Int : q + i - 1 = n + i
    BY <1>4, <1>q
  <2>4. ASSUME NEW i \in 1..(Len(s) - n) PROVE SubSeq(s, q, Len(s))[i] = s[n + i]
    <3>1. i \in 1..(Len(s) - q + 1) /\ i \in Int
      BY <2>2
    <3> QED
      BY <2>1, <2>3, <3>1
  <2> QED
    BY <2>1, <2>2, <2>4
<1>p. PICK p \in Seq(PlanEvent), r \in Seq(Gap) : p = SubSeq(s, 1, n) /\ r = SubSeq(s, q, Len(s))
  BY <1>6, <1>7
<1>8. s = p \o r
  <2>1. r \in Seq(PlanEvent)
    BY EventSeqs
  <2>t. PICK t \in Seq(PlanEvent) : t = p \o r
    BY <2>1, ConcatProperties
  <2>2. /\ Len(t) = Len(p) + Len(r)
        /\ \A i \in 1..(Len(p) + Len(r)) : t[i] = IF i <= Len(p) THEN p[i] ELSE r[i - Len(p)]
    BY <2>1, <2>t, ConcatProperties
  <2>3. Len(p) = n /\ Len(r) = Len(s) - n
    BY <1>6, <1>7, <1>p
  <2>4. ASSUME NEW i \in 1..Len(s) PROVE t[i] = s[i]
    <3>1. t[i] = IF i <= n THEN p[i] ELSE r[i - n]
      BY <1>1, <1>4, <2>2, <2>3
    <3>2. CASE i <= n
      BY <1>4, <1>6, <1>p, <3>1, <3>2
    <3>3. CASE ~(i <= n)
      <4>1. i - n \in 1..(Len(s) - n) /\ n + (i - n) = i
        BY <1>1, <1>4, <3>3
      <4> QED
        BY <1>7, <1>p, <3>1, <3>3, <4>1
    <3> QED
      BY <3>2, <3>3
  <2>5. Len(t) = Len(s)
    BY <1>1, <1>4, <2>2, <2>3
  <2> QED
    BY <2>t, <2>4, <2>5, SeqEqual
<1>9. p # <<>> => ~IsPause(Last(p))
  <2> SUFFICES ASSUME p # <<>> PROVE ~IsPause(Last(p))
    OBVIOUS
  <2>1. Len(p) = n /\ n # 0
    BY <1>6, <1>p, EmptySeq
  <2>2. Last(p) = s[n]
    BY <1>4, <1>6, <1>p, <2>1 DEF Last
  <2> QED
    BY <1>4, <2>1, <2>2 DEF T
<1> QED
  BY <1>p, <1>8, <1>9 DEF n, T

\* The run of line breaks is one.
LEMMA RunIs ==
  ASSUME NEW tk \in Seq(Token), tk # <<>>, tk[1] = Sign("\n")
  PROVE  LET n == Max({k \in 1..Len(tk) : \A i \in 1..k : tk[i] = Sign("\n")})
         IN n \in 1..Len(tk) /\ \A i \in 1..n : tk[i] = Sign("\n")
<1> DEFINE T == {k \in 1..Len(tk) : \A i \in 1..k : tk[i] = Sign("\n")}
<1>1. Len(tk) \in Nat /\ Len(tk) # 0
  BY EmptySeq
<1>2. T \in SUBSET (1..Len(tk)) /\ 1 \in T
  BY <1>1
<1>3. Max(T) = Reader!Max(T)
  BY DEF Max, Reader!Max
<1>4. Max(T) \in T
  <2> HIDE DEF T
  <2> QED
    BY <1>1, <1>2, <1>3, Reader!MaxIn
<1> QED
  BY <1>4

-----------------------------------------------------------------------------
(* A step keeps the plan. *)

\* The plan s types the text, once put right, and shows its mistakes.
Kept(s, n, m, keys, time, body) ==
  /\ DraftOf(s, n, m, body) /\ SeenOf(s, keys, m, time) /\ time \in Nat

\* Keys and pauses keep the plan.
LEMMA QuietKeeps ==
  ASSUME NEW s, NEW n, NEW m, NEW keys, NEW time, NEW body, Kept(s, n, m, keys, time, body),
         NEW r \in Seq(Quiet)
  PROVE  Kept(s \o r, n + Net(r), m, keys, time + Lasting(r), body \o PageOf(r))
<1>1. DraftOf(s, n, m, body) /\ SeenOf(s, keys, m, time) /\ time \in Nat /\ time \in Int
  BY DEF Kept
<1>2. DraftOf(s \o r, n + Net(r), m, body \o PageOf(r))
  BY <1>1, QuietKeepsDraft
<1>3. SeenOf(s \o r, keys, m, time + Lasting(r))
  BY <1>1, QuietKeepsSeen
<1>4. Lasting(r) \in Nat
  BY EventSeqs, MeasuresTyped
<1> QED
  BY <1>1, <1>2, <1>3, <1>4 DEF Kept

\* emitChar, emitString, emitPause
LEMMA AppendKeeps ==
  ASSUME NEW body, Kept(script, written, mistake, wrongKeys, spent, body),
         NEW r \in Seq(Quiet), NEW chars, Appended(r, chars), mistake' = mistake, wrongKeys' = wrongKeys
  PROVE  Kept(script', written', mistake', wrongKeys', spent', body \o PageOf(r)) /\ burst' = chars
BY QuietKeeps DEF Appended

\* The repair keeps the plan, where the mistake was on the page long enough.
LEMMA FixKeeps ==
  ASSUME NEW s, NEW n, NEW m, NEW keys, NEW time, NEW body, Kept(s, n, m, keys, time, body),
         m # <<>>, time - m[1].madeAt >= CorrectionGap, CorrectionGap \in Nat
  PROVE  LET cut == <<Fixing(m[1])>>
         IN Kept(s \o cut, n + Net(cut), <<>>, keys, time + Lasting(cut), body)
<1>1. DraftOf(s, n, m, body) /\ SeenOf(s, keys, m, time) /\ time \in Nat /\ time \in Int /\ m \in Seq(Mistake)
  BY DEF Kept, DraftOf
<1>c. PICK cut : cut = <<Fixing(m[1])>>
  OBVIOUS
<1>2. cut \in Seq(PlanEvent)
  <2>1. Fixing(m[1]) \in PlanEvent
    BY <1>1, MistakeIs, FixingSplices DEF PlanEvent
  <2> QED
    BY <1>c, <2>1
<1>3. time + Lasting(cut) \in Nat
  BY <1>1, <1>2, MeasuresTyped
<1>4. DraftOf(s \o cut, n + Net(cut), <<>>, body)
  BY <1>1, <1>c, FixKeepsDraft
<1>5. SeenOf(s \o cut, keys, <<>>, time + Lasting(cut))
  BY <1>1, <1>c, FixKeepsSeen
<1> QED
  BY <1>c, <1>3, <1>4, <1>5 DEF Kept

\* A mistake that waits one rest more is the same mistake.
LEMMA WaitKeeps ==
  ASSUME NEW s, NEW n, NEW m, NEW keys, NEW time, NEW body, Kept(s, n, m, keys, time, body),
         m # <<>> => m[1].rests > 1
  PROVE  Kept(s, n, [i \in DOMAIN m |-> [m[i] EXCEPT !.rests = @ - 1]], keys, time, body)
<1>1. /\ DraftOf(s, n, m, body) /\ SeenOf(s, keys, m, time) /\ time \in Nat /\ m \in Seq(Mistake) /\ Len(m) <= 1
  BY DEF Kept, DraftOf
<1>w. PICK w : w = [i \in DOMAIN m |-> [m[i] EXCEPT !.rests = @ - 1]]
  OBVIOUS
<1>2. CASE m = <<>>
  <2>1. w = m
    BY <1>2, <1>w
  <2> QED
    BY <1>w, <2>1
<1>3. CASE m # <<>>
  <2>1. Len(m) = 1 /\ DOMAIN m = {1} /\ m[1] \in Mistake
    <3>1. Len(m) = 1
      BY <1>1, <1>3, OneMistake
    <3> QED
      BY <1>1, <1>3, <3>1, MistakeIs
  <2>k. PICK k \in Mistake : k = [m[1] EXCEPT !.rests = @ - 1]
    <3>1. m[1].rests \in Nat /\ m[1].rests - 1 \in Nat
      BY <1>3, <2>1 DEF Mistake
    <3> QED
      BY <2>1, <3>1 DEF Mistake
  <2>2. k.offset = m[1].offset /\ k.remove = m[1].remove /\ k.insert = m[1].insert /\ k.madeAt = m[1].madeAt
    BY <2>1, <2>k DEF Mistake
  <2>3. w = <<k>>
    <3>1. w = [i \in {1} |-> k]
      BY <1>w, <2>1, <2>k
    <3> QED
      BY <3>1
  <2>4. <<k>> \in Seq(Mistake) /\ Len(<<k>>) = 1 /\ <<k>>[1] = k /\ <<k>> # <<>>
    OBVIOUS
  <2>5. PutRight(PageOf(s), w) = PutRight(PageOf(s), m) /\ Reach(n, w) = Reach(n, m)
    BY <1>3, <2>2, <2>3, <2>4 DEF PutRight, Reach
  <2>6. DraftOf(s, n, w, body)
    BY <1>1, <1>3, <2>2, <2>3, <2>4, <2>5 DEF DraftOf
  <2>7. SeenOf(s, keys, w, time)
    BY <1>1, <1>3, <2>1, <2>2, <2>3, <2>4 DEF SeenOf
  <2> QED
    BY <1>1, <1>w, <2>6, <2>7 DEF Kept
<1> QED
  BY <1>2, <1>3

\* A rest is as long as the mistake it fixes still has to be seen.
LEMMA TopUpIsEnough ==
  ASSUME NEW fixing \in BOOLEAN, NEW before \in Nat, NEW t \in Nat, spent \in Nat, CorrectionGap \in Nat,
         fixing => mistake[1].madeAt \in Nat
  PROVE  /\ TopUp(fixing, before, t) \in Nat
         /\ fixing => (spent + (before + TopUp(fixing, before, t))) - mistake[1].madeAt >= CorrectionGap
<1>1. CASE fixing
  <2>m. PICK m \in Nat, p \in Nat, g \in Nat : m = mistake[1].madeAt /\ p = spent /\ g = CorrectionGap
    BY <1>1
  <2>1. CASE g > ((p + before) - m) + t
    <3>1. TopUp(fixing, before, t) = g - ((p + before) - m)
      BY <1>1, <2>m, <2>1 DEF TopUp
    <3>2. g - ((p + before) - m) \in Nat
      BY <2>1
    <3> QED
      BY <2>m, <3>1, <3>2
  <2>2. CASE ~(g > ((p + before) - m) + t)
    <3>1. TopUp(fixing, before, t) = t
      BY <1>1, <2>m, <2>2 DEF TopUp
    <3>2. (p + (before + t)) - m >= g
      BY <2>2
    <3> QED
      BY <2>m, <3>1, <3>2
  <2> QED
    BY <2>1, <2>2
<1>2. CASE ~fixing
  BY <1>2 DEF TopUp
<1> QED
  BY <1>1, <1>2

\* emitRest and repairPendingTypo
LEMMA RestKeeps ==
  ASSUME PlanAssumption, NEW body, Kept(script, written, mistake, wrongKeys, spent, body),
         NEW events \in Seq(Quiet), NEW force \in BOOLEAN, RestAfter(events, force)
  PROVE  /\ Kept(script', written', mistake', wrongKeys, spent', body \o PageOf(events))
         /\ burst' = 0 /\ laboured' \in BOOLEAN /\ stallOwed' = laboured'
         /\ force => mistake' = <<>>
<1> DEFINE fixing == mistake # <<>> /\ (force \/ mistake[1].rests <= 1)
           before == Lasting(events)
           cut == IF fixing THEN <<Fixing(mistake[1])>> ELSE <<>>
<1>t. PICK t \in RestTimes :
        LET all == events \o <<Rested(TopUp(fixing, before, t))>> \o cut
        IN /\ script' = script \o all
           /\ written' = written + Net(all)
           /\ burst' = 0
           /\ spent' = spent + Lasting(all)
           /\ laboured' \in BOOLEAN /\ stallOwed' = laboured'
           /\ mistake' = IF fixing THEN <<>>
                         ELSE [i \in DOMAIN mistake |-> [mistake[i] EXCEPT !.rests = @ - 1]]
  BY DEF RestAfter, WrittenAfter
<1>1. /\ script \in Seq(PlanEvent) /\ mistake \in Seq(Mistake) /\ spent \in Nat /\ before \in Nat
      /\ t \in Nat /\ CorrectionGap \in Nat /\ CheckpointFloor \in Nat /\ written \in Int
  <2>1. script \in Seq(PlanEvent) /\ mistake \in Seq(Mistake) /\ spent \in Nat /\ written = Net(script)
    BY DEF Kept, DraftOf
  <2>2. before \in Nat /\ Net(script) \in Int
    BY <2>1, EventSeqs, MeasuresTyped
  <2>3. t \in Nat /\ CorrectionGap \in Nat /\ CheckpointFloor \in Nat
    BY DEF PlanAssumption
  <2> QED
    BY <2>1, <2>2, <2>3
<1>2. fixing => mistake # <<>> /\ mistake[1].madeAt \in Nat
  BY <1>1, MistakeIs
<1> HIDE DEF fixing, before
<1>d. PICK d \in Nat : /\ d = TopUp(fixing, before, t)
                       /\ fixing => (spent + (before + d)) - mistake[1].madeAt >= CorrectionGap
  <2>1. fixing \in BOOLEAN
    BY DEF fixing
  <2> QED
    BY <1>1, <1>2, <2>1, TopUpIsEnough
<1>g. PICK g \in Gap : g = Rested(d) /\ g.ms = d
  BY <1>1, PauseIs
<1>q. PICK q \in Seq(Quiet) : q = events \o <<g>> /\ Lasting(q) = before + d /\ PageOf(q) = PageOf(events)
  <2>1. <<g>> \in Seq(Gap) /\ <<g>> \in Seq(Quiet) /\ <<g>> \in Seq(PlanEvent) /\ events \in Seq(PlanEvent)
    <3>1. <<g>> \in Seq(Gap)
      OBVIOUS
    <3> QED
      BY <3>1, EventSeqs
  <2>2. events \o <<g>> \in Seq(Quiet)
    BY <2>1, ConcatProperties
  <2>3. PageOf(events \o <<g>>) = PageOf(events)
    BY <2>1, PausesTypeNothing
  <2>4. Lasting(events \o <<g>>) = Lasting(events) + Lasting(<<g>>)
    BY <2>1, MeasuresAdd
  <2>5. Lasting(<<g>>) = d
    <3>1. <<>> \in Seq(PlanEvent) /\ g \in PlanEvent /\ <<g>> = Append(<<>>, g)
      BY DEF PlanEvent, Quiet
    <3>2. Lasting(Append(<<>>, g)) = Lasting(<<>>) + g.ms /\ Lasting(<<>>) = 0
      BY <3>1, EventMeasured
    <3> QED
      BY <1>g, <3>1, <3>2
  <2> QED
    BY <2>2, <2>3, <2>4, <2>5 DEF before
<1>3. Kept(script \o q, written + Net(q), mistake, wrongKeys, spent + (before + d), body \o PageOf(events))
  <2>1. Kept(script \o q, written + Net(q), mistake, wrongKeys, spent + Lasting(q), body \o PageOf(q))
    BY QuietKeeps
  <2> QED
    BY <1>q, <2>1
<1>4. CASE fixing
  <2>m. PICK m \in Mistake : m = mistake[1]
    BY <1>1, <1>2, <1>4, MistakeIs
  <2>c. PICK c \in Seq(PlanEvent) : c = <<Fixing(m)>> /\ c = cut
    <3>1. Fixing(m) \in PlanEvent
      BY FixingSplices DEF PlanEvent
    <3>2. <<Fixing(m)>> \in Seq(PlanEvent)
      BY <3>1
    <3>3. cut = <<Fixing(m)>>
      BY <1>4, <2>m
    <3> QED
      BY <3>2, <3>3
  <2>1. script' = script \o (q \o c) /\ written' = written + Net(q \o c) /\ spent' = spent + Lasting(q \o c) /\ mistake' = <<>>
    BY <1>t, <1>d, <1>g, <1>q, <1>4, <2>c
  <2>2. q \in Seq(PlanEvent)
    BY EventSeqs
  <2>3. script \o (q \o c) = (script \o q) \o c
    <3>1. Associate(script, q, c)
      BY <1>1, <2>2, Associative
    <3> QED
      BY <3>1 DEF Associate
  <2>4. Net(q \o c) = Net(q) + Net(c) /\ Lasting(q \o c) = (before + d) + Lasting(c)
        /\ Net(q) \in Int /\ Net(c) \in Int /\ Lasting(c) \in Nat
    BY <1>q, <2>2, MeasuresAdd, MeasuresTyped
  <2>5. written' = (written + Net(q)) + Net(c) /\ spent' = (spent + (before + d)) + Lasting(c)
    <3>a. PICK a \in Int, b \in Int, e \in Nat : a = Net(q) /\ b = Net(c) /\ e = Lasting(c)
      BY <2>4
    <3>1. written' = written + (a + b) /\ spent' = spent + ((before + d) + e)
      BY <2>1, <2>4, <3>a
    <3>2. written + (a + b) = (written + a) + b /\ spent + ((before + d) + e) = (spent + (before + d)) + e
      BY <1>1
    <3> QED
      BY <3>a, <3>1, <3>2
  <2>6. Kept((script \o q) \o c, (written + Net(q)) + Net(c), <<>>, wrongKeys, (spent + (before + d)) + Lasting(c), body \o PageOf(events))
    <3>1. mistake # <<>> /\ (spent + (before + d)) - mistake[1].madeAt >= CorrectionGap
      BY <1>2, <1>4, <1>d
    <3> QED
      BY <1>1, <1>3, <2>m, <2>c, <3>1, FixKeeps
  <2> QED
    BY <1>t, <2>1, <2>3, <2>5, <2>6
<1>5. CASE ~fixing
  <2>1. q \o <<>> = q
    BY ConcatEmptySeq
  <2>2. script' = script \o q /\ written' = written + Net(q) /\ spent' = spent + (before + d)
        /\ mistake' = [i \in DOMAIN mistake |-> [mistake[i] EXCEPT !.rests = @ - 1]]
    BY <1>t, <1>d, <1>g, <1>q, <1>5, <2>1
  <2>3. mistake # <<>> => mistake[1].rests > 1
    <3>1. mistake # <<>> => mistake[1].rests \in Nat
      BY <1>1, MistakeIs
    <3> QED
      BY <1>5, <3>1 DEF fixing
  <2>4. Kept(script', written', mistake', wrongKeys, spent', body \o PageOf(events))
    BY <1>3, <2>2, <2>3, WaitKeeps
  <2>5. force => mistake' = <<>>
    <3>1. CASE mistake = <<>>
      BY <2>2, <3>1
    <3>2. CASE mistake # <<>>
      BY <1>5, <3>2 DEF fixing
    <3> QED
      BY <3>1, <3>2
  <2> QED
    BY <1>t, <2>4, <2>5
<1> QED
  BY <1>4, <1>5

-----------------------------------------------------------------------------
(* The invariant of the planner. *)

PlanInv ==
  /\ PlanTypeOK /\ LeftOf(whole, tokens)
  /\ Kept(script, written, mistake, wrongKeys, spent, SaidOf(whole, tokens))
  /\ stage \in {"word", "keys"} => tokens # <<>> /\ Piece.word
  /\ stage \in {"trim", "stretch", "done"} => tokens = <<>> /\ mistake = <<>>
  /\ stage # "done" => target = 0
  /\ PlanEndsOnTime

\* What is left to show of a step that still types
Continues ==
  /\ UNCHANGED intent /\ stage \in {"next", "word", "keys"} /\ stage' \in {"next", "word", "keys", "trim"}
  /\ LeftOf(whole, tokens')
  /\ Kept(script', written', mistake', wrongKeys', spent', SaidOf(whole, tokens'))
  /\ burst' \in Nat /\ {laboured', stallOwed'} \subseteq BOOLEAN /\ (stallOwed' => laboured')
  /\ stage' \in {"word", "keys"} => tokens' # <<>> /\ Head(tokens').word
  /\ stage' = "trim" => tokens' = <<>> /\ mistake' = <<>>

\* The types of what is kept
LEMMA KeptTyped ==
  ASSUME NEW s, NEW n, NEW m, NEW keys, NEW time, NEW body, Kept(s, n, m, keys, time, body)
  PROVE  n \in Nat /\ time \in Nat /\ Len(m) <= 1 /\ m \in Seq(Mistake) /\ s \in Seq(PlanEvent)
<1>1. n = Len(PageOf(s)) /\ PageOf(s) \in Seq(Alphabet) /\ time \in Nat /\ Len(m) <= 1 /\ m \in Seq(Mistake)
      /\ s \in Seq(PlanEvent)
  BY DEF Kept, DraftOf
<1>2. \A q \in Seq(Alphabet) : Len(q) \in Nat
  OBVIOUS
<1> QED
  BY <1>1, <1>2

\* A step that goes on typing keeps the invariant.
LEMMA ContinuesKeeps == PlanInv /\ Continues => PlanInv'
<1> SUFFICES ASSUME PlanInv, Continues PROVE PlanInv'
  OBVIOUS
<1>1. whole' = whole /\ target' = target /\ target = 0 /\ whole \in Texts
      /\ stage' \in {"next", "word", "keys", "trim"}
  BY DEF PlanInv, Continues, intent, PlanTypeOK
<1>2. written' \in Nat /\ spent' \in Nat /\ Len(mistake') <= 1
  BY KeptTyped DEF Continues
<1>3. PlanTypeOK'
  BY <1>1, <1>2 DEF Continues, PlanTypeOK
<1>4. PlanEndsOnTime'
  BY <1>1 DEF PlanEndsOnTime
<1>5. stage' # "stretch" /\ stage' # "done"
  BY <1>1
<1> QED
  BY <1>1, <1>3, <1>4, <1>5 DEF Continues, PlanInv, Piece

\* What the texts are made of
LEMMA PieceIs ==
  ASSUME TextsAssumption, PlanInv, tokens # <<>>
  PROVE  /\ Piece = tokens[1] /\ Piece \in Token /\ Piece.chars \in Seq(Alphabet) /\ Piece.word \in BOOLEAN
         /\ ~Piece.word => Char \in Alphabet /\ Piece.chars = <<Char>> /\ Piece = Sign(Char)
         /\ LeftOf(whole, Tail(tokens))
         /\ SaidOf(whole, Tail(tokens)) = SaidOf(whole, tokens) \o Piece.chars
<1>1. LeftOf(whole, tokens) /\ whole \in Texts
  BY DEF PlanInv, PlanTypeOK
<1>2. /\ Piece \in Token /\ Piece = tokens[1] /\ LeftOf(whole, Tail(tokens))
      /\ SaidOf(whole, Tail(tokens)) = SaidOf(whole, tokens) \o Piece.chars
  BY <1>1, OneTaken DEF Piece
<1>3. Piece.chars \in Seq(Alphabet) /\ Piece.word \in BOOLEAN /\ Piece = [word |-> Piece.word, chars |-> Piece.chars]
  BY <1>2 DEF Token
<1>4. ~Piece.word => Len(Piece.chars) = 1
  <2>1. Len(tokens) \in Nat /\ Len(tokens) # 0 /\ Len(whole) \in Nat /\ Len(tokens) <= Len(whole)
    BY <1>1, EmptySeq DEF LeftOf
  <2>i. PICK i \in DOMAIN whole : i = (Len(whole) - Len(tokens)) + 1
    <3>1. DOMAIN whole = 1..Len(whole)
      BY <1>1 DEF LeftOf
    <3> QED
      BY <2>1, <3>1
  <2>2. tokens[1] = whole[i]
    <3>1. 1 \in 1..Len(tokens)
      BY <2>1
    <3> QED
      BY <1>1, <2>i, <3>1 DEF LeftOf
  <2>3. ~whole[i].word => Len(whole[i].chars) = 1
    BY <1>1 DEF TextsAssumption
  <2> QED
    BY <1>2, <2>2, <2>3
<1>5. ASSUME ~Piece.word PROVE Char \in Alphabet /\ Piece.chars = <<Char>> /\ Piece = Sign(Char)
  <2>s. PICK s \in Seq(Alphabet) : s = Piece.chars
    BY <1>3
  <2>1. Len(s) = 1
    BY <1>4, <1>5, <2>s
  <2>2. s[1] \in Alphabet /\ s = <<s[1]>>
    BY <2>1
  <2>3. Char = s[1]
    BY <2>s DEF Char
  <2>4. Piece.word = FALSE
    BY <1>3, <1>5
  <2> QED
    BY <1>3, <2>s, <2>2, <2>3, <2>4 DEF Sign
<1> QED
  BY <1>2, <1>3, <1>5

-----------------------------------------------------------------------------
(* Words *)

\* A rest at a word boundary keeps the invariant.
LEMMA BreakBurstKeeps == PlanAssumption /\ PlanInv /\ BreakBurst => PlanInv'
<1> SUFFICES ASSUME PlanAssumption, PlanInv, BreakBurst PROVE PlanInv'
  OBVIOUS
<1>t. PICK body : body = SaidOf(whole, tokens)
  OBVIOUS
<1>0. <<>> \in Seq(Quiet) /\ PageOf(<<>>) = <<>> /\ FALSE \in BOOLEAN /\ body \in Seq(Alphabet)
  <2>1. <<>> \in Seq(Quiet)
    OBVIOUS
  <2>2. body \in Seq(Alphabet)
    BY <1>t, SaidTyped DEF PlanInv
  <2> QED
    BY <2>1, <2>2, EventMeasured
<1>1. /\ Kept(script', written', mistake', wrongKeys, spent', body \o <<>>)
      /\ burst' = 0 /\ laboured' \in BOOLEAN /\ stallOwed' = laboured'
  <2>1. Kept(script, written, mistake, wrongKeys, spent, body) /\ RestAfter(<<>>, FALSE)
    BY <1>t DEF PlanInv, BreakBurst
  <2> QED
    BY <1>0, <2>1, RestKeeps
<1>2. body \o <<>> = body
  BY <1>0, ConcatEmptySeq
<1>3. Continues
  BY <1>t, <1>1, <1>2 DEF Continues, PlanInv, BreakBurst, AtWord, Piece
<1> QED
  BY <1>3, ContinuesKeeps

\* No rest, no change to the plan
LEMMA NoBreakKeeps == PlanInv /\ NoBreak => PlanInv'
<1> SUFFICES ASSUME PlanInv, NoBreak PROVE PlanInv'
  OBVIOUS
<1>1. Continues
  BY DEF Continues, PlanInv, PlanTypeOK, NoBreak, AtWord, Piece, draft, mood
<1> QED
  BY <1>1, ContinuesKeeps

\* A pause or none
LEMMA MaybeGap ==
  ASSUME NEW times \in SUBSET Nat, NEW think \in Maybe(times)
  PROVE  think \in Seq(Gap)
<1>1. <<>> \in Seq(Gap) /\ \A t \in times : <<Still(t)>> \in Seq(Gap)
  <2>1. \A t \in times : Still(t) \in Gap
    BY PauseIs
  <2> QED
    BY <2>1
<1> QED
  BY <1>1 DEF Maybe

\* A stall and a thought before a word are pauses.
LEMMA BeforeWordKeeps == PlanAssumption /\ PlanInv /\ BeforeWord => PlanInv'
<1> SUFFICES ASSUME PlanAssumption, PlanInv, BeforeWord PROVE PlanInv'
  OBVIOUS
<1>t. PICK body : body = SaidOf(whole, tokens)
  OBVIOUS
<1>s. PICK stall \in {<<>>} \cup {<<Stalled(t)>> : t \in StallTimes}, think \in Maybe(ThinkTimes) :
        stallOwed' = (stallOwed /\ stall = <<>>) /\ Appended(stall \o think, burst)
  BY DEF BeforeWord
<1>1. stall \in Seq(Gap) /\ think \in Seq(Gap)
  <2>1. \A t \in StallTimes : t \in Nat /\ Stalled(t) \in Gap
    BY PauseIs DEF PlanAssumption
  <2>2. <<>> \in Seq(Gap) /\ \A t \in StallTimes : <<Stalled(t)>> \in Seq(Gap)
    BY <2>1
  <2>3. ThinkTimes \in SUBSET Nat
    BY DEF PlanAssumption
  <2> QED
    BY <2>2, <2>3, MaybeGap
<1>r. PICK r \in Seq(Quiet) : r = stall \o think /\ PageOf(r) = <<>>
  <2>1. stall \o think \in Seq(Gap)
    BY <1>1, ConcatProperties
  <2> QED
    BY <2>1, NothingTyped
<1>2. Kept(script', written', mistake', wrongKeys', spent', body \o <<>>) /\ burst' = burst
  <2>1. Kept(script, written, mistake, wrongKeys, spent, body) /\ Appended(r, burst)
        /\ mistake' = mistake /\ wrongKeys' = wrongKeys
    BY <1>t, <1>s, <1>r DEF PlanInv, BeforeWord
  <2> QED
    BY <1>r, <2>1, AppendKeeps
<1>3. body \o <<>> = body
  <2>1. body \in Seq(Alphabet)
    BY <1>t, SaidTyped DEF PlanInv
  <2> QED
    BY <2>1, ConcatEmptySeq
<1>4. Kept(script', written', mistake', wrongKeys', spent', body) /\ burst' = burst
  BY <1>2, <1>3
<1>5. stallOwed' \in BOOLEAN /\ (stallOwed' => laboured') /\ laboured' \in BOOLEAN
  BY <1>s, Zenon DEF PlanInv, PlanTypeOK, BeforeWord
<1>6. Continues
  BY <1>t, <1>4, <1>5 DEF Continues, PlanInv, PlanTypeOK, BeforeWord, Piece
<1> QED
  BY <1>6, ContinuesKeeps

\* laboured and stallOwed as they were
LEMMA MoodStays ==
  ASSUME PlanInv, UNCHANGED mood
  PROVE  {laboured', stallOwed'} \subseteq BOOLEAN /\ (stallOwed' => laboured')
BY DEF PlanInv, PlanTypeOK, mood

\* A word typed as it is
LEMMA TypeWordKeeps == TextsAssumption /\ PlanInv /\ TypeWord => PlanInv'
<1> SUFFICES ASSUME TextsAssumption, PlanInv, TypeWord PROVE PlanInv'
  OBVIOUS
<1>t. PICK body : body = SaidOf(whole, tokens)
  OBVIOUS
<1>1. tokens # <<>> /\ tokens' = Tail(tokens) /\ Typed(Piece.chars) /\ stage = "keys" /\ stage' = "next"
      /\ UNCHANGED <<intent, mood, mistake, wrongKeys>>
  BY DEF PlanInv, TypeWord, Taken
<1>w. PICK w \in Seq(Alphabet) : w = Piece.chars /\ SaidOf(whole, tokens') = body \o w /\ LeftOf(whole, tokens')
  BY <1>t, <1>1, PieceIs
<1>2. Strokes(w) \in Seq(Quiet) /\ PageOf(Strokes(w)) = w /\ Len(w) \in Nat
  BY StrokesType, EventSeqs
<1>3. Kept(script', written', mistake', wrongKeys', spent', body \o w) /\ burst' = burst + Len(w)
  <2>1. Kept(script, written, mistake, wrongKeys, spent, body) /\ Appended(Strokes(w), burst + Len(w))
    BY <1>t, <1>1, <1>w DEF PlanInv, Typed
  <2> QED
    BY <1>1, <1>2, <2>1, AppendKeeps
<1>4. {laboured', stallOwed'} \subseteq BOOLEAN /\ (stallOwed' => laboured') /\ burst' \in Nat
  <2>1. burst \in Nat
    BY DEF PlanInv, PlanTypeOK
  <2> QED
    BY <1>1, <1>2, <1>3, <2>1, MoodStays
<1>5. wrongKeys' = wrongKeys /\ UNCHANGED intent
  BY <1>1
<1>6. Continues
  BY <1>1, <1>w, <1>3, <1>4, <1>5 DEF Continues
<1> QED
  BY <1>6, ContinuesKeeps

-----------------------------------------------------------------------------
(* Marks *)

\* A step that types what it takes
LEMMA AppendContinues ==
  ASSUME PlanInv, NEW r \in Seq(Quiet), NEW chars \in Nat, Appended(r, chars),
         UNCHANGED <<intent, mood, mistake, wrongKeys>>, stage = "next", stage' = "next",
         LeftOf(whole, tokens'), SaidOf(whole, tokens') = SaidOf(whole, tokens) \o PageOf(r)
  PROVE  PlanInv'
<1>t. PICK body : body = SaidOf(whole, tokens)
  OBVIOUS
<1>1. UNCHANGED intent /\ UNCHANGED mood /\ mistake' = mistake /\ wrongKeys' = wrongKeys
  OBVIOUS
<1>2. Kept(script', written', mistake', wrongKeys', spent', body \o PageOf(r)) /\ burst' = chars
  <2>1. Kept(script, written, mistake, wrongKeys, spent, body)
    BY <1>t DEF PlanInv
  <2> QED
    BY <1>1, <2>1, AppendKeeps
<1>3. Continues
  <2>1. {laboured', stallOwed'} \subseteq BOOLEAN /\ (stallOwed' => laboured')
    BY <1>1, MoodStays
  <2> QED
    BY <1>t, <1>1, <1>2, <2>1 DEF Continues
<1> QED
  BY <1>3, ContinuesKeeps

\* and rests
LEMMA RestContinues ==
  ASSUME PlanAssumption, PlanInv, NEW r \in Seq(Quiet), RestAfter(r, FALSE),
         UNCHANGED <<intent, wrongKeys>>, stage = "next", stage' = "next",
         LeftOf(whole, tokens'), SaidOf(whole, tokens') = SaidOf(whole, tokens) \o PageOf(r)
  PROVE  PlanInv'
<1>t. PICK body : body = SaidOf(whole, tokens)
  OBVIOUS
<1>1. UNCHANGED intent /\ wrongKeys' = wrongKeys
  OBVIOUS
<1>2. /\ Kept(script', written', mistake', wrongKeys, spent', body \o PageOf(r))
      /\ burst' = 0 /\ laboured' \in BOOLEAN /\ stallOwed' = laboured'
  <2>1. Kept(script, written, mistake, wrongKeys, spent, body)
    BY <1>t DEF PlanInv
  <2> QED
    BY <1>1, <2>1, RestKeeps
<1>3. Continues
  BY <1>t, <1>1, <1>2 DEF Continues
<1> QED
  BY <1>3, ContinuesKeeps

\* The mark taken
LEMMA MarkIs ==
  ASSUME TextsAssumption, PlanInv, AtMark, Taken
  PROVE  /\ Char \in Alphabet /\ burst + 1 \in Nat /\ stage = "next"
         /\ LeftOf(whole, tokens') /\ SaidOf(whole, tokens') = SaidOf(whole, tokens) \o <<Char>>
<1>1. tokens # <<>> /\ ~Piece.word /\ tokens' = Tail(tokens) /\ stage = "next"
  BY DEF AtMark, Taken
<1>2. burst + 1 \in Nat
  BY DEF PlanInv, PlanTypeOK
<1> QED
  BY <1>1, <1>2, PieceIs

\* A mark typed as it is
LEMMA TypeMarkKeeps == TextsAssumption /\ PlanInv /\ TypeMark => PlanInv'
<1> SUFFICES ASSUME TextsAssumption, PlanInv, TypeMark PROVE PlanInv'
  OBVIOUS
<1>1. /\ Char \in Alphabet /\ burst + 1 \in Nat /\ stage = "next"
      /\ LeftOf(whole, tokens') /\ SaidOf(whole, tokens') = SaidOf(whole, tokens) \o <<Char>>
  BY MarkIs DEF TypeMark
<1>2. stage' = "next" /\ UNCHANGED <<intent, mood, mistake, wrongKeys>>
  BY <1>1 DEF TypeMark
<1>3. Strokes(<<Char>>) \in Seq(Quiet) /\ PageOf(Strokes(<<Char>>)) = <<Char>>
  BY <1>1, MarkTypes
<1>4. Appended(Strokes(<<Char>>), burst + 1)
  BY DEF TypeMark, Typed
<1> QED
  BY <1>1, <1>2, <1>3, <1>4, AppendContinues

\* A comma, and a thought after it
LEMMA TypeClauseKeeps == PlanAssumption /\ TextsAssumption /\ PlanInv /\ TypeClause => PlanInv'
<1> SUFFICES ASSUME PlanAssumption, TextsAssumption, PlanInv, TypeClause PROVE PlanInv'
  OBVIOUS
<1>1. /\ Char \in Alphabet /\ burst + 1 \in Nat /\ stage = "next"
      /\ LeftOf(whole, tokens') /\ SaidOf(whole, tokens') = SaidOf(whole, tokens) \o <<Char>>
  BY MarkIs DEF TypeClause
<1>2. stage' = "next" /\ UNCHANGED <<intent, mood, mistake, wrongKeys>>
  BY <1>1 DEF TypeClause
<1>3. PICK think \in Maybe(ThinkTimes) : Appended(<<Stroke(Char), Still(1)>> \o think, burst + 1)
  BY DEF TypeClause
<1>r. PICK r \in Seq(Quiet) : r = <<Stroke(Char), Still(1)>> \o think /\ PageOf(r) = <<Char>>
  <2>1. think \in Seq(Gap)
    BY MaybeGap DEF PlanAssumption
  <2> QED
    BY <1>1, <2>1, MarkTypes
<1>4. Appended(r, burst + 1) /\ SaidOf(whole, tokens') = SaidOf(whole, tokens) \o PageOf(r)
  BY <1>1, <1>3, <1>r
<1> QED
  BY <1>1, <1>2, <1>4, AppendContinues

\* The end of a sentence the burst goes on after
LEMMA EndShortSentenceKeeps == PlanAssumption /\ TextsAssumption /\ PlanInv /\ EndShortSentence => PlanInv'
<1> SUFFICES ASSUME PlanAssumption, TextsAssumption, PlanInv, EndShortSentence PROVE PlanInv'
  OBVIOUS
<1>1. /\ Char \in Alphabet /\ burst + 1 \in Nat /\ stage = "next"
      /\ LeftOf(whole, tokens') /\ SaidOf(whole, tokens') = SaidOf(whole, tokens) \o <<Char>>
  BY MarkIs DEF EndShortSentence
<1>2. stage' = "next" /\ UNCHANGED <<intent, mood, mistake, wrongKeys>>
  BY <1>1 DEF EndShortSentence
<1>3. PICK think \in Maybe(ThinkTimes) : Appended(<<Stroke(Char), Still(1)>> \o think, burst + 1)
  BY DEF EndShortSentence
<1>r. PICK r \in Seq(Quiet) : r = <<Stroke(Char), Still(1)>> \o think /\ PageOf(r) = <<Char>>
  <2>1. think \in Seq(Gap)
    BY MaybeGap DEF PlanAssumption
  <2> QED
    BY <1>1, <2>1, MarkTypes
<1>4. Appended(r, burst + 1) /\ SaidOf(whole, tokens') = SaidOf(whole, tokens) \o PageOf(r)
  BY <1>1, <1>3, <1>r
<1> QED
  BY <1>1, <1>2, <1>4, AppendContinues

\* The end of a sentence the burst ends with
LEMMA EndSentenceKeeps == PlanAssumption /\ TextsAssumption /\ PlanInv /\ EndSentence => PlanInv'
<1> SUFFICES ASSUME PlanAssumption, TextsAssumption, PlanInv, EndSentence PROVE PlanInv'
  OBVIOUS
<1>1. /\ Char \in Alphabet /\ stage = "next"
      /\ LeftOf(whole, tokens') /\ SaidOf(whole, tokens') = SaidOf(whole, tokens) \o <<Char>>
  BY MarkIs DEF EndSentence
<1>2. stage' = "next" /\ UNCHANGED <<intent, wrongKeys>>
  BY <1>1 DEF EndSentence
<1>r. PICK r \in Seq(Quiet) : r = <<Stroke(Char), Still(1)>> /\ PageOf(r) = <<Char>>
  BY <1>1, MarkTypes
<1>4. RestAfter(r, FALSE) /\ SaidOf(whole, tokens') = SaidOf(whole, tokens) \o PageOf(r)
  BY <1>1, <1>r DEF EndSentence
<1> QED
  BY <1>1, <1>2, <1>4, RestContinues

\* The line breaks taken
LEMMA BreaksAre ==
  ASSUME TextsAssumption, PlanInv, AtMark, Char = "\n", Skipped
  PROVE  /\ Breaks \in Seq(Quiet) /\ burst + BreakRun \in Nat /\ stage = "next" /\ LeftOf(whole, tokens')
         /\ SaidOf(whole, tokens') = SaidOf(whole, tokens) \o PageOf(Breaks)
<1>1. tokens # <<>> /\ ~Piece.word /\ stage = "next" /\ LeftOf(whole, tokens) /\ tokens \in Seq(Token)
  BY DEF AtMark, PlanInv, LeftOf
<1>2. tokens[1] = Sign("\n")
  BY <1>1, PieceIs
<1>n. PICK n \in 1..Len(tokens) : n = BreakRun /\ \A i \in 1..n : tokens[i] = Sign("\n")
  BY <1>1, <1>2, RunIs DEF BreakRun
<1>l. PICK l \in Seq(Alphabet) : l = [i \in 1..n |-> "\n"] /\ Len(l) = n
        /\ LeftOf(whole, tokens') /\ SaidOf(whole, tokens') = SaidOf(whole, tokens) \o l
  <2>1. tokens' = SubSeq(tokens, n + 1, Len(tokens))
    BY <1>n DEF Skipped
  <2>l. PICK l : l = [i \in 1..n |-> "\n"]
    OBVIOUS
  <2>2. /\ LeftOf(whole, SubSeq(tokens, n + 1, Len(tokens))) /\ l \in Seq(Alphabet) /\ Len(l) = n
        /\ SaidOf(whole, SubSeq(tokens, n + 1, Len(tokens))) = SaidOf(whole, tokens) \o l
    <3>1. LeftOf(whole, tokens) /\ AllBreaks(tokens, n)
      BY <1>1, <1>n DEF AllBreaks
    <3>2. RunSaid(whole, tokens, n)
      BY <3>1, RunTaken
    <3> QED
      BY <2>l, <3>2 DEF RunSaid
  <2> QED
    BY <2>1, <2>l, <2>2
<1>3. Breaks = Strokes(l) \o <<Still(1)>>
  BY <1>n, <1>l DEF Breaks
<1>4. Breaks \in Seq(Quiet) /\ PageOf(Breaks) = l
  <2>1. <<Still(1)>> \in Seq(Gap)
    <3>1. Still(1) \in Gap
      BY PauseIs
    <3> QED
      BY <3>1
  <2> QED
    BY <1>3, <2>1, KeysThenGaps
<1>5. burst + BreakRun \in Nat
  BY <1>n DEF PlanInv, PlanTypeOK
<1> QED
  BY <1>1, <1>l, <1>4, <1>5

\* The end of a paragraph the burst ends with
LEMMA EndParagraphKeeps == PlanAssumption /\ TextsAssumption /\ PlanInv /\ EndParagraph => PlanInv'
<1> SUFFICES ASSUME PlanAssumption, TextsAssumption, PlanInv, EndParagraph PROVE PlanInv'
  OBVIOUS
<1>1. /\ Breaks \in Seq(Quiet) /\ stage = "next" /\ LeftOf(whole, tokens')
      /\ SaidOf(whole, tokens') = SaidOf(whole, tokens) \o PageOf(Breaks)
  BY BreaksAre DEF EndParagraph
<1>2. stage' = "next" /\ UNCHANGED <<intent, wrongKeys>> /\ RestAfter(Breaks, FALSE)
  BY <1>1 DEF EndParagraph
<1> QED
  BY <1>1, <1>2, RestContinues

\* Line breaks the burst goes on after
LEMMA BreakLineKeeps == TextsAssumption /\ PlanInv /\ BreakLine => PlanInv'
<1> SUFFICES ASSUME TextsAssumption, PlanInv, BreakLine PROVE PlanInv'
  OBVIOUS
<1>1. /\ Breaks \in Seq(Quiet) /\ burst + BreakRun \in Nat /\ stage = "next" /\ LeftOf(whole, tokens')
      /\ SaidOf(whole, tokens') = SaidOf(whole, tokens) \o PageOf(Breaks)
  BY BreaksAre DEF BreakLine
<1>2. stage' = "next" /\ UNCHANGED <<intent, mood, mistake, wrongKeys>> /\ Appended(Breaks, burst + BreakRun)
  BY <1>1 DEF BreakLine
<1> QED
  BY <1>1, <1>2, AppendContinues

-----------------------------------------------------------------------------
(* A word with a mistake *)

\* planTypo puts its mistake in the word, and types characters of the alphabet.
LEMMA MistakesAre ==
  ASSUME NEW w \in Seq(Alphabet), NEW m \in Mistakes(w)
  PROVE  /\ m.at \in 2..Len(w) /\ m.consumed \in {1, 2} /\ m.at + m.consumed <= Len(w) + 1
         /\ m.wrong \in Seq(Alphabet) /\ Len(m.wrong) \in 1..2
<1>1. \A i \in 1..Len(w) : w[i] \in Alphabet
  OBVIOUS
<1>2. "*" \in Alphabet
  BY DEF Alphabet
<1>i. PICK i \in 2..Len(w) :
        \/ m = [at |-> i, consumed |-> 1, wrong |-> <<w[i], w[i]>>]
        \/ m = [at |-> i, consumed |-> 1, wrong |-> <<"*">>]
        \/ i < Len(w) /\ m = [at |-> i, consumed |-> 2, wrong |-> <<w[i + 1], w[i]>>]
  BY DEF Mistakes
<1>3. i \in 1..Len(w) /\ i + 1 <= Len(w) + 1 /\ (i < Len(w) => i + 1 \in 1..Len(w) /\ i + 2 <= Len(w) + 1)
  OBVIOUS
<1>4. w[i] \in Alphabet /\ (i < Len(w) => w[i + 1] \in Alphabet)
  BY <1>1, <1>3
<1>5. \A a, b \in Alphabet : /\ <<a, b>> \in Seq(Alphabet) /\ Len(<<a, b>>) = 2
                             /\ <<a>> \in Seq(Alphabet) /\ Len(<<a>>) = 1
  OBVIOUS
<1>6. CASE m = [at |-> i, consumed |-> 1, wrong |-> <<w[i], w[i]>>]
  BY <1>3, <1>4, <1>5, <1>6
<1>7. CASE m = [at |-> i, consumed |-> 1, wrong |-> <<"*">>]
  BY <1>2, <1>3, <1>5, <1>7
<1>8. CASE i < Len(w) /\ m = [at |-> i, consumed |-> 2, wrong |-> <<w[i + 1], w[i]>>]
  BY <1>3, <1>4, <1>5, <1>8
<1> QED
  BY <1>i, <1>6, <1>7, <1>8

\* The word before, in and after the mistake
LEMMA WordSplits ==
  ASSUME NEW w \in Seq(Alphabet), NEW a \in 1..Len(w), NEW c \in Nat, a + c <= Len(w) + 1
  PROVE  /\ SubSeq(w, 1, a - 1) \in Seq(Alphabet) /\ Len(SubSeq(w, 1, a - 1)) = a - 1
         /\ SubSeq(w, a, a + c - 1) \in Seq(Alphabet)
         /\ SubSeq(w, a + c, Len(w)) \in Seq(Alphabet)
         /\ (SubSeq(w, 1, a - 1) \o SubSeq(w, a, a + c - 1)) \o SubSeq(w, a + c, Len(w)) = w
<1>l. PICK l \in Nat : l = Len(w)
  OBVIOUS
<1>1. \A i \in 1..l : w[i] \in Alphabet
  BY <1>l
<1>k. PICK k \in 0..l, n \in 0..l : n >= k /\ k = a - 1 /\ n = a + c - 1
  <2>1. a \in Nat /\ 1 <= a /\ a <= l /\ a + c <= l + 1
    BY <1>l
  <2>2. a - 1 \in 0..l /\ a + (c - 1) \in 0..l /\ a + (c - 1) >= a - 1
    BY <2>1
  <2> QED
    BY <2>2
<1>2. k + 1 = a /\ n + 1 = a + c
  BY <1>k
<1>3. SubSeq(w, 1, k) \o SubSeq(w, k + 1, n) = SubSeq(w, 1, n)
  <2>1. 1 \in 1..(l + 1) /\ k \in (1 - 1)..l /\ n \in k..l
    BY <1>k
  <2> QED
    BY <1>l, <2>1, ConcatAdjacentSubSeq
<1>4. SubSeq(w, 1, n) \o SubSeq(w, n + 1, l) = SubSeq(w, 1, l)
  <2>1. 1 \in 1..(l + 1) /\ n \in (1 - 1)..l /\ l \in n..l
    BY <1>k
  <2> QED
    BY <1>l, <2>1, ConcatAdjacentSubSeq
<1>5. SubSeq(w, 1, l) = w
  BY <1>l, SubSeqFull
<1>6. SubSeq(w, 1, k) \in Seq(Alphabet) /\ Len(SubSeq(w, 1, k)) = k
  <2>1. \A i \in 1..k : w[i] \in Alphabet
    BY <1>1
  <2>2. SubSeq(w, 1, k) \in Seq(Alphabet) /\ Len(SubSeq(w, 1, k)) = IF 1 <= k THEN k - 1 + 1 ELSE 0
    BY <2>1, SubSeqProperties
  <2> QED
    BY <2>2
<1>7. SubSeq(w, a, n) \in Seq(Alphabet)
  <2>1. \A i \in a..n : w[i] \in Alphabet
    BY <1>1
  <2> QED
    BY <2>1, SubSeqProperties
<1>8. SubSeq(w, n + 1, l) \in Seq(Alphabet)
  <2>1. \A i \in (n + 1)..l : w[i] \in Alphabet
    BY <1>1
  <2> QED
    BY <2>1, SubSeqProperties
<1> QED
  BY <1>l, <1>k, <1>2, <1>3, <1>4, <1>5, <1>6, <1>7, <1>8

\* The wrong keys keep the plan, with their mistake to put right.
LEMMA FumbleKeeps ==
  ASSUME NEW s, NEW n, NEW keys, NEW time, NEW body, Kept(s, n, <<>>, keys, time, body),
         NEW u \in Seq(Alphabet), NEW wrong \in Seq(Alphabet), NEW mk \in Mistake,
         mk.offset = n + Len(u), mk.remove = Len(wrong), mk.madeAt = time + Len(u \o wrong) + 1
  PROVE  LET k == Strokes(u \o wrong)
         IN Kept(s \o k, n + Net(k), <<mk>>, Append(keys, Len(s) + Len(u \o wrong)), time + Lasting(k),
                 (body \o u) \o mk.insert)
<1>1. DraftOf(s, n, <<>>, body) /\ SeenOf(s, keys, <<>>, time) /\ time \in Nat /\ time \in Int
  BY DEF Kept
<1>k. PICK k \in Seq(Quiet) : k = Strokes(u \o wrong) /\ Len(k) = Len(u \o wrong) /\ Lasting(k) = Len(u \o wrong) /\ Lasting(k) \in Nat
  <2>1. u \o wrong \in Seq(Alphabet)
    BY ConcatProperties
  <2>2. Strokes(u \o wrong) \in Seq(Quiet)
    BY <2>1, StrokesType, EventSeqs
  <2>3. Strokes(u \o wrong) \in Seq(PlanEvent)
    BY <2>2, EventSeqs
  <2> QED
    BY <2>1, <2>2, <2>3, StrokesType, MeasuresTyped
<1>2. DraftOf(s \o k, n + Net(k), <<mk>>, (body \o u) \o mk.insert)
  BY <1>1, <1>k, FumbleKeepsDraft
<1>3. SeenOf(s \o k, Append(keys, Len(s) + Len(k)), <<mk>>, time + Lasting(k))
  <2>1. mk.madeAt > time + Lasting(k)
    BY <1>1, <1>k
  <2> QED
    BY <1>1, <2>1, FumbleKeepsSeen
<1>4. time + Lasting(k) \in Nat
  BY <1>1, <1>k
<1> QED
  BY <1>k, <1>2, <1>3, <1>4 DEF Kept

\* A word with a mistake: what is typed and the mistake put right are the word.
LEMMA FumbleWordKeeps == TextsAssumption /\ PlanInv /\ FumbleWord => PlanInv'
<1> SUFFICES ASSUME TextsAssumption, PlanInv, FumbleWord PROVE PlanInv'
  OBVIOUS
<1>t. PICK body : body = SaidOf(whole, tokens)
  OBVIOUS
<1>1. tokens # <<>> /\ tokens' = Tail(tokens) /\ stage = "keys" /\ stage' = "next" /\ mistake = <<>>
      /\ UNCHANGED intent /\ UNCHANGED mood
  BY DEF PlanInv, FumbleWord, Taken, CanFumble
<1>w. PICK w \in Seq(Alphabet) : w = Piece.chars /\ SaidOf(whole, tokens') = body \o w /\ LeftOf(whole, tokens')
  BY <1>t, <1>1, PieceIs
<1>m. PICK m \in Mistakes(w), waits \in 1..2 :
       LET upTo == SubSeq(w, 1, m.at - 1) \o m.wrong
           after == SubSeq(w, m.at + m.consumed, Len(w))
       IN /\ Appended(Strokes(upTo) \o <<Still(1)>> \o Strokes(after), burst + Len(upTo \o after))
          /\ wrongKeys' = Append(wrongKeys, Len(script) + Len(upTo))
          /\ mistake' = <<[offset |-> written + m.at - 1, remove |-> Len(m.wrong),
                           insert |-> SubSeq(w, m.at, m.at + m.consumed - 1),
                           madeAt |-> spent + Len(upTo) + 1, rests |-> waits]>>
  BY <1>w DEF FumbleWord
<1>2. /\ m.at \in 1..Len(w) /\ m.consumed \in Nat /\ m.at + m.consumed <= Len(w) + 1
      /\ m.wrong \in Seq(Alphabet) /\ Len(m.wrong) \in 1..2
  BY MistakesAre
<1>u. PICK u \in Seq(Alphabet), ins \in Seq(Alphabet), aft \in Seq(Alphabet), wrong \in Seq(Alphabet) :
        /\ u = SubSeq(w, 1, m.at - 1) /\ Len(u) = m.at - 1 /\ ins = SubSeq(w, m.at, m.at + m.consumed - 1)
        /\ aft = SubSeq(w, m.at + m.consumed, Len(w)) /\ wrong = m.wrong /\ (u \o ins) \o aft = w
  <2>a. PICK a \in 1..Len(w), c \in Nat : a = m.at /\ c = m.consumed /\ a + c <= Len(w) + 1
    BY <1>2
  <2>1. /\ SubSeq(w, 1, a - 1) \in Seq(Alphabet) /\ Len(SubSeq(w, 1, a - 1)) = a - 1
        /\ SubSeq(w, a, a + c - 1) \in Seq(Alphabet)
        /\ SubSeq(w, a + c, Len(w)) \in Seq(Alphabet)
        /\ (SubSeq(w, 1, a - 1) \o SubSeq(w, a, a + c - 1)) \o SubSeq(w, a + c, Len(w)) = w
    BY <2>a, WordSplits
  <2> QED
    BY <1>2, <2>a, <2>1
<1>p. PICK upTo \in Seq(Alphabet) : upTo = u \o wrong
  BY ConcatProperties
<1>3. written \in Nat /\ spent \in Nat /\ burst \in Nat /\ script \in Seq(PlanEvent) /\ body \in Seq(Alphabet)
      /\ Kept(script, written, <<>>, wrongKeys, spent, body)
  BY <1>t, <1>1, SaidTyped, KeptTyped DEF PlanInv, PlanTypeOK
<1>k. PICK mk \in Mistake :
        mk = [offset |-> written + m.at - 1, remove |-> Len(m.wrong), insert |-> ins,
              madeAt |-> spent + Len(upTo) + 1, rests |-> waits]
  <2>1. written + m.at - 1 \in Nat /\ Len(m.wrong) \in Nat \ {0} /\ spent + Len(upTo) + 1 \in Nat /\ waits \in Nat
    <3>1. Len(m.wrong) \in Nat \ {0} /\ Len(upTo) \in Nat
      <4>n. PICK wr : wr = Len(m.wrong)
        OBVIOUS
      <4>1. wr \in 1..2
        BY <1>2, <4>n
      <4>2. wr \in Nat \ {0}
        BY <4>1
      <4>3. Len(upTo) \in Nat
        OBVIOUS
      <4> QED
        BY <4>n, <4>2, <4>3
    <3>2. waits \in Nat /\ m.at \in Nat /\ m.at >= 1
      BY <1>2
    <3>3. written + m.at - 1 \in Nat
      BY <1>3, <3>2
    <3>4. spent + Len(upTo) + 1 \in Nat
      BY <1>3, <3>1
    <3> QED
      BY <3>1, <3>2, <3>3, <3>4
  <2> QED
    BY <2>1 DEF Mistake
<1>4. mk.offset = written + Len(u) /\ mk.remove = Len(wrong) /\ mk.insert = ins /\ mk.madeAt = spent + Len(upTo) + 1
  BY <1>2, <1>3, <1>u, <1>k
<1>5. /\ Appended(Strokes(upTo) \o <<Still(1)>> \o Strokes(aft), burst + Len(upTo \o aft))
      /\ wrongKeys' = Append(wrongKeys, Len(script) + Len(upTo)) /\ mistake' = <<mk>>
  BY <1>m, <1>u, <1>p, <1>k
<1>s. PICK k \in Seq(Quiet) : k = Strokes(upTo) /\ k \in Seq(PlanEvent)
  <2>1. Strokes(upTo) \in Seq(Quiet)
    BY StrokesType, EventSeqs
  <2> QED
    BY <2>1, EventSeqs
<1>6. Kept(script \o k, written + Net(k), <<mk>>, wrongKeys', spent + Lasting(k), (body \o u) \o ins)
  BY <1>3, <1>4, <1>5, <1>p, <1>s, FumbleKeeps
<1>r. PICK r \in Seq(Quiet) : r = <<Still(1)>> \o Strokes(aft) /\ PageOf(r) = aft /\ r \in Seq(PlanEvent)
  <2>1. <<Still(1)>> \in Seq(Gap)
    <3>1. Still(1) \in Gap
      BY PauseIs
    <3> QED
      BY <3>1
  <2>2. <<Still(1)>> \in Seq(Quiet) /\ PageOf(<<Still(1)>>) = <<>> /\ <<Still(1)>> \in Seq(PlanEvent)
    BY <2>1, NothingTyped, EventSeqs
  <2>3. Strokes(aft) \in Seq(Quiet) /\ PageOf(Strokes(aft)) = aft
    BY StrokesType, EventSeqs
  <2>4. <<Still(1)>> \o Strokes(aft) \in Seq(Quiet)
    BY <2>2, <2>3, ConcatProperties
  <2>5. PageOf(<<Still(1)>> \o Strokes(aft)) = <<>> \o aft
    <3>1. <<>> \in Seq(Alphabet)
      OBVIOUS
    <3> QED
      BY <2>2, <2>3, <3>1, QuietAdds
  <2>6. <<>> \o aft = aft
    BY ConcatEmptySeq
  <2> QED
    BY <2>4, <2>5, <2>6, EventSeqs
<1>7. Kept((script \o k) \o r, (written + Net(k)) + Net(r), <<mk>>, wrongKeys', (spent + Lasting(k)) + Lasting(r),
           ((body \o u) \o ins) \o aft)
  BY <1>6, <1>r, QuietKeeps
<1>8. Strokes(upTo) \o <<Still(1)>> \o Strokes(aft) = k \o r
  <2>1. <<Still(1)>> \in Seq(PlanEvent) /\ Strokes(aft) \in Seq(PlanEvent)
    <3>1. Still(1) \in Gap
      BY PauseIs
    <3>2. <<Still(1)>> \in Seq(Gap)
      BY <3>1
    <3> QED
      BY <3>2, StrokesType, EventSeqs
  <2>2. Associate(k, <<Still(1)>>, Strokes(aft))
    BY <1>s, <2>1, Associative
  <2> QED
    BY <1>s, <1>r, <2>2 DEF Associate
<1>9. script' = script \o (k \o r) /\ written' = written + Net(k \o r) /\ spent' = spent + Lasting(k \o r)
      /\ burst' = burst + Len(upTo \o aft)
  BY <1>5, <1>8 DEF Appended
<1>10. script' = (script \o k) \o r
  <2>1. Associate(script, k, r)
    BY <1>3, <1>s, <1>r, Associative
  <2> QED
    BY <1>9, <2>1 DEF Associate
<1>11. written' = (written + Net(k)) + Net(r) /\ spent' = (spent + Lasting(k)) + Lasting(r)
  <2>1. Net(k \o r) = Net(k) + Net(r) /\ Lasting(k \o r) = Lasting(k) + Lasting(r)
    BY <1>s, <1>r, MeasuresAdd
  <2>a. PICK a \in Int, b \in Int, c \in Nat, d \in Nat : a = Net(k) /\ b = Net(r) /\ c = Lasting(k) /\ d = Lasting(r)
    BY <1>s, <1>r, MeasuresTyped
  <2>2. written + (a + b) = (written + a) + b /\ spent + (c + d) = (spent + c) + d
    BY <1>3
  <2> QED
    BY <1>9, <2>1, <2>a, <2>2
<1>12. ((body \o u) \o ins) \o aft = body \o w
  <2>a. PICK a \in Seq(Alphabet), b \in Seq(Alphabet) : a = body \o u /\ b = ins \o aft
    BY <1>3, ConcatProperties
  <2>1. Associate(a, ins, aft) /\ Associate(body, u, b) /\ Associate(u, ins, aft)
    BY <1>3, Associative
  <2> QED
    BY <1>u, <2>a, <2>1 DEF Associate
<1>13. Kept(script', written', mistake', wrongKeys', spent', SaidOf(whole, tokens'))
  BY <1>5, <1>7, <1>10, <1>11, <1>12, <1>w
<1>14. burst' \in Nat
  <2>1. upTo \o aft \in Seq(Alphabet)
    BY ConcatProperties
  <2>2. Len(upTo \o aft) \in Nat
    BY <2>1
  <2> QED
    BY <1>3, <1>9, <2>2
<1>15. {laboured', stallOwed'} \subseteq BOOLEAN /\ (stallOwed' => laboured')
  BY <1>1, MoodStays
<1>16. Continues
  BY <1>1, <1>w, <1>13, <1>14, <1>15 DEF Continues
<1> QED
  BY <1>16, ContinuesKeeps

-----------------------------------------------------------------------------
(* The end of the plan *)

\* The last look puts right what is outstanding.
LEMMA LastLookKeeps == PlanAssumption /\ PlanInv /\ LastLook => PlanInv'
<1> SUFFICES ASSUME PlanAssumption, PlanInv, LastLook PROVE PlanInv'
  OBVIOUS
<1>1. stage = "next" /\ tokens = <<>> /\ stage' = "trim" /\ UNCHANGED <<intent, tokens, wrongKeys>>
  BY DEF LastLook
<1>t. PICK body \in Seq(Alphabet) : body = SaidOf(whole, tokens)
  BY SaidTyped DEF PlanInv
<1>2. Kept(script, written, mistake, wrongKeys, spent, body) /\ LeftOf(whole, tokens)
  BY <1>t DEF PlanInv
<1>3. LeftOf(whole, tokens') /\ SaidOf(whole, tokens') = body /\ tokens' = <<>> /\ wrongKeys' = wrongKeys
      /\ UNCHANGED intent
  BY <1>1, <1>2, <1>t
<1>4. CASE mistake # <<>>
  <2>1. RestAfter(<<>>, TRUE) /\ TRUE \in BOOLEAN
    BY <1>4 DEF LastLook
  <2>2. <<>> \in Seq(Quiet)
    OBVIOUS
  <2>3. /\ Kept(script', written', mistake', wrongKeys, spent', body \o PageOf(<<>>))
        /\ burst' = 0 /\ laboured' \in BOOLEAN /\ stallOwed' = laboured' /\ mistake' = <<>>
    BY <1>2, <2>1, <2>2, RestKeeps
  <2>4. body \o PageOf(<<>>) = body
    BY EventMeasured, ConcatEmptySeq
  <2>5. Kept(script', written', mistake', wrongKeys', spent', SaidOf(whole, tokens'))
    BY <1>3, <2>3, <2>4
  <2>6. burst' \in Nat /\ {laboured', stallOwed'} \subseteq BOOLEAN /\ (stallOwed' => laboured')
    BY <2>3
  <2>7. Continues
    BY <1>1, <1>3, <2>3, <2>5, <2>6 DEF Continues
  <2> QED
    BY <2>7, ContinuesKeeps
<1>5. CASE mistake = <<>>
  <2>1. UNCHANGED <<draft, mood, mistake>>
    BY <1>5 DEF LastLook
  <2>2. mistake' = <<>> /\ script' = script /\ written' = written /\ spent' = spent /\ burst' = burst
        /\ laboured' = laboured /\ stallOwed' = stallOwed
    BY <1>5, <2>1 DEF draft, mood
  <2>3. Kept(script', written', mistake', wrongKeys', spent', SaidOf(whole, tokens'))
    BY <1>2, <1>3, <1>5, <2>2
  <2>4. burst' \in Nat /\ {laboured', stallOwed'} \subseteq BOOLEAN /\ (stallOwed' => laboured')
    BY <2>2 DEF PlanInv, PlanTypeOK
  <2>5. Continues
    BY <1>1, <1>3, <2>2, <2>3, <2>4 DEF Continues
  <2> QED
    BY <2>5, ContinuesKeeps
<1> QED
  BY <1>4, <1>5

\* What a step after the last key keeps
Settles ==
  /\ UNCHANGED <<whole, tokens, written, burst, spent, mood, mistake, wrongKeys>>
  /\ Kept(script', written, <<>>, wrongKeys, spent, SaidOf(whole, tokens))
  /\ target' \in Nat
  /\ \/ stage = "trim" /\ stage' = "stretch" /\ target' = 0
     \/ stage = "stretch" /\ stage' = "done"
  /\ PlanEndsOnTime'

\* Such a step keeps the invariant.
LEMMA SettlesKeeps == PlanInv /\ Settles => PlanInv'
<1> SUFFICES ASSUME PlanInv, Settles PROVE PlanInv'
  OBVIOUS
<1>1. /\ whole' = whole /\ tokens' = tokens /\ written' = written /\ burst' = burst /\ spent' = spent
      /\ laboured' = laboured /\ stallOwed' = stallOwed /\ mistake' = mistake /\ wrongKeys' = wrongKeys
  BY DEF Settles, mood
<1>2. tokens = <<>> /\ mistake = <<>> /\ stage' \in {"stretch", "done"} /\ (stage' # "done" => target' = 0)
  BY DEF PlanInv, Settles
<1>3. PlanTypeOK'
  BY <1>1, <1>2 DEF PlanInv, PlanTypeOK, Settles
<1>4. LeftOf(whole', tokens') /\ Kept(script', written', mistake', wrongKeys', spent', SaidOf(whole', tokens'))
  BY <1>1, <1>2 DEF PlanInv, Settles
<1>5. stage' # "word" /\ stage' # "keys"
  BY <1>2
<1> QED
  BY <1>1, <1>2, <1>3, <1>4, <1>5 DEF PlanInv, Settles

\* Trimming takes pauses off the end of the plan, and all of them.
LEMMA TrimKeeps == PlanInv /\ Trim => PlanInv'
<1> SUFFICES ASSUME PlanInv, Trim PROVE PlanInv'
  OBVIOUS
<1>1. stage = "trim" /\ stage' = "stretch" /\ script' = Trimmed /\ target' = target
      /\ UNCHANGED <<whole, tokens, written, burst, spent, mood, mistake, wrongKeys>>
  BY DEF Trim, intent
<1>2. mistake = <<>> /\ target = 0
  BY <1>1 DEF PlanInv
<1>t. PICK body : body = SaidOf(whole, tokens)
  OBVIOUS
<1>3. Kept(script, written, <<>>, wrongKeys, spent, body)
  BY <1>2, <1>t DEF PlanInv
<1>4. script \in Seq(PlanEvent)
  BY <1>3, KeptTyped
<1>p. PICK p \in Seq(PlanEvent), r \in Seq(Gap) :
        script' = p /\ script = p \o r /\ (p # <<>> => ~IsPause(Last(p)))
  BY <1>1, <1>4, TrimSplits DEF Trimmed
<1>5. Kept(p, written, <<>>, wrongKeys, spent, body)
  <2>1. DraftOf(p \o r, written, <<>>, body) /\ SeenOf(p \o r, wrongKeys, <<>>, spent) /\ spent \in Nat
    BY <1>3, <1>p DEF Kept
  <2>2. DraftOf(p, written, <<>>, body)
    BY <2>1, TrimKeepsDraft
  <2>3. SeenOf(p, wrongKeys, <<>>, spent)
    BY <2>1, TrimKeepsSeen
  <2> QED
    BY <2>1, <2>2, <2>3 DEF Kept
<1>6. PlanEndsOnTime'
  BY <1>1, <1>2, <1>p DEF PlanEndsOnTime
<1>7. Settles
  BY <1>1, <1>2, <1>t, <1>5, <1>6, <1>p DEF Settles
<1> QED
  BY <1>7, SettlesKeeps

\* A pause that lasts longer
LEMMA GapLengthened ==
  ASSUME NEW e \in Gap, NEW q \in Nat
  PROVE  LET g == [e EXCEPT !.floor = 0, !.ms = @ + q]
         IN g \in Gap /\ g.ms = e.ms + q /\ g.floor = 0 /\ g.rest = e.rest /\ IsPause(g)
<1>d. PICK d \in Nat : d = e.ms + q
  BY DEF Gap
<1>g. PICK g : g = [e EXCEPT !.floor = 0, !.ms = d]
  OBVIOUS
<1>1. g \in Gap
  BY <1>g DEF Gap
<1>2. g.ms = d /\ g.floor = 0 /\ g.rest = e.rest /\ g.type = e.type
  BY <1>g DEF Gap
<1>3. [e EXCEPT !.floor = 0, !.ms = @ + q] = [e EXCEPT !.floor = 0, !.ms = d]
  BY <1>d DEF Gap
<1>4. IsPause(g)
  BY <1>1, EventKinds DEF IsPause
<1> QED
  BY <1>d, <1>g, <1>1, <1>2, <1>3, <1>4

\* The plan r is s with the time q added to its pauses, and no pause may be cut short any more.
Lengthened(s, r, q) ==
  /\ r \in Seq(PlanEvent) /\ OnlyPauses(s, r)
  /\ \A i \in 1..Len(s) : /\ r[i].ms = s[i].ms + q[i] /\ s[i].ms <= r[i].ms
                          /\ IsPause(s[i]) <=> IsPause(r[i])
                          /\ IsPause(r[i]) => r[i].floor = 0 /\ r[i].rest = s[i].rest

\* applyTargetDuration adds the time q to the pauses of s.
TimeAdded(s, r, q) ==
  /\ \A i \in 1..Len(s) : ~IsPause(s[i]) => q[i] = 0
  /\ r = [i \in DOMAIN s |-> IF IsPause(s[i]) THEN [s[i] EXCEPT !.floor = 0, !.ms = @ + q[i]] ELSE s[i]]

\* It changes nothing but pauses.
LEMMA LengthenedPlan ==
  ASSUME NEW s \in Seq(PlanEvent), NEW q \in [1..Len(s) -> Nat],
         NEW r, TimeAdded(s, r, q)
  PROVE  Lengthened(s, r, q)
<1>1. Len(s) \in Nat /\ DOMAIN s = 1..Len(s) /\ \A i \in 1..Len(s) : s[i] \in PlanEvent /\ q[i] \in Nat
  <2>1. Len(s) \in Nat /\ DOMAIN s = 1..Len(s) /\ \A i \in 1..Len(s) : s[i] \in PlanEvent
    OBVIOUS
  <2>2. \A i \in 1..Len(s) : q[i] \in Nat
    OBVIOUS
  <2> QED
    BY <2>1, <2>2
<1>2. \A i \in 1..Len(s) : r[i] = IF IsPause(s[i]) THEN [s[i] EXCEPT !.floor = 0, !.ms = @ + q[i]] ELSE s[i]
  BY <1>1 DEF TimeAdded
<1>3. ASSUME NEW i \in 1..Len(s)
      PROVE  /\ r[i] \in PlanEvent /\ (r[i] = s[i] \/ (s[i] \in Gap /\ r[i] \in Gap))
             /\ r[i].ms = s[i].ms + q[i] /\ s[i].ms <= r[i].ms
             /\ IsPause(s[i]) <=> IsPause(r[i])
             /\ IsPause(r[i]) => r[i].floor = 0 /\ r[i].rest = s[i].rest
  <2>e. PICK e \in PlanEvent, n \in Nat : e = s[i] /\ n = q[i] /\ e.ms \in Nat /\ (IsPause(e) <=> e \in Gap)
    BY <1>1, EventKinds
  <2>1. CASE IsPause(e)
    <3>g. PICK g : g = [e EXCEPT !.floor = 0, !.ms = @ + n]
      OBVIOUS
    <3>1. g \in Gap /\ g.ms = e.ms + n /\ g.floor = 0 /\ g.rest = e.rest /\ IsPause(g)
      BY <2>e, <2>1, <3>g, GapLengthened
    <3>2. r[i] = g
      BY <1>2, <2>e, <2>1, <3>g
    <3>3. g \in PlanEvent /\ e.ms <= g.ms
      <4>1. g \in PlanEvent
        BY <3>1 DEF PlanEvent, Quiet
      <4>a. PICK a \in Nat : a = e.ms
        BY <2>e
      <4>2. a <= a + n
        BY <2>e
      <4> QED
        BY <3>1, <4>1, <4>a, <4>2
    <3> QED
      BY <2>e, <2>1, <3>1, <3>2, <3>3
  <2>2. CASE ~IsPause(e)
    <3>1. r[i] = e /\ n = 0
      BY <1>2, <2>e, <2>2 DEF TimeAdded
    <3>2. e.ms + n = e.ms /\ e.ms <= e.ms
      <4>a. PICK a \in Nat : a = e.ms
        BY <2>e
      <4>1. a + 0 = a /\ a <= a
        OBVIOUS
      <4> QED
        BY <3>1, <4>a, <4>1
    <3> QED
      BY <2>e, <2>2, <3>1, <3>2
  <2> QED
    BY <2>1, <2>2
<1>4. r \in Seq(PlanEvent) /\ Len(r) = Len(s)
  <2>1. \A i \in 1..Len(s) : r[i] \in PlanEvent
    BY <1>3
  <2>2. r = [i \in 1..Len(s) |-> r[i]]
    BY <1>1 DEF TimeAdded
  <2> QED
    BY <1>1, <2>1, <2>2
<1> QED
  BY <1>3, <1>4 DEF Lengthened, OnlyPauses

\* Weights: each rest has one, and nothing else.
LEMMA WeightIs ==
  ASSUME script \in Seq(PlanEvent), NEW u \in Weights
  PROVE  /\ u \in Seq(Nat) /\ Len(u) = Len(script) /\ Rests \subseteq 1..Len(script)
         /\ \A i \in 1..Len(script) : IF i \in Rests THEN u[i] >= 1 ELSE u[i] = 0
<1>1. Len(script) \in Nat /\ DOMAIN script = 1..Len(script)
  OBVIOUS
<1>w. PICK w \in [Rests -> 1..2] : u = [i \in DOMAIN script |-> IF i \in Rests THEN w[i] ELSE 0]
  BY DEF Weights
<1>2. \A i \in Rests : w[i] \in 1..2
  OBVIOUS
<1>3. \A i \in 1..Len(script) : u[i] \in Nat /\ IF i \in Rests THEN u[i] >= 1 ELSE u[i] = 0
  BY <1>1, <1>2, <1>w
<1>4. u \in Seq(Nat) /\ Len(u) = Len(script)
  <2>1. u = [i \in 1..Len(script) |-> u[i]]
    BY <1>1, <1>w
  <2> QED
    BY <1>1, <1>3, <2>1
<1>5. Rests \subseteq 1..Len(script)
  BY <1>1 DEF Rests
<1> QED
  BY <1>3, <1>4, <1>5

\* applyTargetDuration adds to each rest its share of the time that is missing.
LEMMA StretchedIs ==
  ASSUME script \in Seq(PlanEvent), NEW ms \in Nat, Stretched(ms)
  PROVE  \E q \in [1..Len(script) -> Nat], u \in Seq(Nat), extra \in Nat, sum \in Nat :
           /\ TimeAdded(script, script', q)
           /\ ms = Lasting(script) + extra /\ Rests # {} /\ target' = ms
           /\ Len(u) = Len(script) /\ Rests \subseteq 1..Len(script) /\ sum = FoldLeft(Plus, 0, u)
           /\ \A i \in 1..Len(script) : IF i \in Rests THEN u[i] >= 1 ELSE u[i] = 0
           /\ \A i \in 1..Len(script) : q[i] = Rounded(extra * u[i], sum)
<1>l. PICK l \in Nat : l = Lasting(script)
  BY MeasuresTyped
<1>e. PICK extra \in Nat : extra = ms - Lasting(script) /\ ms = Lasting(script) + extra
  <2>1. ms - l > 0
    BY <1>l DEF Stretched
  <2>2. ms - l \in Nat /\ ms = l + (ms - l)
    BY <2>1
  <2> QED
    BY <1>l, <2>2
<1>1. Rests # {} /\ target' = ms
  BY DEF Stretched
<1>u. PICK u \in Weights :
        LET share(i) == Rounded(extra * u[i], FoldLeft(Plus, 0, u))
        IN script' = [i \in DOMAIN script |->
             IF IsPause(script[i]) THEN [script[i] EXCEPT !.floor = FloorAfter(i), !.ms = @ + share(i)]
             ELSE script[i]]
  BY <1>e DEF Stretched
<1>2. /\ u \in Seq(Nat) /\ Len(u) = Len(script) /\ Rests \subseteq 1..Len(script)
      /\ \A i \in 1..Len(script) : IF i \in Rests THEN u[i] >= 1 ELSE u[i] = 0
  BY WeightIs
<1>t. PICK sum \in Nat \ {0} : sum = FoldLeft(Plus, 0, u)
  <2>1. Rests \in SUBSET (1..Len(u)) /\ \A i \in Rests : u[i] >= 1
    BY <1>2
  <2> QED
    BY <1>1, <1>2, <2>1, WeightsCount
<1>3. Len(script) \in Nat /\ DOMAIN script = 1..Len(script)
  OBVIOUS
<1>4. \A i \in 1..Len(script) : u[i] \in Nat
  BY <1>2
<1>5. \A i \in 1..Len(script) :
        Rounded(extra * u[i], sum) \in Nat /\ (u[i] = 0 => Rounded(extra * u[i], sum) = 0)
  <2> TAKE i \in 1..Len(script)
  <2>n. PICK n \in Nat : n = u[i]
    BY <1>4
  <2> QED
    BY <2>n, ShareIsClose
<1>q. PICK q \in [1..Len(script) -> Nat] : \A i \in 1..Len(script) : q[i] = Rounded(extra * u[i], sum)
  <2>1. [i \in 1..Len(script) |-> Rounded(extra * u[i], sum)] \in [1..Len(script) -> Nat]
    BY <1>5
  <2>2. \A i \in 1..Len(script) :
          [j \in 1..Len(script) |-> Rounded(extra * u[j], sum)][i] = Rounded(extra * u[i], sum)
    OBVIOUS
  <2> QED
    BY <2>1, <2>2
<1>6. TimeAdded(script, script', q)
  <2>1. \A i \in 1..Len(script) : ~IsPause(script[i]) => q[i] = 0
    <3>1. \A i \in 1..Len(script) : ~IsPause(script[i]) => i \notin Rests
      BY DEF Rests
    <3> QED
      BY <1>2, <1>5, <1>q, <3>1
  <2>2. script' = [i \in DOMAIN script |->
                     IF IsPause(script[i]) THEN [script[i] EXCEPT !.floor = 0, !.ms = @ + q[i]] ELSE script[i]]
    BY <1>3, <1>q, <1>t, <1>u DEF FloorAfter
  <2> QED
    BY <2>1, <2>2 DEF TimeAdded
<1>7. u \in Seq(Nat) /\ sum \in Nat
  BY <1>2, <1>t
<1> USE <1>7
<1> WITNESS q \in [1..Len(script) -> Nat], u \in Seq(Nat), extra \in Nat, sum \in Nat
<1> QED
  BY <1>1, <1>2, <1>6, <1>e, <1>q, <1>t

\* A plan with longer pauses is the same plan, resting and ending where it did.
LEMMA LengthenedKeeps ==
  ASSUME NEW s, NEW r, NEW q, NEW n, NEW keys, NEW time, NEW body, CorrectionGap \in Nat,
         Kept(s, n, <<>>, keys, time, body), Lengthened(s, r, q)
  PROVE  /\ Kept(r, n, <<>>, keys, time, body) /\ Len(r) = Len(s)
         /\ {i \in DOMAIN r : IsPause(r[i]) /\ r[i].rest} = {i \in DOMAIN s : IsPause(s[i]) /\ s[i].rest}
         /\ \A i \in DOMAIN r : IsPause(r[i]) => r[i].floor = 0
         /\ (s # <<>> => ~IsPause(Last(s))) => (r # <<>> => ~IsPause(Last(r)))
<1>1. s \in Seq(PlanEvent) /\ r \in Seq(PlanEvent) /\ OnlyPauses(s, r)
  BY KeptTyped DEF Lengthened
<1>2. Len(r) = Len(s) /\ Len(s) \in Nat /\ DOMAIN r = 1..Len(s) /\ DOMAIN s = 1..Len(s)
  BY <1>1 DEF OnlyPauses
<1>3. DraftOf(r, n, <<>>, body)
  BY <1>1, StretchKeepsDraft DEF Kept
<1>4. SeenOf(r, keys, <<>>, time)
  BY <1>1, StretchKeepsSeen DEF Kept, Lengthened
<1>5. {i \in DOMAIN r : IsPause(r[i]) /\ r[i].rest} = {i \in DOMAIN s : IsPause(s[i]) /\ s[i].rest}
  BY <1>2 DEF Lengthened
<1>6. \A i \in DOMAIN r : IsPause(r[i]) => r[i].floor = 0
  BY <1>2 DEF Lengthened
<1>7. ASSUME s # <<>> => ~IsPause(Last(s)), r # <<>> PROVE ~IsPause(Last(r))
  <2>1. Len(r) # 0
    BY <1>1, <1>7, EmptySeq
  <2>2. s # <<>> /\ Len(s) \in 1..Len(s)
    BY <1>1, <1>2, <2>1, EmptySeq
  <2> QED
    BY <1>2, <1>7, <2>2 DEF Lengthened, Last
<1> QED
  BY <1>2, <1>3, <1>4, <1>5, <1>6, <1>7 DEF Kept

\* The stretched plan lasts what was asked for, but for the rounding of its rests.
LEMMA StretchKeeps == PlanAssumption /\ PlanInv /\ Stretch => PlanInv'
<1> SUFFICES ASSUME PlanAssumption, PlanInv, Stretch PROVE PlanInv'
  OBVIOUS
<1>1. stage = "stretch" /\ stage' = "done"
      /\ UNCHANGED <<whole, tokens, written, burst, spent, mood, mistake, wrongKeys>>
  BY DEF Stretch
<1>t. PICK body : body = SaidOf(whole, tokens)
  OBVIOUS
<1>2. Kept(script, written, <<>>, wrongKeys, spent, body) /\ target = 0
      /\ (script # <<>> => ~IsPause(Last(script)))
  BY <1>1, <1>t DEF PlanInv, PlanEndsOnTime
<1>3. script \in Seq(PlanEvent)
  BY <1>2, KeptTyped
<1>4. CorrectionGap \in Nat /\ Targets \subseteq Nat
  BY DEF PlanAssumption
<1>5. ASSUME UNCHANGED <<script, target>> PROVE Settles
  <2>1. script' = script /\ target' = 0
    BY <1>2, <1>5
  <2>2. PlanEndsOnTime'
    BY <1>2, <2>1 DEF PlanEndsOnTime
  <2> QED
    BY <1>1, <1>2, <1>t, <2>1, <2>2 DEF Settles
<1>6. ASSUME NEW ms \in Targets, Stretched(ms) PROVE Settles
  <2>1. ms \in Nat
    BY <1>4
  <2>q. PICK q \in [1..Len(script) -> Nat], u \in Seq(Nat), extra \in Nat, sum \in Nat :
           /\ TimeAdded(script, script', q)
           /\ ms = Lasting(script) + extra /\ Rests # {} /\ target' = ms
           /\ Len(u) = Len(script) /\ Rests \subseteq 1..Len(script) /\ sum = FoldLeft(Plus, 0, u)
           /\ \A i \in 1..Len(script) : IF i \in Rests THEN u[i] >= 1 ELSE u[i] = 0
           /\ \A i \in 1..Len(script) : q[i] = Rounded(extra * u[i], sum)
    BY <1>3, <1>6, <2>1, StretchedIs
  <2>r. PICK r : r = script'
    OBVIOUS
  <2>2. Lengthened(script, r, q)
    BY <1>3, <2>q, <2>r, LengthenedPlan
  <2>3. /\ Kept(r, written, <<>>, wrongKeys, spent, body) /\ Len(r) = Len(script)
        /\ {i \in DOMAIN r : IsPause(r[i]) /\ r[i].rest} = Rests
        /\ \A i \in DOMAIN r : IsPause(r[i]) => r[i].floor = 0
        /\ r # <<>> => ~IsPause(Last(r))
    <3>1. /\ Kept(r, written, <<>>, wrongKeys, spent, body) /\ Len(r) = Len(script)
          /\ {i \in DOMAIN r : IsPause(r[i]) /\ r[i].rest} = {i \in DOMAIN script : IsPause(script[i]) /\ script[i].rest}
          /\ \A i \in DOMAIN r : IsPause(r[i]) => r[i].floor = 0
          /\ (script # <<>> => ~IsPause(Last(script))) => (r # <<>> => ~IsPause(Last(r)))
      BY <1>2, <1>4, <2>2, LengthenedKeeps
    <3> QED
      BY <1>2, <3>1 DEF Rests
  <2>4. Rests' = Rests
    BY <2>3, <2>r DEF Rests
  <2>5. Shares(script, r, u, Rests, extra, sum) /\ r \in Seq(PlanEvent)
    BY <2>2, <2>3, <2>q DEF Shares, Lengthened
  <2>6. /\ 2 * (Lasting(r) - ms) <= Cardinality(Rests)
        /\ -(2 * (Lasting(r) - ms)) <= Cardinality(Rests)
    BY <1>3, <2>5, <2>q, StretchedLasts
  <2>7. PlanEndsOnTime'
    BY <2>3, <2>4, <2>6, <2>q, <2>r DEF PlanEndsOnTime
  <2> QED
    BY <1>1, <1>t, <2>1, <2>3, <2>7, <2>q, <2>r DEF Settles
<1>7. Settles
  BY <1>5, <1>6 DEF Stretch
<1> QED
  BY <1>7, SettlesKeeps

-----------------------------------------------------------------------------
(* The planner's properties *)

\* Before the first piece nothing is typed and nothing is wrong.
LEMMA PlanStarts == TextsAssumption /\ PlanInit => PlanInv
<1> SUFFICES ASSUME TextsAssumption, PlanInit PROVE PlanInv
  OBVIOUS
<1>1. /\ whole \in Texts /\ tokens = whole /\ script = <<>> /\ written = 0 /\ burst = 0 /\ spent = 0
      /\ laboured \in BOOLEAN /\ stallOwed = laboured /\ mistake = <<>> /\ wrongKeys = <<>>
      /\ target = 0 /\ stage = "next"
  BY DEF PlanInit
<1>2. whole \in Seq(Token)
  BY <1>1 DEF TextsAssumption, Token
<1>3. LeftOf(whole, tokens) /\ SaidOf(whole, tokens) = <<>>
  BY <1>1, <1>2, SaidEnds
<1>4. PlanTypeOK
  <2>1. Len(mistake) <= 1
    BY <1>1
  <2> QED
    BY <1>1, <2>1 DEF PlanTypeOK
<1>5. RepairsIn(<<>>) = {} /\ Cardinality({}) = 0
  BY FS_EmptySet DEF RepairsIn
<1>6. /\ <<>> \in Seq(PlanEvent) /\ <<>> \in Seq(Alphabet) /\ <<>> \in Seq(Mistake) /\ <<>> \in Seq(Nat)
      /\ Len(<<>>) = 0
  OBVIOUS
<1>e. PICK s \in Seq(PlanEvent), k \in Seq(Nat), m \in Seq(Mistake), page \in Seq(Alphabet) :
        s = <<>> /\ k = <<>> /\ m = <<>> /\ page = <<>>
  BY <1>6
<1>m. /\ PageOf(s) = page /\ Net(s) = 0 /\ RepairsIn(s) = {} /\ Cardinality(RepairsIn(s)) = 0
      /\ Len(k) = 0 /\ Len(m) = 0 /\ Len(page) = 0
  BY <1>5, <1>6, <1>e, EventMeasured
<1>7. DraftOf(s, 0, m, page)
  <2>1. page = PutRight(PageOf(s), m)
    BY <1>e, <1>m DEF PutRight
  <2>2. RepairsInTurn(s) /\ \A h \in RepairsIn(s) : LengthAt(s, h) <= Reach(0, m)
    BY <1>m DEF RepairsInTurn
  <2>3. Len(m) <= 1 /\ ~(m # <<>>)
    BY <1>e, <1>m
  <2>4. s \in Seq(PlanEvent) /\ PageOf(s) \in Seq(Alphabet) /\ 0 = Len(PageOf(s)) /\ 0 = Net(s)
    BY <1>m
  <2> QED
    BY <2>1, <2>2, <2>3, <2>4 DEF DraftOf
<1>8. SeenOf(s, k, m, 0)
  BY <1>e, <1>m DEF SeenOf
<1>9. Kept(script, written, mistake, wrongKeys, spent, SaidOf(whole, tokens))
  BY <1>1, <1>3, <1>7, <1>8, <1>e DEF Kept
<1>10. PlanEndsOnTime
  BY <1>1 DEF PlanEndsOnTime
<1> QED
  BY <1>1, <1>3, <1>4, <1>9, <1>10 DEF PlanInv

\* Every step of the planner keeps its invariant.
LEMMA PlanStepKeeps == PlanAssumption /\ TextsAssumption /\ PlanInv /\ [PlanNext]_planvars => PlanInv'
<1> SUFFICES ASSUME PlanAssumption, TextsAssumption, PlanInv, [PlanNext]_planvars PROVE PlanInv'
  OBVIOUS
<1>1. CASE BreakBurst
  BY <1>1, BreakBurstKeeps
<1>2. CASE NoBreak
  BY <1>2, NoBreakKeeps
<1>3. CASE BeforeWord
  BY <1>3, BeforeWordKeeps
<1>4. CASE TypeWord
  BY <1>4, TypeWordKeeps
<1>5. CASE FumbleWord
  BY <1>5, FumbleWordKeeps
<1>6. CASE TypeMark
  BY <1>6, TypeMarkKeeps
<1>7. CASE TypeClause
  BY <1>7, TypeClauseKeeps
<1>8. CASE EndSentence
  BY <1>8, EndSentenceKeeps
<1>9. CASE EndShortSentence
  BY <1>9, EndShortSentenceKeeps
<1>10. CASE EndParagraph
  BY <1>10, EndParagraphKeeps
<1>11. CASE BreakLine
  BY <1>11, BreakLineKeeps
<1>12. CASE LastLook
  BY <1>12, LastLookKeeps
<1>13. CASE Trim
  BY <1>13, TrimKeeps
<1>14. CASE Stretch
  BY <1>14, StretchKeeps
<1>15. CASE UNCHANGED planvars
  <2>1. /\ whole' = whole /\ target' = target /\ tokens' = tokens /\ script' = script /\ written' = written
        /\ burst' = burst /\ spent' = spent /\ laboured' = laboured /\ stallOwed' = stallOwed
        /\ mistake' = mistake /\ wrongKeys' = wrongKeys /\ stage' = stage
    BY <1>15 DEF planvars, intent, draft, mood
  <2>2. PlanTypeOK'
    BY <2>1 DEF PlanInv, PlanTypeOK
  <2>3. PlanEndsOnTime'
    BY <2>1 DEF PlanInv, PlanEndsOnTime, Rests
  <2> QED
    BY <2>1, <2>2, <2>3 DEF PlanInv, Piece
<1> QED
  BY <1>1, <1>2, <1>3, <1>4, <1>5, <1>6, <1>7, <1>8, <1>9, <1>10, <1>11, <1>12, <1>13, <1>14, <1>15 DEF PlanNext

\* What the invariant says of the draft
LEMMA InvIsDraft == PlanInv => PageIsDraft
<1> SUFFICES ASSUME PlanInv PROVE PageIsDraft
  OBVIOUS
<1>1. DraftOf(script, written, mistake, TextSoFar)
  BY DEF PlanInv, Kept, SaidOf, TextSoFar
<1>2. written = Len(PageTyped) /\ written = Net(script)
  BY <1>1 DEF DraftOf, PageOf, PageTyped
<1>3. TextSoFar = IF mistake = <<>> THEN PageTyped ELSE Played(PageTyped, Fixing(mistake[1]))
  <2>1. TextSoFar = PutRight(PageTyped, mistake) /\ mistake \in Seq(Mistake)
    BY <1>1 DEF DraftOf, PageOf, PageTyped
  <2>2. ASSUME mistake # <<>>
        PROVE  Played(PageTyped, Fixing(mistake[1]))
                 = Spliced(PageTyped, mistake[1].offset, mistake[1].remove, mistake[1].insert)
    BY <2>1, <2>2, MistakeIs, FixingSplices
  <2> QED
    BY <2>1, <2>2 DEF PutRight
<1>4. stage = "done" => mistake = <<>>
  BY DEF PlanInv
<1>5. Repairs = RepairsIn(script)
  BY DEF Repairs, RepairsIn
<1>6. RepairsInTurn(script)
  BY <1>1 DEF DraftOf
<1> QED
  BY <1>2, <1>3, <1>4, <1>5, <1>6 DEF PageIsDraft, RepairsInTurn, LengthAt

\* What the invariant says of the mistakes
LEMMA InvIsSeen == PlanInv => MistakesAreSeen
<1> SUFFICES ASSUME PlanInv PROVE MistakesAreSeen
  OBVIOUS
<1>1. \A i \in RepairsIn(script) : TimeSeen(script, wrongKeys[RepairNo(script, i)], i) >= CorrectionGap
  BY DEF PlanInv, Kept, SeenOf
<1>2. Repairs = RepairsIn(script)
  BY DEF Repairs, RepairsIn
<1> QED
  BY <1>1, <1>2 DEF MistakesAreSeen, TimeSeen, RepairNo

\* The invariant of the planner, on which its three properties rest.
THEOREM PlanHolds == PlanSpec => []PlanInv
<1>1. PlanInit => PlanInv
  BY PlanStarts, TextsAssumption
<1>2. PlanInv /\ [PlanNext]_planvars => PlanInv'
  BY PlanStepKeeps, PlanAssumption, TextsAssumption
<1> QED
  BY <1>1, <1>2, PTL DEF PlanSpec

\* humanize.ts:478-488: the plan types the text, its mistakes put right, and no
\* repair is of anything but text typed after the repair before it.
THEOREM PlanTypesTheText == PlanSpec => []PageIsDraft
<1>1. PlanInv => PageIsDraft
  BY InvIsDraft
<1> QED
  BY <1>1, PlanHolds, PTL

\* humanize.ts:149-165: a mistake is on the page for the correction gap.
THEOREM PlanShowsItsMistakes == PlanSpec => []MistakesAreSeen
<1>1. PlanInv => MistakesAreSeen
  BY InvIsSeen
<1> QED
  BY <1>1, PlanHolds, PTL

\* humanize.ts:789-814: a plan ends with a key or a repair, and when it should.
THEOREM PlanEnds == PlanSpec => []PlanEndsOnTime
<1>1. PlanInv => PlanEndsOnTime
  BY DEF PlanInv
<1> QED
  BY <1>1, PlanHolds, PTL

\* The planner's state is what it should be.
THEOREM PlanTyped == PlanSpec => []PlanTypeOK
<1>1. PlanInv => PlanTypeOK
  BY DEF PlanInv
<1> QED
  BY <1>1, PlanHolds, PTL

-----------------------------------------------------------------------------
(* What a job is handed *)

\* An event of the plan as the job reads it
JobEvent(e) ==
  CASE e.type = "type" -> [kind |-> "type", char |-> e.char]
    [] e.type = "repair" -> [kind |-> "repair", offset |-> e.offset, remove |-> e.remove, insert |-> e.insert]
    [] OTHER -> [kind |-> "rest"]

\* JobTyping's HumanEvent
JobEvents ==
  [kind : {"type"}, char : Alphabet] \cup [kind : {"rest"}]
    \cup [kind : {"repair"}, offset : Nat, remove : Nat \ {0}, insert : Seq(Alphabet)]

Handed(events) == [i \in DOMAIN events |-> JobEvent(events[i])]

Job == INSTANCE TypedDocument WITH Spoilt <- {}, plan <- Handed(script), page <- PageTyped
Retyped(body, e) == Job!Written(body, e)
Typist == INSTANCE FoldSteps WITH Op <- Retyped

\* The first k events leave the same page to the planner and to the job, as long as the planner's count says.
SamePage(s, k) ==
  /\ PageOf(SubSeq(s, 1, k)) \in Seq(Alphabet)
  /\ Len(PageOf(SubSeq(s, 1, k))) = LengthAt(s, k)
  /\ Job!Draft(Handed(s), k) = PageOf(SubSeq(s, 1, k))

\* TypedDocument's drafts are folds.
LEMMA DraftsAreFolds == \A p, k : Job!Draft(p, k) = Typist!Fold(<<>>, SubSeq(p, 1, k))
BY DEF Job!Draft, Job!FoldLeft, Job!MapThenFoldSet, Job!Max, Retyped,
       Typist!Fold, Typist!FoldLeft, Typist!MapThenFoldSet, Typist!Max

\* The job does with an event what the planner meant.
LEMMA JobTypesAlike ==
  ASSUME NEW e \in PlanEvent
  PROVE  \A v : Retyped(v, JobEvent(e)) = Played(v, e)
<1>1. CASE e \in Key
  BY <1>1, EventKinds DEF Retyped, Job!Written, JobEvent, Played
<1>2. CASE e \in Gap
  BY <1>2, EventKinds DEF Retyped, Job!Written, JobEvent, Played
<1>3. CASE e \in Repair
  BY <1>3, EventKinds DEF Retyped, Job!Written, Job!Repaired, JobEvent, Played
<1> QED
  BY <1>1, <1>2, <1>3 DEF PlanEvent, Quiet

\* It is handed as many events.
LEMMA HandedIs ==
  ASSUME NEW s \in Seq(PlanEvent)
  PROVE  /\ Handed(s) \in Seq({JobEvent(e) : e \in PlanEvent}) /\ Len(Handed(s)) = Len(s)
         /\ \A i \in 1..Len(s) : s[i] \in PlanEvent /\ Handed(s)[i] = JobEvent(s[i])
<1>1. DOMAIN s = 1..Len(s) /\ Len(s) \in Nat /\ \A i \in 1..Len(s) : s[i] \in PlanEvent
  OBVIOUS
<1>2. Handed(s) = [i \in 1..Len(s) |-> JobEvent(s[i])]
  BY <1>1 DEF Handed
<1>3. \A i \in 1..Len(s) : JobEvent(s[i]) \in {JobEvent(e) : e \in PlanEvent}
  BY <1>1
<1> QED
  BY <1>1, <1>2, <1>3

\* Every prefix of a plan whose repairs are in turn
LEMMA PrefixesAgree ==
  ASSUME NEW s \in Seq(PlanEvent), RepairsInTurn(s)
  PROVE  \A k \in 0..Len(s) : SamePage(s, k)
<1> DEFINE K == {k \in Nat : k <= Len(s) => SamePage(s, k)}
<1>h. PICK h : h = Handed(s)
  OBVIOUS
<1>1. Len(s) \in Nat /\ Len(h) = Len(s) /\ \A i \in 1..Len(s) : s[i] \in PlanEvent /\ h[i] = JobEvent(s[i])
  <2>1. Len(Handed(s)) = Len(s) /\ \A i \in 1..Len(s) : s[i] \in PlanEvent /\ Handed(s)[i] = JobEvent(s[i])
    BY HandedIs
  <2>2. Len(s) \in Nat
    OBVIOUS
  <2> QED
    BY <1>h, <2>1, <2>2
<1>2. Reader!ByPrefixes(<<>>, s) /\ Counter!ByPrefixes(0, s) /\ Typist!ByPrefixes(<<>>, h)
  <2>1. h \in Seq({JobEvent(e) : e \in PlanEvent})
    BY <1>h, HandedIs
  <2> QED
    BY <2>1, Reader!FoldBy, Counter!FoldBy, Typist!FoldBy
<1>p. \A k : /\ PageOf(SubSeq(s, 1, k)) = Reader!Fold(<<>>, SubSeq(s, 1, k))
             /\ LengthAt(s, k) = Counter!Fold(0, SubSeq(s, 1, k))
             /\ Job!Draft(h, k) = Typist!Fold(<<>>, SubSeq(h, 1, k))
  BY PlanFolds, DraftsAreFolds DEF LengthAt
<1>3. /\ PageOf(SubSeq(s, 1, 0)) = <<>> /\ LengthAt(s, 0) = 0 /\ Job!Draft(h, 0) = <<>>
      /\ \A k \in 1..Len(s) : /\ PageOf(SubSeq(s, 1, k)) = Played(PageOf(SubSeq(s, 1, k - 1)), s[k])
                              /\ LengthAt(s, k) = Longer(LengthAt(s, k - 1), s[k])
                              /\ Job!Draft(h, k) = Retyped(Job!Draft(h, k - 1), h[k])
  BY <1>1, <1>2, <1>p DEF Reader!ByPrefixes, Counter!ByPrefixes, Typist!ByPrefixes
<1>4. 0 \in K
  <2>1. <<>> \in Seq(Alphabet) /\ Len(<<>>) = 0
    OBVIOUS
  <2> QED
    BY <1>3, <1>h, <2>1 DEF SamePage
<1>5. ASSUME NEW k \in Nat, k \in K PROVE k + 1 \in K
  <2> SUFFICES ASSUME k + 1 <= Len(s) PROVE SamePage(s, k + 1)
    OBVIOUS
  <2>n. PICK n \in 1..Len(s) : n = k + 1 /\ n - 1 = k
    BY <1>1
  <2>b. PICK body \in Seq(Alphabet) :
          body = PageOf(SubSeq(s, 1, k)) /\ Len(body) = LengthAt(s, k) /\ Job!Draft(h, k) = body
    BY <1>5, <1>1, <1>h, <2>n DEF SamePage
  <2>e. PICK e \in PlanEvent : e = s[n] /\ h[n] = JobEvent(e)
    BY <1>1
  <2>1. PageOf(SubSeq(s, 1, n)) = Played(body, e) /\ LengthAt(s, n) = Longer(Len(body), e)
        /\ Job!Draft(h, n) = Retyped(body, JobEvent(e))
    BY <1>3, <2>n, <2>b, <2>e
  <2>2. Retyped(body, JobEvent(e)) = Played(body, e)
    BY JobTypesAlike
  <2>3. Played(body, e) \in Seq(Alphabet) /\ Len(Played(body, e)) = Longer(Len(body), e)
    <3>1. CASE e \in Key
      <4>1. Played(body, e) = Append(body, e.char) /\ Longer(Len(body), e) = Len(body) + 1 /\ e.char \in Alphabet
        BY <3>1, EventKinds DEF Played, Longer
      <4> QED
        BY <4>1, AppendProperties
    <3>2. CASE e \in Gap
      BY <3>2, EventKinds DEF Played, Longer
    <3>3. CASE e \in Repair
      <4>1. /\ Played(body, e) = Spliced(body, e.offset, e.remove, e.insert)
            /\ Longer(Len(body), e) = Len(body) + Len(e.insert) - e.remove
            /\ e.type = "repair" /\ e.offset \in Nat /\ e.remove \in Nat /\ e.insert \in Seq(Alphabet)
        BY <3>3, EventKinds DEF Played, Longer, Spliced
      <4>2. n \in RepairsIn(s)
        BY <1>1, <2>e, <4>1 DEF RepairsIn
      <4>3. e.offset + e.remove <= Len(body)
        BY <2>n, <2>b, <2>e, <4>2 DEF RepairsInTurn
      <4> QED
        <5>o. PICK o \in Nat, r \in Nat, ins \in Seq(Alphabet) : o = e.offset /\ r = e.remove /\ ins = e.insert
          BY <4>1
        <5>1. o + r <= Len(body)
          BY <4>3, <5>o
        <5>2. Spliced(body, o, r, ins) \in Seq(Alphabet) /\ Len(Spliced(body, o, r, ins)) = Len(body) + Len(ins) - r
          BY <5>1, SpliceBefore
        <5> QED
          BY <4>1, <5>o, <5>2
    <3> QED
      BY <3>1, <3>2, <3>3 DEF PlanEvent, Quiet
  <2> QED
    BY <1>h, <2>n, <2>1, <2>2, <2>3 DEF SamePage
<1>6. Nat \subseteq K
  <2> HIDE DEF K
  <2> QED
    BY <1>4, <1>5, Clock!Induction
<1> QED
  BY <1>6

\* What runner.ts:470-473 relies on and JobTyping assumes of its plans: a repair takes something away, of
\* text that is there, all of it typed after the repair before; and what the job types is the text.
PlanIsFit ==
  stage = "done" =>
    /\ Handed(script) \in Seq(JobEvents) /\ Job!OneOutstanding(Handed(script))
    /\ Job!Text(Handed(script)) = TextOf(whole)

\* The invariant makes it so.
LEMMA InvIsFit == PlanInv => PlanIsFit
<1> SUFFICES ASSUME PlanInv, stage = "done"
             PROVE  /\ Handed(script) \in Seq(JobEvents) /\ Job!OneOutstanding(Handed(script))
                    /\ Job!Text(Handed(script)) = TextOf(whole)
  BY DEF PlanIsFit
<1>1. tokens = <<>> /\ mistake = <<>> /\ DraftOf(script, written, <<>>, SaidOf(whole, <<>>)) /\ whole \in Seq(Token)
  BY DEF PlanInv, Kept, LeftOf
<1>s. PICK s \in Seq(PlanEvent) : s = script /\ RepairsInTurn(s) /\ PageOf(s) = SaidOf(whole, <<>>)
  BY <1>1 DEF DraftOf, PutRight
<1>h. PICK h : h = Handed(s) /\ Len(h) = Len(s) /\ Len(s) \in Nat
  <2>1. Len(Handed(s)) = Len(s)
    BY HandedIs
  <2>2. Len(s) \in Nat
    OBVIOUS
  <2> QED
    BY <2>1, <2>2
<1>2. \A i \in 1..Len(s) : s[i] \in PlanEvent /\ h[i] = JobEvent(s[i])
  BY <1>h, HandedIs
<1>3. \A k \in 0..Len(s) : Len(Job!Draft(h, k)) = LengthAt(s, k) /\ Job!Draft(h, k) = PageOf(SubSeq(s, 1, k))
  BY <1>s, <1>h, PrefixesAgree DEF SamePage
<1>4. \A i \in 1..Len(s) : h[i].kind = "repair" =>
        s[i].type = "repair" /\ h[i].offset = s[i].offset /\ h[i].remove = s[i].remove /\ s[i].remove > 0
  <2> TAKE i \in 1..Len(s)
  <2>e. PICK e \in PlanEvent : e = s[i] /\ h[i] = JobEvent(e)
    BY <1>2
  <2>1. CASE e \in Quiet
    BY <2>1, <2>e, EventKinds DEF JobEvent, Quiet
  <2>2. CASE e \in Repair
    BY <2>2, <2>e, EventKinds DEF JobEvent
  <2> QED
    BY <2>1, <2>2 DEF PlanEvent
<1>5. ASSUME NEW i \in 1..Len(s), h[i].kind = "repair"
      PROVE  /\ h[i].offset + h[i].remove <= Len(Job!Draft(h, i - 1))
             /\ \A j \in 1..(i - 1) : h[j].kind = "repair" => Len(Job!Draft(h, j)) <= h[i].offset
  <2>1. i \in RepairsIn(s) /\ i - 1 \in 0..Len(s) /\ \A j \in 1..(i - 1) : j \in 1..Len(s) /\ j \in 0..Len(s) /\ j < i
    BY <1>4, <1>5, <1>h DEF RepairsIn
  <2>2. \A j \in 1..(i - 1) : h[j].kind = "repair" => j \in RepairsIn(s)
    BY <1>4, <2>1 DEF RepairsIn
  <2> QED
    BY <1>3, <1>4, <1>5, <1>s, <2>1, <2>2 DEF RepairsInTurn
<1>6. Job!OneOutstanding(h)
  BY <1>5, <1>h DEF Job!OneOutstanding
<1>7. h \in Seq(JobEvents)
  <2>1. ASSUME NEW e \in PlanEvent PROVE JobEvent(e) \in JobEvents
    <3>1. CASE e \in Key
      BY <3>1, EventKinds DEF JobEvent, JobEvents
    <3>2. CASE e \in Gap
      BY <3>2, EventKinds DEF JobEvent, JobEvents
    <3>3. CASE e \in Repair
      BY <3>3, EventKinds DEF JobEvent, JobEvents
    <3> QED
      BY <3>1, <3>2, <3>3 DEF PlanEvent, Quiet
  <2>2. {JobEvent(e) : e \in PlanEvent} \subseteq JobEvents
    BY <2>1
  <2>3. h \in Seq({JobEvent(e) : e \in PlanEvent})
    BY <1>h, HandedIs
  <2> QED
    BY <2>2, <2>3
<1>8. Job!Text(h) = TextOf(whole)
  <2>1. SubSeq(s, 1, Len(s)) = s
    BY SubSeqFull
  <2>2. Job!Draft(h, Len(h)) = PageOf(s)
    <3>1. Len(s) \in 0..Len(s)
      BY <1>h
    <3> QED
      BY <1>3, <1>h, <2>1, <3>1
  <2>3. SaidOf(whole, <<>>) = TextOf(whole)
    BY <1>1, SaidEnds
  <2> QED
    BY <1>s, <2>2, <2>3 DEF Job!Text
<1> QED
  BY <1>s, <1>h, <1>6, <1>7, <1>8

\* humanize.ts hands runner.ts:470-473 the plans it relies on.
THEOREM PlansAreFit == PlanSpec => []PlanIsFit
<1>1. PlanInv => PlanIsFit
  BY InvIsFit
<1> QED
  BY <1>1, PlanHolds, PTL
=============================================================================
