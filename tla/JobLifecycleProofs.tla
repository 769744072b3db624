------------------------- MODULE JobLifecycleProofs -------------------------
(***************************************************************************)
(* The queue keeps its shape, no runner sleeps in the pause gate unpaused, *)
(* a job is announced once, and the account moves as credits.ts promises,  *)
(* for any number of jobs, slots, restarts and refused statements.  The    *)
(* invariant says of each job where it can be (JobOK) and of the line that *)
(* it holds jobs nobody has touched yet (LineOK).                          *)
(***************************************************************************)
EXTENDS JobLifecycle, CreditAccountProofs, FiniteSetTheorems, SequenceTheorems

\* ---- The account

\* What settles or sweeps a job pays it back, or leaves the account alone.
LEMMA PayBackMoves ==
  ASSUME NEW j \in JobIds, NEW o, PayBack(j, o)
  PROVE  Refund(j) \/ UNCHANGED tables
  BY DEF PayBack

LEMMA StepMovesAccount == [Next]_vars => [AccountNext]_tables
<1> SUFFICES ASSUME [Next]_vars PROVE AccountNext \/ UNCHANGED tables
  OBVIOUS
<1>1. CASE TopUp
  BY <1>1 DEF TopUp, AccountNext
<1>2. CASE \E u \in Users, j \in JobIds, cost \in Costs : ReserveJob(u, j, cost)
  BY <1>2 DEF ReserveJob, AccountNext
<1>3. ASSUME NEW j \in JobIds, Run(j) PROVE AccountNext \/ UNCHANGED tables
  <2>1. CASE Settle(j)
    BY <2>1, PayBackMoves DEF Settle, AccountNext
  <2>2. CASE ~Settle(j)
    BY <1>3, <2>2 DEF Run, Enqueue, MarkRunning, SetUp, Gate, Work, Drain, Persist, FinishRow, FinishError
  <2> QED
    BY <2>1, <2>2
<1>4. ASSUME NEW j \in JobIds, SweepOne(j) PROVE AccountNext \/ UNCHANGED tables
  BY <1>4, PayBackMoves DEF SweepOne, AccountNext
<1>5. ASSUME NEW j \in JobIds,
             \/ LateFlush(j) \/ Break(j) \/ OwnerAsks(j) \/ Claim(j)
             \/ \E s \in {"paused", "running"} : Land(j, s)
      PROVE  UNCHANGED tables
  BY <1>5 DEF LateFlush, Break, OwnerAsks, Pause, Resume, CancelActive, CancelWaiting, Claim, Land
<1>6. CASE Process
  BY <1>6 DEF Process, Shutdown, Exit, Crash, Die, Boot, Listen
<1>7. CASE UNCHANGED vars
  BY <1>7 DEF vars
<1> QED
  BY <1>1, <1>2, <1>3, <1>4, <1>5, <1>6, <1>7 DEF Next

\* credits.ts through routes/jobs.ts, db/jobs.ts and index.ts: requests, runners,
\* cancellations, restarts and the boot sweep move credit only as an account does.
THEOREM LifecycleImplementsAccount == Spec => AccountSpec
<1>1. Init => AccountInit
  BY DEF Init
<1> QED
  BY <1>1, StepMovesAccount, PTL DEF Spec, AccountSpec

LEMMA LifecycleBooks == Spec => []TablesOK
<1>1. AccountInv => TablesOK
  BY DEF AccountInv
<1> QED
  BY <1>1, LifecycleImplementsAccount, AccountBooks, PTL

-----------------------------------------------------------------------------
\* ---- The invariant

Ending == {"persist", "finish", "settle", "lastChance"}

\* Where a job is: not inserted, untouched, with a runner, or behind it.
JobOK(j) ==
  /\ jobs[j] = NoJob => status[j] = NoStatus
  /\ status[j] = NoStatus => step[j] = "none" /\ writes[j] = {}
  /\ step[j] = "reserved" => status[j] = "pending" /\ writes[j] = {}
  /\ step[j] \in Ending => outcome[j] \in Terminal
  /\ step[j] = "blocked" => j \in paused
  /\ mails[j] = IF j \in notified THEN 1 ELSE 0
  /\ j \in active => step[j] \notin {"none", "reserved"}
  /\ mode \in {"down", "sweeping"} => step[j] = "none" /\ writes[j] = {}

JobsOK == \A j \in JobIds : JobOK(j)

\* A job in the line is in no slot and nothing has happened to it yet.
Untouched(j) == j \notin active /\ status[j] = "pending" /\ step[j] = "none" /\ writes[j] = {}

StillUntouched(j) == j \notin active' /\ status'[j] = "pending" /\ step'[j] = "none" /\ writes'[j] = {}

LineOK ==
  /\ IsFiniteSet(active)
  /\ Cardinality(active) <= MaxConcurrent
  /\ waiting # <<>> => Cardinality(active) = MaxConcurrent
  /\ \A i, k \in DOMAIN waiting : waiting[i] = waiting[k] => i = k
  /\ \A i \in DOMAIN waiting : Untouched(waiting[i])
  /\ mode \in {"down", "sweeping"} => waiting = <<>> /\ active = {}

LifeInv == TypeOK /\ JobsOK /\ LineOK

LEMMA Slots == MaxConcurrent \in Nat \ {0} /\ NoStatus \notin Terminal \cup Live
  BY LifecycleAssumption

\* ---- The line as a sequence

\* What is left of the line after its first n, and who left
LEMMA LineShortened ==
  ASSUME NEW s \in Seq(JobIds), NEW n \in 0..Len(s), \A i, k \in DOMAIN s : s[i] = s[k] => i = k
  PROVE  LET t == SubSeq(s, n + 1, Len(s))
             next == {s[i] : i \in 1..n}
         IN /\ t \in Seq(JobIds) /\ Len(t) = Len(s) - n
            /\ \A i \in DOMAIN t : i + n \in DOMAIN s /\ t[i] = s[i + n] /\ t[i] \notin next
            /\ \A i, k \in DOMAIN t : t[i] = t[k] => i = k
            /\ next \subseteq JobIds /\ IsFiniteSet(next) /\ Cardinality(next) = n
<1> DEFINE t == SubSeq(s, n + 1, Len(s))
           next == {s[i] : i \in 1..n}
<1>0. Len(s) \in Nat /\ n \in Nat /\ n <= Len(s)
  BY LenProperties
<1>1. Len(s) \in Nat /\ DOMAIN s = 1..Len(s) /\ n \in Nat /\ n <= Len(s) /\ \A i \in 1..Len(s) : s[i] \in JobIds
  BY LenProperties, ElementOfSeq
<1>2. /\ t \in Seq(JobIds) /\ Len(t) = Len(s) - n
      /\ \A i \in 1..(Len(s) - n) : t[i] = s[i + n]
  <2>1. \A i \in (n + 1)..Len(s) : s[i] \in JobIds
    BY <1>1
  <2>2. /\ t \in Seq(JobIds) /\ Len(t) = IF n + 1 <= Len(s) THEN Len(s) - (n + 1) + 1 ELSE 0
        /\ \A i \in 1..(Len(s) - (n + 1) + 1) : t[i] = s[n + 1 + i - 1]
    BY <1>1, <2>1, SubSeqProperties
  <2> HIDE DEF t
  <2>3. Len(s) - (n + 1) + 1 = Len(s) - n /\ Len(t) = Len(s) - n
    <3>1. CASE n + 1 <= Len(s)
      BY <1>1, <2>2, <3>1
    <3>2. CASE ~(n + 1 <= Len(s))
      <4>1. n = Len(s)
        BY <1>0, <3>2
      <4> QED
        BY <1>1, <2>2, <3>2, <4>1
    <3> QED
      BY <3>1, <3>2
  <2>4. ASSUME NEW i \in 1..(Len(s) - n) PROVE t[i] = s[i + n]
    <3>1. n + 1 + i - 1 = i + n
      BY <1>1
    <3>2. t[i] = s[n + 1 + i - 1]
      BY <2>2, <2>3
    <3> QED
      BY <3>1, <3>2
  <2> QED
    BY <2>2, <2>3, <2>4
<1>3. DOMAIN t = 1..(Len(s) - n)
  BY <1>2, LenProperties
<1> HIDE DEF t
<1>4. \A i \in DOMAIN t : i + n \in DOMAIN s /\ t[i] = s[i + n] /\ t[i] \notin next
  <2> SUFFICES ASSUME NEW i \in 1..(Len(s) - n)
               PROVE  i + n \in 1..Len(s) /\ t[i] = s[i + n] /\ t[i] \notin next
    BY <1>1, <1>3
  <2>1. i + n \in 1..Len(s) /\ \A k \in 1..n : k \in 1..Len(s) /\ k # i + n
    BY <1>1
  <2> QED
    BY <1>1, <1>2, <2>1
<1>5. \A i, k \in DOMAIN t : t[i] = t[k] => i = k
  <2> SUFFICES ASSUME NEW i \in DOMAIN t, NEW k \in DOMAIN t, t[i] = t[k] PROVE i = k
    OBVIOUS
  <2>1. i + n = k + n
    BY <1>4
  <2>2. i \in Nat /\ k \in Nat
    BY <1>3
  <2> QED
    BY <1>1, <2>1, <2>2
<1>6. next \subseteq JobIds
  BY <1>1
<1>7. IsFiniteSet(next) /\ Cardinality(next) = n
  <2> DEFINE f == [i \in 1..n |-> s[i]]
  <2>1. f \in Bijection(1..n, next)
    BY <1>1 DEF Bijection, Injection, Surjection, IsInjective
  <2>2. ExistsBijection(1..n, next)
    BY <2>1 DEF ExistsBijection
  <2> QED
    BY <1>1, <2>2, FS_CountingElements, FS_NatBijection
<1> QED
  BY <1>2, <1>4, <1>5, <1>6, <1>7 DEF t

\* The line with its i-th taken out
LEMMA LineWithout ==
  ASSUME NEW s \in Seq(JobIds), NEW i \in DOMAIN s, \A m, k \in DOMAIN s : s[m] = s[k] => m = k
  PROVE  LET t == SubSeq(s, 1, i - 1) \o SubSeq(s, i + 1, Len(s))
         IN /\ t \in Seq(JobIds)
            /\ \A k \in DOMAIN t : \E m \in DOMAIN s : m # i /\ t[k] = s[m]
            /\ \A m \in DOMAIN s \ {i} : \E k \in DOMAIN t : t[k] = s[m]
            /\ \A k, m \in DOMAIN t : t[k] = t[m] => k = m
<1> DEFINE a == SubSeq(s, 1, i - 1)
           b == SubSeq(s, i + 1, Len(s))
           t == a \o b
           From(k) == IF k < i THEN k ELSE k + 1
<1>1. Len(s) \in Nat /\ DOMAIN s = 1..Len(s) /\ i \in 1..Len(s) /\ \A k \in 1..Len(s) : s[k] \in JobIds
  BY LenProperties, ElementOfSeq
<1>2. a \in Seq(JobIds) /\ Len(a) = i - 1 /\ \A k \in 1..(i - 1) : a[k] = s[k]
  <2>1. \A k \in 1..(i - 1) : s[k] \in JobIds
    BY <1>1
  <2>2. /\ a \in Seq(JobIds) /\ Len(a) = IF 1 <= i - 1 THEN (i - 1) - 1 + 1 ELSE 0
        /\ \A k \in 1..((i - 1) - 1 + 1) : a[k] = s[1 + k - 1]
    BY <1>1, <2>1, SubSeqProperties
  <2>3. (i - 1) - 1 + 1 = i - 1 /\ \A k \in Nat : 1 + k - 1 = k
    BY <1>1
  <2> HIDE DEF a
  <2> QED
    BY <1>1, <2>2, <2>3
<1>3. b \in Seq(JobIds) /\ Len(b) = Len(s) - i /\ \A k \in 1..(Len(s) - i) : b[k] = s[i + k]
  <2>1. \A k \in (i + 1)..Len(s) : s[k] \in JobIds
    BY <1>1
  <2>2. /\ b \in Seq(JobIds) /\ Len(b) = IF i + 1 <= Len(s) THEN Len(s) - (i + 1) + 1 ELSE 0
        /\ \A k \in 1..(Len(s) - (i + 1) + 1) : b[k] = s[i + 1 + k - 1]
    BY <1>1, <2>1, SubSeqProperties
  <2> HIDE DEF b
  <2>3. Len(s) - (i + 1) + 1 = Len(s) - i /\ Len(b) = Len(s) - i
    BY <1>1, <2>2
  <2>4. ASSUME NEW k \in 1..(Len(s) - i) PROVE b[k] = s[i + k]
    <3>1. i + 1 + k - 1 = i + k
      BY <1>1
    <3>2. b[k] = s[i + 1 + k - 1]
      BY <2>2, <2>3
    <3> QED
      BY <3>1, <3>2
  <2> QED
    BY <2>2, <2>3, <2>4
<1> HIDE DEF a, b
<1>4. /\ t \in Seq(JobIds) /\ Len(t) = Len(a) + Len(b)
      /\ \A k \in 1..(Len(a) + Len(b)) : t[k] = IF k <= Len(a) THEN a[k] ELSE b[k - Len(a)]
  <2>1. a \in Seq(JobIds) /\ b \in Seq(JobIds)
    BY <1>2, <1>3
  <2> HIDE DEF t
  <2>2. a \o b \in Seq(JobIds) /\ Len(a \o b) = Len(a) + Len(b)
    BY <2>1
  <2>3. \A k \in 1..(Len(a) + Len(b)) : (a \o b)[k] = IF k <= Len(a) THEN a[k] ELSE b[k - Len(a)]
    BY <2>1, ConcatProperties
  <2> QED
    BY <2>2, <2>3 DEF t
<1>5. DOMAIN t = 1..(Len(s) - 1)
  <2>1. Len(t) = Len(s) - 1
    BY <1>1, <1>2, <1>3, <1>4
  <2> QED
    BY <1>4, <2>1, LenProperties
<1> HIDE DEF t
<1>6. \A k \in DOMAIN t : From(k) \in DOMAIN s /\ From(k) # i /\ t[k] = s[From(k)]
  <2> SUFFICES ASSUME NEW k \in 1..(Len(s) - 1)
               PROVE  From(k) \in 1..Len(s) /\ From(k) # i /\ t[k] = s[From(k)]
    BY <1>1, <1>5
  <2>1. Len(a) + Len(b) = Len(s) - 1
    BY <1>1, <1>2, <1>3
  <2>2. CASE k < i
    <3>1. k <= Len(a) /\ k \in 1..(i - 1)
      BY <1>1, <1>2, <2>2
    <3> QED
      BY <1>1, <1>2, <1>4, <2>1, <2>2, <3>1
  <2>3. CASE k >= i
    <3>1. ~(k <= Len(a)) /\ k - Len(a) = k - i + 1 /\ k - i + 1 \in 1..(Len(s) - i) /\ i + (k - i + 1) = k + 1
      BY <1>1, <1>2, <2>3
    <3>2. t[k] = b[k - i + 1]
      BY <1>4, <2>1, <3>1
    <3>3. b[k - i + 1] = s[k + 1]
      BY <1>3, <3>1
    <3> QED
      BY <1>1, <2>3, <3>2, <3>3
  <2> QED
    BY <1>1, <2>2, <2>3
<1>7. \A k, m \in DOMAIN t : From(k) = From(m) => k = m
  BY <1>1, <1>5
<1>8. \A m \in DOMAIN s \ {i} : \E k \in DOMAIN t : From(k) = m
  <2> SUFFICES ASSUME NEW m \in 1..Len(s), m # i
               PROVE  \E k \in 1..(Len(s) - 1) : From(k) = m
    BY <1>1, <1>5
  <2>1. CASE m < i
    <3>1. m \in 1..(Len(s) - 1) /\ From(m) = m
      BY <1>1, <2>1
    <3> QED
      BY <3>1
  <2>2. CASE m > i
    <3>1. m - 1 \in 1..(Len(s) - 1) /\ From(m - 1) = m
      BY <1>1, <2>2
    <3> QED
      BY <3>1
  <2> QED
    BY <1>1, <2>1, <2>2
<1> HIDE DEF From
<1>9. \A m \in DOMAIN s \ {i} : \E k \in DOMAIN t : t[k] = s[m]
  BY <1>6, <1>8
<1>10. \A k \in DOMAIN t : \E m \in DOMAIN s : m # i /\ t[k] = s[m]
  BY <1>6
<1>11. \A k, m \in DOMAIN t : t[k] = t[m] => k = m
  BY <1>6, <1>7
<1>12. t \in Seq(JobIds)
  BY <1>4
<1> QED
  BY <1>9, <1>10, <1>11, <1>12, Zenon DEF a, b, t

-----------------------------------------------------------------------------
\* ---- What an action does to the line

\* Who is with a request or a runner is not in the line, and neither is a
\* job whose row is not pending.
LEMMA LineStays ==
  ASSUME LifeInv, UNCHANGED queue, mode' \in {mode, "up", "stopping"},
         \A j \in JobIds : Untouched(j) => status'[j] = status[j] /\ step'[j] = step[j] /\ writes'[j] = writes[j]
  PROVE  LineOK'
<1>1. \A i \in DOMAIN waiting : waiting[i] \in JobIds
  BY LenProperties, ElementOfSeq DEF LifeInv, TypeOK
<1>2. \A i \in DOMAIN waiting : StillUntouched(waiting[i])
  BY <1>1 DEF LifeInv, LineOK, Untouched, StillUntouched, queue
<1> QED
  BY <1>2 DEF LifeInv, LineOK, Untouched, StillUntouched, queue

\* drain() keeps every slot taken while somebody waits.
LEMMA ReleaseKeepsLine ==
  ASSUME LifeInv, NEW j \in JobIds, mode \in {"up", "stopping"}, step[j] \notin {"none", "reserved"},
         Release(j), UNCHANGED <<mode, writes>>,
         \A k \in JobIds \ {j} : status'[k] = status[k]
  PROVE  /\ LineOK'
         /\ waiting' \in Seq(JobIds) /\ active' \subseteq JobIds /\ j \notin active'
         /\ step' \in [JobIds -> Steps] /\ step'[j] = "none"
         /\ \A k \in JobIds \ {j} :
              \/ step'[k] = step[k] /\ (k \in active' => k \in active)
              \/ Untouched(k) /\ step'[k] = "mark"
<1>1. /\ waiting \in Seq(JobIds) /\ active \subseteq JobIds /\ step \in [JobIds -> Steps]
      /\ IsFiniteSet(active) /\ Cardinality(active) \in Nat /\ Cardinality(active) <= MaxConcurrent
      /\ MaxConcurrent \in Nat \ {0} /\ "none" \in Steps /\ "mark" \in Steps
  BY Slots, FS_CardinalityType DEF LifeInv, TypeOK, LineOK, Steps
<1>2. \A i \in DOMAIN waiting : waiting[i] \in JobIds /\ waiting[i] # j /\ Untouched(waiting[i])
  BY LenProperties, ElementOfSeq DEF LifeInv, TypeOK, LineOK, Untouched
<1>3. CASE j \notin active
  <2>1. step' = [step EXCEPT ![j] = "none"] /\ UNCHANGED queue
    BY <1>3 DEF Release
  <2>2. \A k \in JobIds : Untouched(k) =>
          status'[k] = status[k] /\ step'[k] = step[k] /\ writes'[k] = writes[k]
    BY <1>1, <2>1 DEF Untouched
  <2>3. LineOK'
    BY <2>1, <2>2, LineStays
  <2> QED
    BY <1>1, <1>3, <2>1, <2>3 DEF queue
<1>4. CASE j \in active
  <2> DEFINE left == active \ {j}
             free == MaxConcurrent - Cardinality(left)
             n == IF Len(waiting) < free THEN Len(waiting) ELSE free
             next == {waiting[i] : i \in 1..n}
             rest == SubSeq(waiting, n + 1, Len(waiting))
  <2>1. active' = left \cup next /\ waiting' = rest /\ step' = [Started(next) EXCEPT ![j] = "none"]
    BY <1>4 DEF Release
  <2>2. IsFiniteSet(left) /\ Cardinality(left) = Cardinality(active) - 1
    BY <1>1, <1>4, FS_RemoveElement
  <2>3. Len(waiting) \in Nat
    BY <1>1, LenProperties
  <2>4. n \in 0..Len(waiting) /\ free \in Nat /\ n <= free
    BY <1>1, <2>2, <2>3
  <2>5. n < Len(waiting) => n = free
    BY <1>1, <2>2, <2>3
  <2> HIDE DEF n, free
  <2>6. /\ rest \in Seq(JobIds) /\ Len(rest) = Len(waiting) - n
        /\ \A i \in DOMAIN rest : i + n \in DOMAIN waiting /\ rest[i] = waiting[i + n] /\ rest[i] \notin next
        /\ \A i, k \in DOMAIN rest : rest[i] = rest[k] => i = k
        /\ next \subseteq JobIds /\ IsFiniteSet(next) /\ Cardinality(next) = n
    BY <1>1, <2>4, LineShortened DEF LifeInv, LineOK
  <2>7. \A k \in next : Untouched(k) /\ k # j
    BY <1>1, <1>2, <2>3, <2>4, LenProperties
  <2> HIDE DEF next, rest
  <2>8. left \cap next = {}
    BY <2>7 DEF Untouched
  <2>9. IsFiniteSet(active') /\ Cardinality(active') = Cardinality(left) + n
    <3> HIDE DEF left
    <3>1. /\ IsFiniteSet(left \cup next)
          /\ Cardinality(left \cup next) = Cardinality(left) + Cardinality(next) - Cardinality(left \cap next)
      BY <2>2, <2>6, FS_Union
    <3>2. Cardinality(left \cap next) = 0
      BY <2>8, FS_EmptySet
    <3> QED
      BY <1>1, <2>1, <2>2, <2>4, <2>6, <3>1, <3>2
  <2>10. Cardinality(active') <= MaxConcurrent
    BY <1>1, <2>2, <2>4, <2>9 DEF free
  <2>11. ASSUME waiting' # <<>> PROVE Cardinality(active') = MaxConcurrent
    <3>1. Len(rest) # 0
      BY <2>1, <2>6, <2>11, EmptySeq
    <3>2. n < Len(waiting)
      BY <2>3, <2>4, <2>6, <3>1
    <3> QED
      BY <1>1, <2>2, <2>5, <2>9, <3>2 DEF free
  <2>12. \A k \in JobIds : step'[k] = IF k = j THEN "none" ELSE IF k \in next THEN "mark" ELSE step[k]
    BY <1>1, <2>1 DEF Started
  <2>13. \A i \in DOMAIN rest : StillUntouched(rest[i])
    <3> SUFFICES ASSUME NEW i \in DOMAIN rest PROVE StillUntouched(rest[i])
      OBVIOUS
    <3>1. rest[i] \in JobIds /\ rest[i] # j /\ Untouched(rest[i]) /\ rest[i] \notin next
      BY <1>2, <2>6
    <3> QED
      BY <2>1, <2>12, <3>1 DEF Untouched, StillUntouched
  <2>14. LineOK'
    BY <2>1, <2>6, <2>9, <2>10, <2>11, <2>13 DEF LineOK, Untouched, StillUntouched
  <2>15. step' \in [JobIds -> Steps]
    BY <1>1, <2>1 DEF Started
  <2> QED
    BY <1>1, <2>1, <2>6, <2>7, <2>12, <2>14, <2>15
<1> QED
  BY <1>3, <1>4

\* queue.ts enqueue(): one more in a slot, or one more behind a full house
LEMMA EnqueueKeepsLine ==
  ASSUME LifeInv, NEW j \in JobIds, Enqueue(j)
  PROVE  /\ LineOK'
         /\ waiting' \in Seq(JobIds) /\ active' \subseteq JobIds
<1>1. /\ waiting \in Seq(JobIds) /\ active \subseteq JobIds /\ step \in [JobIds -> Steps]
      /\ IsFiniteSet(active) /\ Cardinality(active) \in Nat /\ Cardinality(active) <= MaxConcurrent
      /\ MaxConcurrent \in Nat \ {0}
  BY Slots, FS_CardinalityType DEF LifeInv, TypeOK, LineOK
<1>2. /\ step[j] = "reserved" /\ mode \in {"up", "stopping"} /\ j \notin active
      /\ status[j] = "pending" /\ writes[j] = {} /\ UNCHANGED <<mode, status, writes>>
  BY DEF Enqueue, Running, LifeInv, JobsOK, JobOK, row, loose
<1>3. \A i \in DOMAIN waiting : waiting[i] \in JobIds /\ waiting[i] # j /\ Untouched(waiting[i])
  BY <1>2, LenProperties, ElementOfSeq DEF LifeInv, TypeOK, LineOK, Untouched
<1>4. CASE Cardinality(active) < MaxConcurrent
  <2>1. active' = active \cup {j} /\ step' = Started({j}) /\ UNCHANGED waiting /\ waiting = <<>>
    BY <1>1, <1>4 DEF Enqueue, LifeInv, LineOK
  <2>2. IsFiniteSet(active') /\ Cardinality(active') = Cardinality(active) + 1
    BY <1>1, <1>2, <2>1, FS_AddElement
  <2>3. Cardinality(active') <= MaxConcurrent
    BY <1>1, <1>4, <2>2
  <2>4. DOMAIN waiting = {}
    BY <2>1
  <2> QED
    BY <1>1, <1>2, <2>1, <2>2, <2>3, <2>4 DEF LineOK
<1>5. CASE ~(Cardinality(active) < MaxConcurrent)
  <2>1. active' = active /\ step' = [step EXCEPT ![j] = "none"] /\ waiting' = Append(waiting, j)
    BY <1>5 DEF Enqueue, Goto
  <2>2. Cardinality(active) = MaxConcurrent
    BY <1>1, <1>5
  <2>3. /\ waiting' \in Seq(JobIds) /\ Len(waiting') = Len(waiting) + 1 /\ Len(waiting) \in Nat
        /\ DOMAIN waiting = 1..Len(waiting) /\ DOMAIN waiting' = 1..(Len(waiting) + 1)
        /\ \A i \in 1..Len(waiting) : waiting'[i] = waiting[i]
        /\ waiting'[Len(waiting) + 1] = j
    BY <1>1, <2>1, AppendProperties, LenProperties
  <2>4. \A i \in DOMAIN waiting' : i \in DOMAIN waiting \/ i = Len(waiting) + 1
    BY <2>3
  <2>5. \A i, k \in DOMAIN waiting' : waiting'[i] = waiting'[k] => i = k
    <3>1. \A i, k \in DOMAIN waiting : waiting[i] = waiting[k] => i = k
      BY DEF LifeInv, LineOK
    <3>2. \A i \in DOMAIN waiting : waiting'[i] = waiting[i] /\ waiting'[i] # j
      BY <1>3, <2>3
    <3> QED
      BY <2>3, <2>4, <3>1, <3>2
  <2>6. \A i \in DOMAIN waiting' : StillUntouched(waiting'[i])
    BY <1>1, <1>2, <1>3, <2>1, <2>3, <2>4 DEF Untouched, StillUntouched
  <2> QED
    BY <1>1, <1>2, <2>1, <2>2, <2>3, <2>5, <2>6 DEF LineOK, Untouched, StillUntouched
<1> QED
  BY <1>4, <1>5

\* queue.ts cancel() of a job nobody has started: the rest of the line stays.
LEMMA CancelWaitingKeepsLine ==
  ASSUME LifeInv, NEW j \in JobIds, CancelWaiting(j)
  PROVE  /\ LineOK'
         /\ waiting' \in Seq(JobIds)
         /\ status[j] = "pending" /\ writes[j] = {} /\ j \notin active
<1>1. PICK i \in DOMAIN waiting :
        /\ waiting[i] = j
        /\ waiting' = SubSeq(waiting, 1, i - 1) \o SubSeq(waiting, i + 1, Len(waiting))
  BY DEF CancelWaiting
<1>2. /\ mode = "up" /\ step' = [step EXCEPT ![j] = "finish"]
      /\ UNCHANGED <<mode, active, status, writes>>
  BY DEF CancelWaiting, Goto, row, loose
<1>3. /\ waiting \in Seq(JobIds) /\ step \in [JobIds -> Steps]
      /\ \A k \in DOMAIN waiting : waiting[k] \in JobIds /\ Untouched(waiting[k])
  BY LenProperties, ElementOfSeq DEF LifeInv, TypeOK, LineOK
<1>4. /\ waiting' \in Seq(JobIds)
      /\ \A k \in DOMAIN waiting' : \E m \in DOMAIN waiting : m # i /\ waiting'[k] = waiting[m]
      /\ \A k, m \in DOMAIN waiting' : waiting'[k] = waiting'[m] => k = m
  <2>1. \A m, k \in DOMAIN waiting : waiting[m] = waiting[k] => m = k
    BY DEF LifeInv, LineOK
  <2> DEFINE u == SubSeq(waiting, 1, i - 1) \o SubSeq(waiting, i + 1, Len(waiting))
  <2>2. /\ u \in Seq(JobIds)
        /\ \A k \in DOMAIN u : \E m \in DOMAIN waiting : m # i /\ u[k] = waiting[m]
        /\ \A k, m \in DOMAIN u : u[k] = u[m] => k = m
    BY <1>1, <1>3, <2>1, LineWithout
  <2>3. waiting' = u
    BY <1>1
  <2> HIDE DEF u
  <2> QED
    BY <2>2, <2>3
<1>5. ASSUME NEW k \in DOMAIN waiting' PROVE StillUntouched(waiting'[k])
  <2>1. PICK m \in DOMAIN waiting : m # i /\ waiting'[k] = waiting[m]
    BY <1>4
  <2>2. waiting[m] \in JobIds /\ waiting[m] # j /\ Untouched(waiting[m])
    BY <1>1, <1>3, <2>1 DEF LifeInv, LineOK
  <2> QED
    BY <1>2, <1>3, <2>1, <2>2 DEF Untouched, StillUntouched
<1>6. waiting # <<>>
  BY <1>1
<1>7. Cardinality(active') <= MaxConcurrent /\ Cardinality(active') = MaxConcurrent /\ IsFiniteSet(active')
  BY <1>2, <1>6 DEF LifeInv, LineOK
<1>8. LineOK'
  BY <1>2, <1>4, <1>5, <1>7 DEF LineOK, Untouched, StillUntouched
<1> QED
  BY <1>1, <1>3, <1>4, <1>8 DEF Untouched

-----------------------------------------------------------------------------
\* ---- What an action does to its job

\* Nothing JobOK speaks of changes but the step of j.
StepOnly(j) ==
  /\ UNCHANGED <<jobs, status, notified, active, paused, writes, mails, mode>>
  /\ \A k \in JobIds \ {j} : step'[k] = step[k] /\ outcome'[k] = outcome[k]

LEMMA StepKeepsJobs ==
  ASSUME LifeInv, NEW j \in JobIds, step[j] \notin {"none", "reserved"}, StepOnly(j),
         step'[j] \notin {"none", "reserved"}, step'[j] \in Ending => outcome'[j] \in Terminal,
         step'[j] = "blocked" => j \in paused
  PROVE  JobsOK'
<1> SUFFICES ASSUME NEW k \in JobIds PROVE JobOK(k)'
  BY DEF JobsOK
<1>1. JobOK(k) /\ JobOK(j)
  BY DEF LifeInv, JobsOK
<1>2. CASE k = j
  BY <1>1, <1>2 DEF JobOK, StepOnly
<1>3. CASE k # j
  BY <1>1, <1>3 DEF JobOK, StepOnly
<1> QED
  BY <1>2, <1>3

LEMMA StepKeepsLine ==
  ASSUME LifeInv, NEW j \in JobIds, step[j] \notin {"none", "reserved"}, StepOnly(j), UNCHANGED waiting
  PROVE  LineOK'
<1>1. \A k \in JobIds : Untouched(k) =>
        status'[k] = status[k] /\ step'[k] = step[k] /\ writes'[k] = writes[k]
  BY DEF StepOnly, Untouched
<1>2. UNCHANGED queue /\ mode' = mode
  BY DEF StepOnly, queue
<1> QED
  BY <1>1, <1>2, LineStays

\* What the rest of the proof asks of a step
Kept == TypeOK' /\ JobsOK' /\ LineOK'

LEMMA RunKeeps ==
  ASSUME LifeInv, TablesOK', NEW j \in JobIds, Run(j)
  PROVE  Kept
<1>0. JobOK(j) /\ TypeOK /\ "none" \in Steps /\ NoStatus \notin Terminal \cup Live
  BY Slots DEF LifeInv, JobsOK, Steps
<1>a. DbError => errors' \in 0..MaxErrors
  BY <1>0, LifecycleAssumption DEF DbError, TypeOK
<1>1. CASE Enqueue(j)
  <2>1. LineOK' /\ waiting' \in Seq(JobIds) /\ active' \subseteq JobIds
    BY <1>1, EnqueueKeepsLine
  <2>2. step' = Started({j}) \/ step' = [step EXCEPT ![j] = "none"]
    BY <1>1 DEF Enqueue, Goto
  <2>3. /\ \A k \in JobIds \ {j} : step'[k] = step[k] /\ (k \in active' <=> k \in active)
        /\ step'[j] \in {"none", "mark"} /\ (j \in active' => step'[j] = "mark")
    BY <1>0, <1>1 DEF Enqueue, Goto, Started, TypeOK, JobOK, Running
  <2>4. TypeOK'
    BY <1>0, <1>1, <2>1, <2>2 DEF Enqueue, Started, TypeOK, Steps, row, outside, loose
  <2>5. JobsOK'
    <3> SUFFICES ASSUME NEW k \in JobIds PROVE JobOK(k)'
      BY DEF JobsOK
    <3>1. JobOK(k)
      BY DEF LifeInv, JobsOK
    <3>2. /\ UNCHANGED <<jobs, status, notified, paused, writes, mails, mode, outcome>>
          /\ step[j] = "reserved" /\ mode \in {"up", "stopping"}
      BY <1>1 DEF Enqueue, Running, tables, row, loose, outside
    <3>3. CASE k = j
      BY <1>0, <2>3, <3>1, <3>2, <3>3 DEF JobOK, Ending, Live
    <3>4. CASE k # j
      BY <2>3, <3>1, <3>2, <3>4 DEF JobOK
    <3> QED
      BY <3>3, <3>4
  <2> QED
    BY <2>1, <2>4, <2>5 DEF Kept
<1>2. CASE MarkRunning(j)
  <2>1. mode \in {"up", "stopping"} /\ step[j] = "mark"
    BY <1>2 DEF MarkRunning, Running
  <2>2. TypeOK'
    BY <1>0, <1>a, <1>2 DEF MarkRunning, Goto, Thrown, Conclude, TypeOK, Steps, Terminal, Live,
      row, runner, queue, loose, outside
  <2>3. \A k \in JobIds \ {j} : status'[k] = status[k] /\ step'[k] = step[k] /\ outcome'[k] = outcome[k]
    BY <1>0, <1>2 DEF MarkRunning, Goto, Thrown, Conclude, DbError, TypeOK
  <2>4. UNCHANGED <<jobs, notified, paused, writes, mails, mode, active, waiting>>
    BY <1>2 DEF MarkRunning, tables, queue, loose
  <2>5. /\ step'[j] \in {"setup", "persist"} /\ status'[j] \in {status[j], "running"}
        /\ step'[j] = "persist" => outcome'[j] \in Terminal
    BY <1>0, <1>2 DEF MarkRunning, Goto, Thrown, Conclude, DbError, TypeOK, Terminal
  <2>6. JobsOK'
    <3> SUFFICES ASSUME NEW k \in JobIds PROVE JobOK(k)'
      BY DEF JobsOK
    <3>1. JobOK(k)
      BY DEF LifeInv, JobsOK
    <3>2. CASE k = j
      BY <1>0, <2>1, <2>4, <2>5, <3>1, <3>2 DEF JobOK, Ending, Live
    <3>3. CASE k # j
      BY <2>3, <2>4, <3>1, <3>3 DEF JobOK
    <3> QED
      BY <3>2, <3>3
  <2>7. LineOK'
    <3>1. \A k \in JobIds : Untouched(k) =>
            status'[k] = status[k] /\ step'[k] = step[k] /\ writes'[k] = writes[k]
      BY <2>1, <2>3, <2>4 DEF Untouched
    <3> QED
      BY <2>4, <3>1, LineStays DEF queue
  <2> QED
    BY <2>2, <2>6, <2>7 DEF Kept
<1>3. CASE SetUp(j) \/ Gate(j) \/ Work(j) \/ Drain(j) \/ Persist(j)
  <2>1. step[j] \notin {"none", "reserved"}
    BY <1>3 DEF SetUp, Gate, Work, Drain, Persist, Running
  <2>2. TypeOK'
    <3>1. CASE SetUp(j)
      BY <1>0, <3>1 DEF SetUp, Goto, Thrown, Conclude, TypeOK, Steps, Terminal, row, queue, loose, outside
    <3>2. CASE Gate(j)
      <4>1. /\ step' \in [JobIds -> Steps] /\ outcome' \in [JobIds -> Terminal \cup {NoStatus}]
            /\ adrift' \subseteq JobIds
        <5>1. CASE j \in aborted
          <6>1. Thrown(j) /\ adrift' \subseteq adrift \cup {j}
            BY <3>2, <5>1 DEF Gate, ReplayThrows
          <6> QED
            BY <1>0, <6>1 DEF Thrown, Conclude, TypeOK, Steps, Terminal
        <5>2. CASE j \notin aborted
          BY <1>0, <3>2, <5>2 DEF Gate, Goto, TypeOK, Steps
        <5> QED
          BY <5>1, <5>2
      <4> QED
        BY <1>0, <3>2, <4>1 DEF Gate, TypeOK, row, queue, outside
    <3>3. CASE Work(j)
      BY <1>0, <3>3 DEF Work, ReplayThrows, Goto, Thrown, Conclude, TypeOK, Steps, Terminal, row, queue, outside
    <3>4. CASE Drain(j)
      BY <1>0, <3>4 DEF Drain, Thrown, Conclude, TypeOK, Steps, Terminal, row, queue, loose, outside
    <3>5. CASE Persist(j)
      <4>1. PICK t \in {"low", "high"} :
              /\ written' = [written EXCEPT ![j] = t] \/ written' = written
              /\ adrift' \subseteq adrift
        BY <1>0, <3>5 DEF Persist, TypeOK
      <4>2. written' \in [JobIds -> {"low", "high"}] /\ adrift' \subseteq JobIds
        BY <1>0, <4>1 DEF TypeOK
      <4> QED
        BY <1>0, <1>a, <3>5, <4>2 DEF Persist, Goto, TypeOK, Steps, Terminal, row, queue, outside
    <3> QED
      BY <1>3, <3>1, <3>2, <3>3, <3>4, <3>5
  <2>3. StepOnly(j) /\ UNCHANGED waiting
    BY <1>0, <1>3 DEF SetUp, Gate, Work, Drain, Persist, ReplayThrows, Goto, Thrown, Conclude, DbError,
      TypeOK, StepOnly, tables, row, queue, loose, outside
  <2>4. /\ step'[j] \notin {"none", "reserved"}
        /\ step'[j] = "blocked" => j \in paused
        /\ step'[j] \in Ending => outcome'[j] \in Terminal
    <3>1. CASE SetUp(j) \/ Gate(j) \/ Work(j) \/ Drain(j)
      BY <1>0, <3>1 DEF SetUp, Gate, Work, Drain, ReplayThrows, Goto, Thrown, Conclude, TypeOK, Ending, Terminal
    <3>2. CASE Persist(j)
      BY <1>0, <3>2 DEF Persist, Running, Goto, TypeOK, JobOK, Ending
    <3> QED
      BY <1>3, <3>1, <3>2
  <2> QED
    BY <2>1, <2>2, <2>3, <2>4, StepKeepsJobs, StepKeepsLine DEF Kept
<1>4. CASE FinishRow(j)
  <2>1. /\ mode \in {"up", "stopping"} /\ step[j] \in {"finish", "lastChance"} /\ step'[j] = "settle"
        /\ status'[j] \in Terminal /\ outcome[j] \in Terminal
    BY <1>0, <1>4 DEF FinishRow, Running, Goto, TypeOK, JobOK, Ending
  <2>2. /\ \A k \in JobIds \ {j} : status'[k] = status[k] /\ step'[k] = step[k]
        /\ UNCHANGED <<jobs, notified, paused, writes, mails, mode, active, waiting, outcome>>
    BY <1>0, <1>4 DEF FinishRow, Goto, TypeOK, tables, queue, loose, outside
  <2>3. TypeOK'
    BY <1>0, <1>4, <2>1 DEF FinishRow, Goto, TypeOK, Steps, tables, queue, loose, outside
  <2>4. JobsOK'
    <3> SUFFICES ASSUME NEW k \in JobIds PROVE JobOK(k)'
      BY DEF JobsOK
    <3>1. JobOK(k)
      BY DEF LifeInv, JobsOK
    <3>2. CASE k = j
      BY <1>0, <2>1, <2>2, <3>1, <3>2 DEF JobOK, Ending
    <3>3. CASE k # j
      BY <2>2, <3>1, <3>3 DEF JobOK
    <3> QED
      BY <3>2, <3>3
  <2>5. LineOK'
    <3>1. \A k \in JobIds : Untouched(k) =>
            status'[k] = status[k] /\ step'[k] = step[k] /\ writes'[k] = writes[k]
      BY <2>1, <2>2 DEF Untouched
    <3> QED
      BY <2>2, <3>1, LineStays DEF queue
  <2> QED
    BY <2>3, <2>4, <2>5 DEF Kept
<1>5. CASE Release(j) /\ (FinishError(j) \/ Settle(j))
  <2>1. /\ mode \in {"up", "stopping"} /\ step[j] \in {"finish", "lastChance", "settle"}
    BY <1>5 DEF FinishError, Settle, Running
  <2>2. /\ UNCHANGED <<status, mode, writes, adrift, paused, cancelled, broken, written, notified, typed,
                       sweep, asked, mails, crashes>>
        /\ UNCHANGED jobs
    <3>1. CASE FinishError(j)
      BY <3>1 DEF FinishError, tables, row, loose
    <3>2. CASE Settle(j)
      BY <3>2 DEF Settle, PayBack, Refund, tables, row
    <3> QED
      BY <1>5, <3>1, <3>2
  <2>3. /\ LineOK'
        /\ waiting' \in Seq(JobIds) /\ active' \subseteq JobIds /\ j \notin active'
        /\ step' \in [JobIds -> Steps] /\ step'[j] = "none"
        /\ \A k \in JobIds \ {j} :
             \/ step'[k] = step[k] /\ (k \in active' => k \in active)
             \/ Untouched(k) /\ step'[k] = "mark"
    BY <1>5, <2>1, <2>2, ReleaseKeepsLine
  <2>4. outcome' \in [JobIds -> Terminal \cup {NoStatus}] /\ \A k \in JobIds \ {j} : outcome'[k] = outcome[k]
    <3>1. CASE FinishError(j)
      BY <1>0, <3>1 DEF FinishError, Thrown, Conclude, TypeOK, Terminal
    <3>2. CASE Settle(j)
      BY <1>0, <3>2 DEF Settle, TypeOK
    <3> QED
      BY <1>5, <3>1, <3>2
  <2>5. claiming' \subseteq JobIds /\ errors' \in 0..MaxErrors
    <3>1. CASE FinishError(j)
      BY <1>0, <1>a, <3>1 DEF FinishError, TypeOK, loose
    <3>2. CASE Settle(j)
      BY <1>0, <1>a, <3>2 DEF Settle, TypeOK
    <3> QED
      BY <1>5, <3>1, <3>2
  <2>6. TypeOK'
    BY <1>0, <2>2, <2>3, <2>4, <2>5 DEF TypeOK
  <2>7. JobsOK'
    <3> SUFFICES ASSUME NEW k \in JobIds PROVE JobOK(k)'
      BY DEF JobsOK
    <3>1. JobOK(k)
      BY DEF LifeInv, JobsOK
    <3>2. CASE k = j
      BY <1>0, <2>1, <2>2, <2>3, <3>1, <3>2 DEF JobOK, Ending
    <3>3. CASE k # j /\ step'[k] = step[k] /\ (k \in active' => k \in active)
      BY <2>1, <2>2, <2>4, <3>1, <3>3 DEF JobOK
    <3>4. CASE k # j /\ Untouched(k) /\ step'[k] = "mark"
      BY <1>0, <2>1, <2>2, <3>1, <3>4 DEF JobOK, Untouched, Ending, Live
    <3> QED
      BY <2>3, <3>2, <3>3, <3>4
  <2> QED
    BY <2>3, <2>6, <2>7 DEF Kept
<1>6. CASE FinishError(j) /\ ~Release(j)
  <2>1. /\ step[j] \in {"finish", "lastChance"} /\ step[j] \notin {"none", "reserved"}
        /\ UNCHANGED <<tables, row, mode, typed, paused, cancelled, broken, loose, sweep, asked, mails, crashes>>
        /\ errors' \in 0..MaxErrors
    BY <1>a, <1>6 DEF FinishError, Running
  <2>2. /\ UNCHANGED queue
        /\ \E s \in {"persist", "lastChance"}, o \in {"cancelled", "failed"} :
             step' = [step EXCEPT ![j] = s] /\ outcome' = [outcome EXCEPT ![j] = o]
    BY <1>6 DEF FinishError, Thrown, Conclude, Goto
  <2>3. TypeOK'
    BY <1>0, <2>1, <2>2 DEF TypeOK, Steps, Terminal, tables, row, queue, loose
  <2>4. StepOnly(j) /\ UNCHANGED waiting
    BY <1>0, <2>1, <2>2 DEF TypeOK, StepOnly, tables, row, queue, loose
  <2>5. step'[j] \in {"persist", "lastChance"} /\ outcome'[j] \in Terminal
    BY <1>0, <2>2 DEF TypeOK, Terminal
  <2> QED
    BY <2>1, <2>3, <2>4, <2>5, StepKeepsJobs, StepKeepsLine DEF Kept
<1> QED
  BY <1>1, <1>2, <1>3, <1>4, <1>5, <1>6 DEF Run, Settle

-----------------------------------------------------------------------------
\* ---- What an owner, the request and the process do

\* resume() on runners in a slot: those asleep go back to the gate.
LEMMA ResumedKeeps ==
  ASSUME LifeInv, NEW s, s \subseteq active, Resumed(s)
  PROVE  /\ step' \in [JobIds -> Steps] /\ paused' \subseteq paused
         /\ writes' \in [JobIds -> SUBSET {"paused", "running"}]
         /\ \A k \in JobIds :
              /\ step'[k] = step[k] \/ (step[k] = "blocked" /\ step'[k] = "gate")
              /\ writes'[k] = writes[k] \/ k \in active
              /\ step'[k] = "blocked" /\ k \in paused => k \in paused'
<1>1. TypeOK
  BY DEF LifeInv
<1> DEFINE woken == s \cap paused
<1>2. /\ paused' = paused \ woken
      /\ writes' = [k \in JobIds |-> writes[k] \cup (IF k \in woken THEN {"running"} ELSE {})]
      /\ step' = [k \in JobIds |-> IF k \in woken /\ step[k] = "blocked" THEN "gate" ELSE step[k]]
  BY DEF Resumed
<1>3. \A k \in JobIds : writes'[k] = IF k \in woken THEN writes[k] \cup {"running"} ELSE writes[k]
  BY <1>2
<1>4. \A k \in JobIds : step'[k] = IF k \in woken /\ step[k] = "blocked" THEN "gate" ELSE step[k]
  BY <1>2
<1>5. step' \in [JobIds -> Steps]
  BY <1>1, <1>2 DEF TypeOK, Steps
<1>6. writes' \in [JobIds -> SUBSET {"paused", "running"}]
  BY <1>1, <1>2 DEF TypeOK
<1> QED
  BY <1>2, <1>3, <1>4, <1>5, <1>6

\* The job of each runner that was resumed is still JobOK, and so is the line.
LEMMA ResumeKeepsJobs ==
  ASSUME LifeInv, mode = "up", NEW s, s \subseteq active, Resumed(s),
         UNCHANGED <<jobs, status, notified, active, mails, outcome>>, mode' \in {"up", "stopping"},
         waiting' = waiting \/ waiting' = <<>>
  PROVE  JobsOK' /\ LineOK'
<1>1. \A k \in JobIds :
        /\ step'[k] = step[k] \/ (step[k] = "blocked" /\ step'[k] = "gate")
        /\ writes'[k] = writes[k] \/ k \in active
        /\ step'[k] = "blocked" /\ k \in paused => k \in paused'
  BY ResumedKeeps
<1>2. ASSUME NEW k \in JobIds PROVE JobOK(k)'
  <2>1. JobOK(k)
    BY DEF LifeInv, JobsOK
  <2> QED
    BY <1>1, <2>1 DEF JobOK, Ending
<1>a. JobsOK'
  BY <1>2 DEF JobsOK
<1>3. \A k \in JobIds : Untouched(k) =>
        status'[k] = status[k] /\ step'[k] = step[k] /\ writes'[k] = writes[k]
  BY <1>1 DEF Untouched
<1>4. CASE waiting' = waiting
  <2>1. UNCHANGED queue /\ mode' \in {mode, "up", "stopping"}
    BY <1>4 DEF queue
  <2> QED
    BY <1>3, <1>a, <2>1, LineStays
<1>5. CASE waiting' = <<>>
  <2>1. active' = active /\ mode' \notin {"down", "sweeping"}
    OBVIOUS
  <2>2. DOMAIN waiting' = {}
    BY <1>5
  <2>3. IsFiniteSet(active) /\ Cardinality(active) <= MaxConcurrent
    BY DEF LifeInv, LineOK
  <2> QED
    BY <1>5, <1>a, <2>1, <2>2, <2>3 DEF LineOK, Untouched
<1> QED
  BY <1>4, <1>5

LEMMA OwnerKeeps ==
  ASSUME LifeInv, TablesOK', NEW j \in JobIds, OwnerAsks(j)
  PROVE  Kept
<1>0. TypeOK /\ JobOK(j) /\ NoStatus \notin Terminal \cup Live
  BY Slots DEF LifeInv, JobsOK
<1>1. CASE Pause(j)
  <2>1. TypeOK'
    BY <1>0, <1>1 DEF Pause, TypeOK, row, queue, outside
  <2>2. /\ mode = "up" /\ j \in active /\ paused' = paused \cup {j}
        /\ \A k \in JobIds \ {j} : writes'[k] = writes[k]
        /\ UNCHANGED <<jobs, status, notified, mails, active, waiting, step, outcome, mode>>
    BY <1>0, <1>1 DEF Pause, TypeOK, tables, row, queue, outside
  <2>3. ASSUME NEW k \in JobIds PROVE JobOK(k)'
    <3>1. JobOK(k)
      BY DEF LifeInv, JobsOK
    <3> QED
      BY <1>0, <2>2, <3>1 DEF JobOK
  <2>4. \A k \in JobIds : Untouched(k) =>
          status'[k] = status[k] /\ step'[k] = step[k] /\ writes'[k] = writes[k]
    BY <2>2 DEF Untouched
  <2>5. LineOK'
    BY <2>2, <2>4, LineStays DEF queue
  <2> QED
    BY <2>1, <2>3, <2>5 DEF Kept, JobsOK
<1>2. CASE Resume(j)
  <2>1. /\ mode = "up" /\ {j} \subseteq active /\ Resumed({j})
        /\ UNCHANGED <<jobs, status, notified, active, mails, outcome, mode, waiting>>
    BY <1>2 DEF Resume, tables, row, queue, outside
  <2>2. JobsOK' /\ LineOK'
    BY <2>1, ResumeKeepsJobs
  <2>3. step' \in [JobIds -> Steps] /\ paused' \subseteq paused /\ writes' \in [JobIds -> SUBSET {"paused", "running"}]
    BY <2>1, ResumedKeeps
  <2>4. TypeOK'
    BY <1>0, <1>2, <2>3 DEF Resume, TypeOK, row, queue, outside
  <2> QED
    BY <2>2, <2>4 DEF Kept
<1>3. CASE CancelActive(j)
  <2>1. /\ mode = "up" /\ {j} \ aborted \subseteq active /\ Resumed({j} \ aborted)
        /\ UNCHANGED <<jobs, status, notified, active, mails, outcome, mode, waiting>>
    BY <1>3 DEF CancelActive, CancelRunners, tables, row, queue
  <2>2. JobsOK' /\ LineOK'
    BY <2>1, ResumeKeepsJobs
  <2>3. step' \in [JobIds -> Steps] /\ paused' \subseteq paused /\ writes' \in [JobIds -> SUBSET {"paused", "running"}]
    BY <2>1, ResumedKeeps
  <2>4. TypeOK'
    BY <1>0, <1>3, <2>3 DEF CancelActive, CancelRunners, TypeOK, row, queue
  <2> QED
    BY <2>2, <2>4 DEF Kept
<1>4. CASE CancelWaiting(j)
  <2>1. /\ LineOK' /\ waiting' \in Seq(JobIds)
        /\ status[j] = "pending" /\ writes[j] = {} /\ j \notin active
    BY <1>4, CancelWaitingKeepsLine
  <2>2. TypeOK'
    BY <1>0, <1>4, <2>1 DEF CancelWaiting, Goto, TypeOK, Steps, Terminal, row, loose
  <2>3. /\ mode = "up" /\ step'[j] = "finish" /\ outcome'[j] = "cancelled"
        /\ \A k \in JobIds \ {j} : step'[k] = step[k] /\ outcome'[k] = outcome[k]
        /\ UNCHANGED <<jobs, status, notified, mails, active, paused, writes, mode>>
    BY <1>0, <1>4 DEF CancelWaiting, Goto, TypeOK, tables, row, loose
  <2>4. ASSUME NEW k \in JobIds PROVE JobOK(k)'
    <3>1. JobOK(k)
      BY DEF LifeInv, JobsOK
    <3>2. CASE k = j
      BY <1>0, <2>1, <2>3, <3>1, <3>2 DEF JobOK, Terminal, Live
    <3>3. CASE k # j
      BY <2>3, <3>1, <3>3 DEF JobOK
    <3> QED
      BY <3>2, <3>3
  <2> QED
    BY <2>1, <2>2, <2>4 DEF Kept, JobsOK
<1> QED
  BY <1>1, <1>2, <1>3, <1>4 DEF OwnerAsks

\* Nothing that JobOK and LineOK speak of changes.
Aside == UNCHANGED <<status, notified, mails, step, outcome, paused, writes, mode, waiting, active>>

LEMMA AsideKeeps ==
  ASSUME LifeInv, Aside, \A j \in JobIds : jobs'[j] = NoJob => jobs[j] = NoJob
  PROVE  JobsOK' /\ LineOK'
<1>1. ASSUME NEW k \in JobIds PROVE JobOK(k)'
  <2>1. JobOK(k)
    BY DEF LifeInv, JobsOK
  <2> QED
    BY <2>1 DEF JobOK, Aside
<1>2. JobsOK'
  BY <1>1 DEF JobsOK
<1>3. LineOK'
  BY LineStays DEF Aside, queue
<1> QED
  BY <1>2, <1>3

LEMMA OthersKeep ==
  ASSUME LifeInv, TablesOK', NEW j \in JobIds,
         \/ LateFlush(j) \/ Break(j) \/ Claim(j) \/ SweepOne(j)
         \/ \E s \in {"paused", "running"} : Land(j, s)
  PROVE  Kept
<1>0. TypeOK /\ JobOK(j) /\ NoStatus \notin Terminal \cup Live
  BY Slots DEF LifeInv, JobsOK
<1>a. DbError => errors' \in 0..MaxErrors
  BY <1>0, LifecycleAssumption DEF DbError, TypeOK
<1>1. CASE Break(j)
  <2>1. TypeOK'
    BY <1>0, <1>1 DEF Break, TypeOK, row, queue, loose, outside
  <2>2. Aside /\ UNCHANGED jobs
    BY <1>1 DEF Break, Aside, tables, row, queue, loose, outside
  <2> QED
    BY <2>1, <2>2, AsideKeeps DEF Kept
<1>2. CASE Claim(j)
  <2>1. mails' \in [JobIds -> Nat] /\ notified' \subseteq JobIds
    BY <1>0, <1>2 DEF Claim, TypeOK
  <2>2. TypeOK'
    BY <1>0, <1>2, <2>1 DEF Claim, TypeOK, queue, runner
  <2>3. /\ UNCHANGED <<jobs, status, step, outcome, paused, writes, mode, waiting, active>>
        /\ \/ UNCHANGED <<notified, mails>>
           \/ j \notin notified /\ notified' = notified \cup {j} /\ mails' = [mails EXCEPT ![j] = @ + 1]
    BY <1>2 DEF Claim, tables, queue, runner
  <2>4. ASSUME NEW k \in JobIds PROVE mails'[k] = IF k \in notified' THEN 1 ELSE 0
    <3>1. mails[k] = IF k \in notified THEN 1 ELSE 0
      BY DEF LifeInv, JobsOK, JobOK
    <3> QED
      BY <1>0, <2>3, <3>1 DEF TypeOK
  <2>5. ASSUME NEW k \in JobIds PROVE JobOK(k)'
    <3>1. JobOK(k)
      BY DEF LifeInv, JobsOK
    <3> QED
      BY <2>3, <2>4, <3>1 DEF JobOK
  <2>6. LineOK'
    BY <2>3, LineStays DEF queue
  <2> QED
    BY <2>2, <2>5, <2>6 DEF Kept, JobsOK
<1>3. CASE SweepOne(j)
  <2>1. TypeOK'
    BY <1>0, <1>a, <1>3 DEF SweepOne, TypeOK, row, queue, runner
  <2>2. Aside /\ UNCHANGED jobs
    BY <1>3 DEF SweepOne, PayBack, Refund, Aside, tables, row, queue, runner
  <2> QED
    BY <2>1, <2>2, AsideKeeps DEF Kept
<1>4. ASSUME NEW s \in {"paused", "running"}, Land(j, s) PROVE Kept
  <2>1. TypeOK'
    <3>1. writes' \in [JobIds -> SUBSET {"paused", "running"}]
      BY <1>0, <1>4 DEF Land, TypeOK
    <3>2. status' \in [JobIds -> Terminal \cup Live \cup {NoStatus}]
      BY <1>0, <1>4 DEF Land, TypeOK, Live
    <3>3. errors' \in 0..MaxErrors
      BY <1>0, <1>a, <1>4 DEF Land, TypeOK
    <3> QED
      BY <1>0, <1>4, <3>1, <3>2, <3>3 DEF Land, TypeOK, queue, runner
  <2>2. /\ mode \in {"up", "stopping"} /\ writes[j] # {} /\ status'[j] \in {status[j], s}
        /\ \A k \in JobIds \ {j} : status'[k] = status[k] /\ writes'[k] = writes[k]
        /\ writes'[j] \subseteq writes[j]
        /\ UNCHANGED <<jobs, notified, mails, step, outcome, paused, mode, waiting, active>>
    BY <1>0, <1>4 DEF Land, TypeOK, tables, queue, runner
  <2>3. ASSUME NEW k \in JobIds PROVE JobOK(k)'
    <3>1. JobOK(k)
      BY DEF LifeInv, JobsOK
    <3>2. CASE k = j
      BY <1>0, <2>2, <3>1, <3>2 DEF JobOK, Live
    <3>3. CASE k # j
      BY <2>2, <3>1, <3>3 DEF JobOK
    <3> QED
      BY <3>2, <3>3
  <2>4. \A k \in JobIds : Untouched(k) =>
          status'[k] = status[k] /\ step'[k] = step[k] /\ writes'[k] = writes[k]
    BY <2>2 DEF Untouched
  <2>5. LineOK'
    BY <2>2, <2>4, LineStays DEF queue
  <2> QED
    BY <2>1, <2>3, <2>5 DEF Kept, JobsOK
<1>5. CASE LateFlush(j)
  <2>1. TypeOK'
    BY <1>0, <1>5 DEF LateFlush, TypeOK, queue, runner, outside
  <2>2. Aside /\ UNCHANGED jobs
    BY <1>5 DEF LateFlush, Aside, tables, queue, runner, outside
  <2> QED
    BY <2>1, <2>2, AsideKeeps DEF Kept
<1> QED
  BY <1>1, <1>2, <1>3, <1>4, <1>5

LEMMA RequestKeeps ==
  ASSUME LifeInv, TablesOK', NEW u \in Users, NEW j \in JobIds, NEW cost \in Costs, ReserveJob(u, j, cost)
  PROVE  Kept
<1>0. TypeOK /\ JobOK(j) /\ NoStatus \notin Terminal \cup Live
  BY Slots DEF LifeInv, JobsOK
<1>1. TypeOK'
  BY <1>0 DEF ReserveJob, Goto, TypeOK, Steps, Live, queue, loose, outside
<1>2. /\ mode = "up" /\ jobs[j] = NoJob /\ jobs'[j] = [user |-> u, spent |-> cost]
      /\ \A k \in JobIds \ {j} : jobs'[k] = jobs[k] /\ status'[k] = status[k] /\ step'[k] = step[k]
      /\ status'[j] = "pending" /\ step'[j] = "reserved"
      /\ UNCHANGED <<notified, mails, outcome, paused, writes, mode, waiting, active>>
  BY <1>0 DEF ReserveJob, Reserve, Goto, TypeOK, TablesOK, queue, loose, outside
<1>3. status[j] = NoStatus /\ step[j] = "none" /\ writes[j] = {} /\ j \notin active /\ jobs'[j] # NoJob
  <2>1. jobs'[j] \in JobRow
    BY <1>2, RowsAssumption DEF JobRow
  <2> QED
    BY <1>0, <1>2, <2>1, RowsAssumption DEF JobOK
<1>4. ASSUME NEW k \in JobIds PROVE JobOK(k)'
  <2>1. JobOK(k)
    BY DEF LifeInv, JobsOK
  <2>2. CASE k = j
    BY <1>0, <1>2, <1>3, <2>1, <2>2 DEF JobOK, Ending, Live
  <2>3. CASE k # j
    BY <1>2, <2>1, <2>3 DEF JobOK
  <2> QED
    BY <2>2, <2>3
<1>5. \A k \in JobIds : Untouched(k) =>
        status'[k] = status[k] /\ step'[k] = step[k] /\ writes'[k] = writes[k]
  BY <1>0, <1>2, <1>3 DEF Untouched, Live
<1>6. LineOK'
  BY <1>2, <1>5, LineStays DEF queue
<1> QED
  BY <1>1, <1>4, <1>6 DEF Kept, JobsOK

LEMMA ProcessKeeps == ASSUME LifeInv, TablesOK', Process PROVE Kept
<1>0. TypeOK /\ NoStatus \notin Terminal \cup Live
  BY Slots DEF LifeInv
<1>a. crashes < MaxCrashes /\ crashes' = crashes + 1 => crashes' \in 0..MaxCrashes
  BY <1>0, LifecycleAssumption DEF TypeOK
<1>e. <<>> \in Seq(JobIds) /\ DOMAIN <<>> = {}
  BY EmptySeq
<1>1. CASE Shutdown
  <2>1. /\ mode = "up" /\ mode' = "stopping" /\ waiting' = <<>> /\ active \ aborted \subseteq active
        /\ Resumed(active \ aborted) /\ cancelled' = cancelled \cup (active \ aborted)
        /\ UNCHANGED <<jobs, status, notified, active, mails, outcome>>
    BY <1>1 DEF Shutdown, CancelRunners, tables, row
  <2>2. JobsOK' /\ LineOK'
    BY <2>1, ResumeKeepsJobs
  <2>3. step' \in [JobIds -> Steps] /\ paused' \subseteq paused /\ writes' \in [JobIds -> SUBSET {"paused", "running"}]
    BY <2>1, ResumedKeeps
  <2>4. TypeOK'
    BY <1>0, <1>a, <1>e, <1>1, <2>1, <2>3 DEF Shutdown, TypeOK, row
  <2> QED
    BY <2>2, <2>4 DEF Kept
<1>2. CASE Exit \/ Crash
  <2>1. Die /\ crashes' \in 0..MaxCrashes
    BY <1>0, <1>a, <1>2 DEF Exit, Crash, TypeOK
  <2>2. TypeOK'
    BY <1>0, <1>e, <2>1 DEF Die, TypeOK, Steps, row
  <2>3. ASSUME NEW k \in JobIds PROVE JobOK(k)'
    <3>1. JobOK(k)
      BY DEF LifeInv, JobsOK
    <3> QED
      BY <2>1, <3>1 DEF JobOK, Die, Ending, tables, row
  <2>4. LineOK'
    <3>1. IsFiniteSet({}) /\ Cardinality({}) = 0 /\ MaxConcurrent \in Nat
      BY FS_EmptySet, Slots
    <3> QED
      BY <1>e, <2>1, <3>1 DEF LineOK, Die, Untouched
  <2> QED
    BY <2>2, <2>3, <2>4 DEF Kept, JobsOK
<1>3. CASE Boot
  <2>1. TypeOK'
    BY <1>0, <1>3 DEF Boot, TypeOK, Terminal, queue, runner, loose, outside
  <2>2. /\ mode = "down" /\ mode' = "sweeping"
        /\ \A k \in JobIds : status'[k] = status[k] \/ (status[k] \in Live /\ status'[k] = "failed")
        /\ UNCHANGED <<jobs, notified, mails, step, outcome, paused, writes, waiting, active>>
    BY <1>0, <1>3 DEF Boot, TypeOK, tables, queue, runner, loose, outside
  <2>3. ASSUME NEW k \in JobIds PROVE JobOK(k)'
    <3>1. JobOK(k)
      BY DEF LifeInv, JobsOK
    <3> QED
      BY <1>0, <2>2, <3>1 DEF JobOK, Terminal, Ending
  <2>4. LineOK'
    BY <1>e, <2>2 DEF LifeInv, LineOK, Untouched
  <2> QED
    BY <2>1, <2>3, <2>4 DEF Kept, JobsOK
<1>4. CASE Listen
  <2>1. TypeOK'
    BY <1>0, <1>4 DEF Listen, TypeOK, row, queue, runner, loose, outside
  <2>2. /\ mode = "sweeping" /\ mode' = "up"
        /\ UNCHANGED <<jobs, status, notified, mails, step, outcome, paused, writes, waiting, active>>
    BY <1>4 DEF Listen, tables, row, queue, runner, loose, outside
  <2>3. ASSUME NEW k \in JobIds PROVE JobOK(k)'
    <3>1. JobOK(k)
      BY DEF LifeInv, JobsOK
    <3> QED
      BY <2>2, <3>1 DEF JobOK
  <2>4. LineOK'
    BY <2>2, LineStays DEF queue
  <2> QED
    BY <2>1, <2>3, <2>4 DEF Kept, JobsOK
<1> QED
  BY <1>1, <1>2, <1>3, <1>4 DEF Process

LEMMA InitLife == Init => LifeInv
<1> SUFFICES ASSUME Init PROVE LifeInv
  OBVIOUS
<1>1. TablesOK
  BY AccountInitInv DEF Init, AccountInv
<1>2. IsFiniteSet({}) /\ Cardinality({}) = 0 /\ MaxConcurrent \in Nat /\ <<>> \in Seq(JobIds) /\ DOMAIN <<>> = {}
  BY FS_EmptySet, Slots, EmptySeq
<1>3. TypeOK
  BY <1>1, <1>2, LifecycleAssumption DEF Init, TypeOK, Steps
<1>4. JobsOK
  BY DEF Init, AccountInit, JobsOK, JobOK, Ending
<1>5. LineOK
  BY <1>2 DEF Init, LineOK
<1> QED
  BY <1>3, <1>4, <1>5 DEF LifeInv

LEMMA StepKeepsLife == LifeInv /\ TablesOK' /\ [Next]_vars => LifeInv'
<1> SUFFICES ASSUME LifeInv, TablesOK', [Next]_vars PROVE Kept
  BY DEF LifeInv, Kept
<1>0. TypeOK
  BY DEF LifeInv
<1>1. CASE TopUp
  <2>1. TypeOK'
    BY <1>0, <1>1 DEF TopUp, TypeOK, row, queue, runner, loose, outside
  <2>2. Aside /\ UNCHANGED jobs
    BY <1>1 DEF TopUp, Grant, Aside, row, queue, runner, loose, outside
  <2> QED
    BY <2>1, <2>2, AsideKeeps DEF Kept
<1>2. CASE \E u \in Users, j \in JobIds, cost \in Costs : ReserveJob(u, j, cost)
  BY <1>2, RequestKeeps
<1>3. ASSUME NEW j \in JobIds, Run(j) PROVE Kept
  BY <1>3, RunKeeps
<1>4. ASSUME NEW j \in JobIds, OwnerAsks(j) PROVE Kept
  BY <1>4, OwnerKeeps
<1>5. ASSUME NEW j \in JobIds,
             \/ LateFlush(j) \/ Break(j) \/ Claim(j) \/ SweepOne(j)
             \/ \E s \in {"paused", "running"} : Land(j, s)
      PROVE  Kept
  BY <1>5, OthersKeep
<1>6. CASE Process
  BY <1>6, ProcessKeeps
<1>7. CASE UNCHANGED vars
  <2>1. TypeOK'
    BY <1>0, <1>7 DEF vars, TypeOK, row, queue, runner, loose, outside
  <2>2. Aside /\ UNCHANGED jobs
    BY <1>7 DEF vars, Aside, tables, row, queue, runner, loose, outside
  <2> QED
    BY <2>1, <2>2, AsideKeeps DEF Kept
<1> QED
  BY <1>1, <1>2, <1>3, <1>4, <1>5, <1>6, <1>7 DEF Next

LEMMA LifeKept == Spec => []LifeInv
  BY InitLife, StepKeepsLife, LifecycleBooks, PTL DEF Spec

-----------------------------------------------------------------------------
\* ---- What follows

\* A line without repetitions has as many jobs as entries.
LEMMA LineCounted == LifeInv => Cardinality(Queued) = Len(waiting)
<1> SUFFICES ASSUME LifeInv PROVE Cardinality(Queued) = Len(waiting)
  OBVIOUS
<1>1. waiting \in Seq(JobIds) /\ \A i, k \in DOMAIN waiting : waiting[i] = waiting[k] => i = k
  BY DEF LifeInv, TypeOK, LineOK
<1>2. Len(waiting) \in Nat /\ DOMAIN waiting = 1..Len(waiting)
  BY <1>1, LenProperties
<1> DEFINE f == [i \in 1..Len(waiting) |-> waiting[i]]
<1>3. f \in Bijection(1..Len(waiting), Queued)
  BY <1>1, <1>2 DEF Queued, Bijection, Injection, Surjection, IsInjective
<1>4. ExistsBijection(1..Len(waiting), Queued)
  BY <1>3 DEF ExistsBijection
<1> QED
  BY <1>2, <1>4, FS_CountingElements, FS_NatBijection

\* queue.ts:30-74 with runner.ts and index.ts: at every moment of every run, any
\* number of jobs and slots, restarts included, no runner is beyond the slots,
\* nobody waits beside a free one, and a job is in the line once or in a slot.
THEOREM QueueKeepsShape == Spec => []QueueOK
<1>1. LifeInv => QueueOK
  <2> SUFFICES ASSUME LifeInv PROVE QueueOK
    OBVIOUS
  <2>1. \A i \in DOMAIN waiting : waiting[i] \in JobIds /\ Untouched(waiting[i])
    BY LenProperties, ElementOfSeq DEF LifeInv, TypeOK, LineOK
  <2>2. \A j \in Queued : j \notin active /\ status[j] = "pending" /\ step[j] = "none"
    BY <2>1 DEF Queued, Untouched
  <2>3. \A j \in active : step[j] \notin {"none", "reserved"}
    BY DEF LifeInv, TypeOK, JobsOK, JobOK
  <2> QED
    BY <2>2, <2>3, LineCounted DEF LifeInv, LineOK, QueueOK
<1> QED
  BY <1>1, LifeKept, PTL

\* notify.ts:53 claim() and the paths of db/jobs.ts that reach it: whoever ends a
\* job, and however often it is ended, its owner hears of it once.
THEOREM OneAnnouncement == Spec => []AnnouncedOnce
<1>1. LifeInv => AnnouncedOnce
  BY DEF LifeInv, JobsOK, JobOK, AnnouncedOnce
<1> QED
  BY <1>1, LifeKept, PTL

\* runner.ts:102-134: pause, resume, cancel and shutdown never leave a runner
\* asleep in the gate with its flag already down.
THEOREM NobodySleepsUnpaused == Spec => []BlockedIsPaused
<1>1. LifeInv => BlockedIsPaused
  BY DEF LifeInv, JobsOK, JobOK, BlockedIsPaused
<1> QED
  BY <1>1, LifeKept, PTL

-----------------------------------------------------------------------------
\* ---- A job its owner does not pause

\* Nothing writes its status but its request, its runner and the boot sweep, one
\* after the other: it is live while one of the first two has it, and has its
\* outcome once it is to be settled.
Course(j) ==
  /\ writes[j] = {} /\ j \notin paused
  /\ step[j] \notin {"none", "settle"} => status[j] \in Live
  /\ step[j] = "settle" => status[j] = outcome[j] /\ status[j] \in Terminal
  /\ mode = "sweeping" => status[j] \notin Live
  /\ j \in sweep => mode = "sweeping" /\ status[j] = "failed"

\* It is paid back only once it has an outcome that may owe it.
PaidBackRightly(j) == Booked(ledger, "job_refund", j) => status[j] \in {"failed", "cancelled"}

\* Who is owed for a cancelled job is paid by the statement its runner is at.
Unsettled(j) ==
  /\ status[j] = "cancelled" /\ written[j] = "low" /\ jobs[j].spent > 0
  /\ ~Booked(ledger, "job_refund", j)
PaidBackInTime(j) == errors = 0 /\ crashes = 0 /\ Unsettled(j) => step[j] = "settle"

\* The server only leaves "up" when it was told to stop, or died.
ToldToStop == mode # "up" => crashes > 0

\* While the server is up and Postgres refused nothing, somebody has a live job.
Attended(j) ==
  mode = "up" /\ errors = 0 /\ status[j] \in Live => step[j] # "none" \/ j \in Queued

CourseInv ==
  /\ ToldToStop
  /\ \A j \in JobIds \ Pausable : Course(j) /\ PaidBackRightly(j) /\ PaidBackInTime(j) /\ Attended(j)

\* Its status is written while it is live, if at all.
StatusKept(j) == status'[j] = status[j]

\* A step that gives it no outcome: it goes on, comes to rest, or is not touched.
GoesOn(j) ==
  /\ writes'[j] = writes[j] /\ j \notin paused'
  /\ status'[j] = status[j] \/ (status[j] \in Live /\ status'[j] \in Live)
  /\ \/ step'[j] = step[j] /\ outcome'[j] = outcome[j]
     \/ step'[j] = "none"
     \/ step'[j] \notin {"none", "settle"} /\ status'[j] \in Live
  /\ mode' = "sweeping" => mode = "sweeping"
  /\ j \in sweep' => j \in sweep /\ mode' = mode

LEMMA LiveIsNotTerminal == Live \cap Terminal = {} /\ "failed" \in Terminal
  BY DEF Live, Terminal

LEMMA GoingOnKeeps ==
  ASSUME NEW j \in JobIds, Course(j), GoesOn(j)
  PROVE  Course(j)' /\ (status[j] \in Terminal => StatusKept(j))
<1>1. status[j] \in Terminal => StatusKept(j)
  BY LiveIsNotTerminal DEF GoesOn, StatusKept
<1>2. (writes[j] = {} /\ j \notin paused)'
  BY DEF Course, GoesOn
<1>3. (step[j] \notin {"none", "settle"} => status[j] \in Live)'
  BY DEF Course, GoesOn
<1>4. (step[j] = "settle" => status[j] = outcome[j] /\ status[j] \in Terminal)'
  BY LiveIsNotTerminal DEF Course, GoesOn
<1>5. (mode = "sweeping" => status[j] \notin Live)'
  BY DEF Course, GoesOn
<1>6. (j \in sweep => mode = "sweeping" /\ status[j] = "failed")'
  BY LiveIsNotTerminal DEF Course, GoesOn
<1>7. QED BY <1>1, <1>2, <1>3, <1>4, <1>5, <1>6 DEF Course

\* The requests, runners and owners of other jobs leave it as it is, or start it.
LEMMA OthersRun ==
  ASSUME LifeInv, NEW j \in JobIds, Course(j), NEW k \in JobIds \ {j}, Run(k)
  PROVE  GoesOn(j)
<1>0. TypeOK
  BY DEF LifeInv
<1>1. CASE Enqueue(k)
  BY <1>0, <1>1 DEF Enqueue, Started, Goto, GoesOn, Course, TypeOK, tables, row, loose, outside
<1>2. CASE MarkRunning(k)
  BY <1>0, <1>2 DEF MarkRunning, Thrown, Conclude, Goto, GoesOn, Course, TypeOK, tables, queue, loose
<1>3. CASE SetUp(k) \/ Gate(k) \/ Drain(k)
  BY <1>0, <1>3 DEF SetUp, Gate, Drain, ReplayThrows, Thrown, Conclude, Goto, GoesOn, Course, TypeOK,
                    tables, row, queue, loose, outside
<1>4. CASE Work(k)
  BY <1>0, <1>4 DEF Work, ReplayThrows, Thrown, Conclude, Goto, GoesOn, Course, TypeOK, tables, queue, outside
<1>5. CASE Persist(k)
  BY <1>0, <1>5 DEF Persist, Goto, GoesOn, Course, TypeOK, tables, queue, loose
<1>6. CASE FinishRow(k)
  BY <1>0, <1>6 DEF FinishRow, Goto, GoesOn, Course, TypeOK, tables, queue, loose, outside
<1>7. CASE (FinishError(k) \/ Settle(k)) /\ Release(k)
  <2>1. mode \in {"up", "stopping"} /\ step[k] \notin {"none", "reserved"}
    BY <1>7 DEF FinishError, Settle, Running
  <2>2. UNCHANGED <<status, mode, writes, paused, sweep>>
    BY <1>7 DEF FinishError, Settle, row, loose
  <2>3. outcome'[j] = outcome[j]
    BY <1>0, <1>7 DEF FinishError, Settle, Thrown, Conclude, TypeOK
  <2>4. step'[j] = step[j] \/ (status[j] = "pending" /\ step'[j] = "mark")
    BY <1>7, <2>1, <2>2, ReleaseKeepsLine DEF Untouched
  <2>5. QED BY <2>2, <2>3, <2>4 DEF GoesOn, Course, Live
<1>8. CASE FinishError(k) /\ ~Release(k)
  BY <1>0, <1>8 DEF FinishError, Thrown, Conclude, Goto, GoesOn, Course, TypeOK, tables, row, loose
<1>9. QED BY <1>1, <1>2, <1>3, <1>4, <1>5, <1>6, <1>7, <1>8 DEF Run, Settle

\* Its own request and runner carry it to its outcome.
LEMMA OwnRun ==
  ASSUME LifeInv, NEW j \in JobIds, Course(j), Run(j)
  PROVE  Course(j)' /\ (status[j] \in Terminal => StatusKept(j))
<1>0. TypeOK /\ JobOK(j)
  BY DEF LifeInv, JobsOK
<1>1. CASE Enqueue(j)
  <2>1. step[j] = "reserved" /\ status[j] \in Live
    BY <1>1 DEF Enqueue, Running, Course
  <2>2. GoesOn(j)
    BY <1>0, <1>1, <2>1 DEF Enqueue, Started, Goto, GoesOn, Course, TypeOK, tables, row, loose, outside
  <2>3. QED BY <2>2, GoingOnKeeps
<1>2. CASE MarkRunning(j)
  <2>1. step[j] = "mark" /\ status[j] \in Live
    BY <1>2 DEF MarkRunning, Running, Course
  <2>2. step'[j] \notin {"none", "settle"} /\ status'[j] \in Live
    BY <1>0, <1>2, <2>1 DEF MarkRunning, Thrown, Conclude, Goto, TypeOK, Live
  <2>3. GoesOn(j)
    BY <1>2, <2>1, <2>2 DEF MarkRunning, GoesOn, Course, queue, loose
  <2>4. QED BY <2>3, GoingOnKeeps
<1>3. CASE SetUp(j) \/ Gate(j) \/ Drain(j) \/ Work(j) \/ Persist(j)
  <2>1. status[j] \in Live
    BY <1>3 DEF SetUp, Gate, Drain, Work, Persist, Running, Course
  <2>2. step'[j] \notin {"none", "settle"} /\ status'[j] = status[j]
    BY <1>0, <1>3 DEF SetUp, Gate, Drain, Work, Persist, ReplayThrows, Thrown, Conclude, Goto, TypeOK, row
  <2>3. UNCHANGED <<writes, paused, mode, sweep>>
    BY <1>3 DEF SetUp, Gate, Drain, Work, Persist, loose
  <2>4. GoesOn(j)
    BY <2>1, <2>2, <2>3 DEF GoesOn, Course
  <2>5. QED BY <2>4, GoingOnKeeps
<1>4. CASE FinishRow(j)
  <2>1. status[j] \in Live /\ outcome[j] \in Terminal
    BY <1>0, <1>4 DEF FinishRow, Running, Course, JobOK, Ending
  <2>2. /\ step'[j] = "settle" /\ status'[j] = outcome[j] /\ outcome'[j] = outcome[j]
        /\ UNCHANGED <<writes, paused, mode, sweep>> /\ mode # "sweeping"
    BY <1>0, <1>4 DEF FinishRow, Running, Goto, TypeOK, loose
  <2>3. Course(j)'
    BY <2>1, <2>2 DEF Course
  <2>4. QED BY <2>1, <2>3, LiveIsNotTerminal
<1>5. CASE FinishError(j) \/ Settle(j)
  <2>1. UNCHANGED <<status, mode, writes, paused, sweep>>
    BY <1>5 DEF FinishError, Settle, row, loose
  <2>2. step'[j] \notin {"none", "settle"} => status[j] \in Live
    <3>1. CASE FinishError(j)
      BY <3>1 DEF FinishError, Running, Course
    <3>2. CASE Settle(j)
      <4>1. step'[j] = "none"
        BY <1>0, <3>2, ReleaseKeepsLine DEF Settle, Running, row
      <4>2. QED BY <4>1
    <3>3. QED BY <1>5, <3>1, <3>2
  <2>3. step'[j] # "settle"
    <3>1. CASE Release(j)
      <4>1. step'[j] = "none"
        BY <1>0, <1>5, <3>1, <2>1, ReleaseKeepsLine DEF FinishError, Settle, Running
      <4>2. QED BY <4>1
    <3>2. CASE ~Release(j)
      BY <1>0, <1>5, <3>2 DEF FinishError, Settle, Thrown, Conclude, Goto, TypeOK
    <3>3. QED BY <3>1, <3>2
  <2>4. GoesOn(j)
    BY <2>1, <2>2, <2>3 DEF GoesOn, Course
  <2>5. QED BY <2>4, GoingOnKeeps
<1>6. QED BY <1>1, <1>2, <1>3, <1>4, <1>5 DEF Run

\* Nobody who may not pause it wakes it, and a cancelled queued job was pending.
LEMMA OwnersLetItGoOn ==
  ASSUME LifeInv, NEW j \in JobIds \ Pausable, Course(j), NEW k \in JobIds, OwnerAsks(k)
  PROVE  GoesOn(j)
<1>0. TypeOK
  BY DEF LifeInv
<1>1. CASE Pause(k)
  <2>1. k # j
    BY <1>1 DEF Pause
  <2>2. QED BY <1>0, <1>1, <2>1 DEF Pause, GoesOn, Course, TypeOK, tables, row, queue, outside
<1>2. CASE Resume(k) \/ CancelActive(k)
  <2>1. PICK s : Resumed(s)
    BY <1>2 DEF Resume, CancelActive, CancelRunners
  <2>2. step'[j] = step[j] /\ writes'[j] = writes[j] /\ j \notin paused'
    BY <1>0, <2>1 DEF Resumed, Course, TypeOK
  <2>3. UNCHANGED <<status, outcome, mode, sweep>>
    BY <1>2 DEF Resume, CancelActive, row, queue, outside
  <2>4. QED BY <2>2, <2>3 DEF GoesOn, Course
<1>3. CASE CancelWaiting(k)
  <2>1. status[k] = "pending"
    BY <1>3, CancelWaitingKeepsLine
  <2>2. UNCHANGED <<status, writes, paused, mode, sweep>>
    BY <1>3 DEF CancelWaiting, row, loose
  <2>3. IF j = k THEN step'[j] = "finish" ELSE step'[j] = step[j] /\ outcome'[j] = outcome[j]
    BY <1>0, <1>3 DEF CancelWaiting, Goto, TypeOK
  <2>4. QED BY <2>1, <2>2, <2>3 DEF GoesOn, Course, Live
<1>4. QED BY <1>1, <1>2, <1>3 DEF OwnerAsks

\* Once it has an outcome its status is written no more.
LEMMA CourseKept ==
  ASSUME LifeInv, TablesOK', NEW j \in JobIds \ Pausable, Course(j), [Next]_vars
  PROVE  Course(j)' /\ (status[j] \in Terminal => StatusKept(j))
<1>0. TypeOK /\ JobOK(j) /\ NoStatus \notin Terminal \cup Live
  BY Slots DEF LifeInv, JobsOK
<1>1. CASE TopUp \/ UNCHANGED vars
  <2>1. UNCHANGED <<status, writes, paused, step, outcome, mode, sweep>>
    BY <1>1 DEF TopUp, vars, row, runner, loose
  <2>2. QED BY <2>1, GoingOnKeeps DEF GoesOn, Course
<1>2. ASSUME NEW u \in Users, NEW k \in JobIds, NEW cost \in Costs, ReserveJob(u, k, cost)
      PROVE  Course(j)' /\ (status[j] \in Terminal => StatusKept(j))
  <2>1. UNCHANGED <<writes, paused, outcome, mode, sweep>> /\ mode = "up"
    BY <1>2 DEF ReserveJob, loose
  <2>2. CASE k # j
    <3>1. status'[j] = status[j] /\ step'[j] = step[j]
      BY <1>0, <1>2, <2>2 DEF ReserveJob, Goto, TypeOK
    <3>2. QED BY <2>1, <3>1, GoingOnKeeps DEF GoesOn, Course
  <2>3. CASE k = j
    <3>1. status[j] = NoStatus /\ status'[j] = "pending" /\ step'[j] = "reserved"
      BY <1>0, <1>2, <2>3 DEF ReserveJob, Reserve, Goto, TypeOK, JobOK
    <3>2. j \notin sweep
      BY <2>1 DEF Course
    <3>3. Course(j)'
      BY <2>1, <3>1, <3>2 DEF Course, Live
    <3>4. QED BY <1>0, <3>1, <3>3
  <2>4. QED BY <2>2, <2>3
<1>3. ASSUME NEW k \in JobIds, Run(k)
      PROVE  Course(j)' /\ (status[j] \in Terminal => StatusKept(j))
  BY <1>3, OwnRun, OthersRun, GoingOnKeeps
<1>4. ASSUME NEW k \in JobIds, OwnerAsks(k)
      PROVE  Course(j)' /\ (status[j] \in Terminal => StatusKept(j))
  BY <1>4, OwnersLetItGoOn, GoingOnKeeps
<1>5. ASSUME NEW k \in JobIds,
             \/ LateFlush(k) \/ Break(k) \/ Claim(k) \/ SweepOne(k)
             \/ \E s \in {"paused", "running"} : Land(k, s)
      PROVE  Course(j)' /\ (status[j] \in Terminal => StatusKept(j))
  <2>1. CASE LateFlush(k) \/ Break(k) \/ Claim(k) \/ SweepOne(k)
    <3>1. UNCHANGED <<status, writes, paused, step, outcome, mode>> /\ sweep' \subseteq sweep
      BY <2>1 DEF LateFlush, Break, Claim, SweepOne, row, runner, loose
    <3>2. QED BY <3>1, GoingOnKeeps DEF GoesOn, Course
  <2>2. ASSUME NEW s \in {"paused", "running"}, Land(k, s)
        PROVE  Course(j)' /\ (status[j] \in Terminal => StatusKept(j))
    <3>1. k # j
      BY <2>2 DEF Land, Course
    <3>2. /\ status'[j] = status[j] /\ writes'[j] = writes[j]
          /\ UNCHANGED <<paused, step, outcome, mode, sweep>>
      BY <1>0, <2>2, <3>1 DEF Land, TypeOK, runner
    <3>3. QED BY <3>2, GoingOnKeeps DEF GoesOn, Course
  <2>3. QED BY <1>5, <2>1, <2>2
<1>6. CASE Shutdown
  <2>1. PICK s : Resumed(s)
    BY <1>6 DEF Shutdown, CancelRunners
  <2>2. step'[j] = step[j] /\ writes'[j] = writes[j] /\ j \notin paused'
    BY <1>0, <2>1 DEF Resumed, Course, TypeOK
  <2>3. UNCHANGED <<status, outcome, sweep>> /\ mode = "up" /\ mode' = "stopping"
    BY <1>6 DEF Shutdown, row
  <2>4. GoesOn(j)
    BY <2>2, <2>3 DEF GoesOn, Course
  <2>5. QED BY <2>4, GoingOnKeeps
<1>7. CASE Exit \/ Crash
  <2>1. Die
    BY <1>7 DEF Exit, Crash
  <2>2. /\ UNCHANGED status /\ step'[j] = "none" /\ writes'[j] = {} /\ paused' = {}
        /\ mode' = "down" /\ sweep' = {}
    BY <2>1 DEF Die, row
  <2>3. QED BY <2>2, GoingOnKeeps DEF GoesOn, Course
<1>8. CASE Boot
  <2>1. /\ mode = "down" /\ mode' = "sweeping" /\ UNCHANGED <<step, outcome, writes, paused>>
        /\ status'[j] = (IF status[j] \in Live THEN "failed" ELSE status[j])
        /\ j \in sweep' => status[j] \in Live
    BY <1>8 DEF Boot, runner, loose
  <2>2. step[j] = "none"
    BY <1>0, <2>1 DEF JobOK
  <2>3. Course(j)'
    BY <2>1, <2>2, LiveIsNotTerminal DEF Course
  <2>4. QED BY <2>1, <2>3, LiveIsNotTerminal DEF StatusKept
<1>9. CASE Listen
  <2>1. UNCHANGED <<status, writes, paused, step, outcome, sweep>> /\ mode' = "up" /\ sweep = {}
    BY <1>9 DEF Listen, row, runner, loose
  <2>2. QED BY <2>1, GoingOnKeeps DEF GoesOn, Course
<1>10. QED
  BY <1>1, <1>2, <1>3, <1>4, <1>5, <1>6, <1>7, <1>8, <1>9 DEF Next, Process

\* ---- What is paid back

\* Only a settle or the sweep books a refund, each under an outcome that owes it.
LEMMA RefundsBooked ==
  ASSUME LifeInv, NEW j \in JobIds, [Next]_vars, Booked(ledger', "job_refund", j)
  PROVE  \/ Booked(ledger, "job_refund", j)
         \/ Settle(j) /\ Owed(j, outcome[j])
         \/ SweepOne(j) /\ Owed(j, "failed")
<1>0. TablesOK
  BY DEF LifeInv, TypeOK
<1>1. ASSUME ledger' = ledger PROVE Booked(ledger, "job_refund", j)
  BY <1>1
<1>2. ASSUME NEW u \in Users, NEW delta \in Int, NEW reason \in Reasons, NEW reference \in References,
             Move(u, delta, reason, reference)
      PROVE  Booked(ledger, "job_refund", j) \/ (reason = "job_refund" /\ reference = j)
  BY <1>0, <1>2, MoveBooks
<1>3. ASSUME NEW k \in JobIds, Refund(k) PROVE Booked(ledger, "job_refund", j) \/ k = j
  <2>1. jobs[k].user \in Users /\ jobs[k].spent \in Int /\ "job_refund" \in Reasons /\ k \in References
    BY <1>0, <1>3 DEF Refund, TablesOK, JobRow, Reasons, References
  <2>2. Move(jobs[k].user, jobs[k].spent, "job_refund", k)
    BY <1>3 DEF Refund
  <2>3. QED BY <1>2, <2>1, <2>2
<1>4. CASE TopUp
  <2>1. PICK r \in Refs, amount \in Amounts : Move(Owner[r], amount, ReasonOf[r], r)
    BY <1>4 DEF TopUp, Grant
  <2>2. /\ Owner[r] \in Users /\ amount \in Int /\ ReasonOf[r] \in Reasons /\ r \in References
        /\ ReasonOf[r] # "job_refund"
    BY RowsAssumption DEF GrantReasons, Reasons, References
  <2>3. QED BY <1>2, <2>1, <2>2
<1>5. ASSUME NEW u \in Users, NEW k \in JobIds, NEW cost \in Costs, ReserveJob(u, k, cost)
      PROVE  Booked(ledger, "job_refund", j)
  <2>1. ledger' = ledger \/ Move(u, -cost, "job_reserve", k)
    BY <1>5 DEF ReserveJob, Reserve
  <2>2. -cost \in Int /\ "job_reserve" \in Reasons /\ k \in References
    BY RowsAssumption DEF Reasons, References
  <2>3. QED BY <1>1, <1>2, <2>1, <2>2
<1>6. ASSUME NEW k \in JobIds, NEW o, PayBack(k, o)
      PROVE  Booked(ledger, "job_refund", j) \/ (k = j /\ Owed(j, o))
  <2>1. CASE Refund(k) /\ Owed(k, o)
    BY <1>3, <2>1
  <2>2. CASE UNCHANGED tables
    BY <1>1, <2>2 DEF tables
  <2>3. QED BY <1>6, <2>1, <2>2 DEF PayBack
<1>7. ASSUME NEW k \in JobIds, Run(k)
      PROVE  Booked(ledger, "job_refund", j) \/ (Settle(j) /\ Owed(j, outcome[j]))
  <2>1. CASE Settle(k)
    <3>1. PayBack(k, outcome[k]) \/ ledger' = ledger
      BY <2>1 DEF Settle, tables
    <3>2. QED BY <1>1, <1>6, <2>1, <3>1
  <2>2. CASE ~Settle(k)
    <3>1. ledger' = ledger
      BY <1>7, <2>2 DEF Run, Enqueue, MarkRunning, SetUp, Gate, Work, Drain, Persist, FinishRow,
                        FinishError, tables
    <3>2. QED BY <1>1, <3>1
  <2>3. QED BY <2>1, <2>2
<1>8. ASSUME NEW k \in JobIds, SweepOne(k)
      PROVE  Booked(ledger, "job_refund", j) \/ (SweepOne(j) /\ Owed(j, "failed"))
  <2>1. PayBack(k, "failed") \/ ledger' = ledger
    BY <1>8 DEF SweepOne, tables
  <2>2. QED BY <1>1, <1>6, <1>8, <2>1
<1>9. ASSUME NEW k \in JobIds,
             \/ LateFlush(k) \/ Break(k) \/ OwnerAsks(k) \/ Claim(k)
             \/ \E s \in {"paused", "running"} : Land(k, s)
      PROVE  ledger' = ledger
  BY <1>9 DEF LateFlush, Break, OwnerAsks, Pause, Resume, CancelActive, CancelWaiting, Claim, Land, tables
<1>10. CASE Process \/ UNCHANGED vars
  BY <1>10 DEF Process, Shutdown, Exit, Crash, Die, Boot, Listen, vars, tables
<1>11. QED
  BY <1>1, <1>4, <1>5, <1>7, <1>8, <1>9, <1>10 DEF Next

LEMMA PaidBackKept ==
  ASSUME LifeInv, TablesOK', NEW j \in JobIds \ Pausable, Course(j), PaidBackRightly(j), [Next]_vars
  PROVE  PaidBackRightly(j)'
<1> SUFFICES ASSUME Booked(ledger', "job_refund", j) PROVE status'[j] \in {"failed", "cancelled"}
  BY DEF PaidBackRightly
<1>1. CASE Booked(ledger, "job_refund", j)
  <2>1. status[j] \in {"failed", "cancelled"}
    BY <1>1 DEF PaidBackRightly
  <2>2. StatusKept(j)
    BY <2>1, CourseKept DEF Terminal
  <2>3. QED BY <2>1, <2>2 DEF StatusKept
<1>2. CASE Settle(j) /\ Owed(j, outcome[j])
  <2>1. status[j] = outcome[j] /\ UNCHANGED status
    BY <1>2 DEF Settle, Running, Course, row
  <2>2. QED BY <1>2, <2>1 DEF Owed
<1>3. CASE SweepOne(j)
  BY <1>3 DEF SweepOne, Course, row
<1>4. QED BY <1>1, <1>2, <1>3, RefundsBooked

\* A row of the ledger is never taken back, and a movement writes its own.
LEMMA MoveBooksIt ==
  ASSUME TablesOK, NEW u \in Users, NEW delta \in Int, NEW reason \in Reasons,
         NEW reference \in References, Move(u, delta, reason, reference)
  PROVE  /\ Booked(ledger', reason, reference)
         /\ \A why, what : Booked(ledger, why, what) => Booked(ledger', why, what)
<1> DEFINE n == Len(ledger[u])
           entry == RowFor(credits[u], delta, reason, reference)
<1>1. /\ n \in Nat /\ DOMAIN ledger[u] = 1..n /\ DOMAIN ledger'[u] = 1..(n + 1)
      /\ ledger'[u][n + 1] = entry
      /\ \A m \in 1..n : ledger'[u][m] = ledger[u][m]
      /\ \A w \in Users \ {u} : ledger'[w] = ledger[w]
  BY MoveAppends
<1>2. entry.reason = reason /\ entry.reference = reference
  BY DEF RowFor
<1> HIDE DEF entry, n
<1>3. Booked(ledger', reason, reference)
  <2>1. n + 1 \in DOMAIN ledger'[u]
    BY <1>1
  <2>2. QED BY <1>1, <1>2, <2>1 DEF Booked
<1>4. \A v \in Users : \A i \in DOMAIN ledger[v] : i \in DOMAIN ledger'[v] /\ ledger'[v][i] = ledger[v][i]
  BY <1>1
<1>5. ASSUME NEW why, NEW what, Booked(ledger, why, what) PROVE Booked(ledger', why, what)
  BY <1>4, <1>5 DEF Booked
<1>6. QED BY <1>3, <1>5

LEMMA RefundsStay ==
  ASSUME LifeInv, [Next]_vars, NEW j, Booked(ledger, "job_refund", j)
  PROVE  Booked(ledger', "job_refund", j)
<1>0. TablesOK
  BY DEF LifeInv, TypeOK
<1>1. ASSUME ledger' = ledger PROVE Booked(ledger', "job_refund", j)
  BY <1>1
<1>2. ASSUME NEW u \in Users, NEW delta \in Int, NEW reason \in Reasons, NEW reference \in References,
             Move(u, delta, reason, reference)
      PROVE  Booked(ledger', "job_refund", j)
  BY <1>0, <1>2, MoveBooksIt
<1>3. [AccountNext]_tables
  BY StepMovesAccount
<1>4. CASE UNCHANGED tables
  BY <1>1, <1>4 DEF tables
<1>5. ASSUME NEW r \in Refs, NEW amount \in Amounts, Grant(r, amount)
      PROVE  Booked(ledger', "job_refund", j)
  <2>1. Owner[r] \in Users /\ amount \in Int /\ ReasonOf[r] \in Reasons /\ r \in References
    BY RowsAssumption DEF Reasons, References
  <2>2. QED BY <1>2, <1>5, <2>1 DEF Grant
<1>6. ASSUME NEW u \in Users, NEW k \in JobIds, NEW cost \in Costs, Reserve(u, k, cost)
      PROVE  Booked(ledger', "job_refund", j)
  <2>1. -cost \in Int /\ "job_reserve" \in Reasons /\ k \in References
    BY RowsAssumption DEF Reasons, References
  <2>2. QED BY <1>1, <1>2, <1>6, <2>1 DEF Reserve
<1>7. ASSUME NEW k \in JobIds, Refund(k) PROVE Booked(ledger', "job_refund", j)
  <2>1. jobs[k].user \in Users /\ jobs[k].spent \in Int /\ "job_refund" \in Reasons /\ k \in References
    BY <1>0, <1>7 DEF Refund, TablesOK, JobRow, Reasons, References
  <2>2. QED BY <1>2, <1>7, <2>1 DEF Refund
<1>8. ASSUME NEW c \in Charges, ClawBack(c) PROVE Booked(ledger', "job_refund", j)
  <2>1. /\ Owner[c] \in Users /\ -credits[Owner[c]] \in Int
        /\ "manual_adjustment" \in Reasons /\ c \in References
    BY <1>0, RowsAssumption DEF TablesOK, Reasons, References
  <2>2. QED BY <1>2, <1>8, <2>1 DEF ClawBack
<1>9. QED BY <1>3, <1>4, <1>5, <1>6, <1>7, <1>8 DEF AccountNext

\* The runner of another job leaves a job with an outcome where it is.
LEMMA OthersLeaveIt ==
  ASSUME LifeInv, NEW j \in JobIds, NEW k \in JobIds \ {j}, Run(k)
  PROVE  /\ status'[j] = status[j] /\ written'[j] = written[j]
         /\ step'[j] = step[j] \/ status[j] = "pending"
<1>0. TypeOK
  BY DEF LifeInv
<1>1. CASE Enqueue(k)
  BY <1>0, <1>1 DEF Enqueue, Started, Goto, TypeOK, row
<1>2. CASE MarkRunning(k) \/ SetUp(k) \/ Gate(k) \/ Drain(k)
  BY <1>0, <1>2 DEF MarkRunning, SetUp, Gate, Drain, ReplayThrows, Thrown, Conclude, Goto, TypeOK, row
<1>3. CASE Work(k) \/ Persist(k) \/ FinishRow(k)
  BY <1>0, <1>3 DEF Work, Persist, FinishRow, ReplayThrows, Thrown, Conclude, Goto, TypeOK
<1>4. CASE (FinishError(k) \/ Settle(k)) /\ Release(k)
  <2>1. mode \in {"up", "stopping"} /\ step[k] \notin {"none", "reserved"}
    BY <1>4 DEF FinishError, Settle, Running
  <2>2. UNCHANGED <<status, written, mode, writes>>
    BY <1>4 DEF FinishError, Settle, row, loose
  <2>3. step'[j] = step[j] \/ status[j] = "pending"
    BY <1>4, <2>1, <2>2, ReleaseKeepsLine DEF Untouched
  <2>4. QED BY <2>2, <2>3
<1>5. CASE FinishError(k) /\ ~Release(k)
  BY <1>0, <1>5 DEF FinishError, Thrown, Conclude, Goto, TypeOK, row
<1>6. QED BY <1>1, <1>2, <1>3, <1>4, <1>5 DEF Run, Settle

\* A cancelled job that is owed for gets there with its settle before it, and
\* the settle that leaves it owed for was refused.
LEMMA PaidInTimeKept ==
  ASSUME LifeInv, TablesOK', ToldToStop, NEW j \in JobIds \ Pausable, Course(j), PaidBackInTime(j),
         [Next]_vars
  PROVE  PaidBackInTime(j)'
<1> SUFFICES ASSUME errors' = 0, crashes' = 0, Unsettled(j)' PROVE step'[j] = "settle"
  BY DEF PaidBackInTime
<1>0. TypeOK /\ TablesOK /\ JobOK(j) /\ j \in JobIds
  BY DEF LifeInv, TypeOK, JobsOK
<1>a. ~DbError
  BY <1>0 DEF DbError, TypeOK
<1>b. ~(crashes' = crashes + 1)
  BY <1>0 DEF TypeOK
<1>c. status'[j] = "cancelled" /\ written'[j] = "low" /\ jobs'[j].spent > 0
  BY DEF Unsettled
<1>d. ~Booked(ledger', "job_refund", j) /\ ~Booked(ledger, "job_refund", j)
  BY RefundsStay DEF Unsettled
<1>e. ASSUME errors' = errors, crashes' = crashes, status'[j] = status[j], written'[j] = written[j],
             jobs'[j] = jobs[j]
      PROVE  step[j] = "settle" /\ status[j] = "cancelled" /\ mode = "up"
  BY <1>0, <1>c, <1>d, <1>e DEF PaidBackInTime, Unsettled, ToldToStop, TypeOK
<1>1. CASE TopUp \/ UNCHANGED vars
  <2>1. UNCHANGED <<status, written, errors, crashes, step, jobs>>
    BY <1>1 DEF TopUp, Grant, vars, tables, row, runner, outside
  <2>2. QED BY <1>e, <2>1
<1>2. ASSUME NEW u \in Users, NEW k \in JobIds, NEW cost \in Costs, ReserveJob(u, k, cost)
      PROVE  step'[j] = "settle"
  <2>1. k # j
    BY <1>0, <1>2, <1>c DEF ReserveJob, TypeOK
  <2>2. /\ UNCHANGED <<written, errors, crashes>> /\ status'[j] = status[j] /\ step'[j] = step[j]
        /\ jobs'[j] = jobs[j]
    BY <1>0, <1>2, <2>1 DEF ReserveJob, Reserve, Goto, TypeOK, TablesOK, outside
  <2>3. QED BY <1>e, <2>2
<1>3. ASSUME NEW k \in JobIds, Run(k) PROVE step'[j] = "settle"
  <2>1. errors' = errors /\ crashes' = crashes /\ jobs' = jobs
    <3>1. errors' = errors /\ crashes' = crashes
      BY <1>a, <1>3 DEF Run, Enqueue, MarkRunning, SetUp, Gate, Work, Drain, Persist, FinishRow,
                        FinishError, Settle, outside
    <3>2. jobs' = jobs
      BY <1>3 DEF Run, Enqueue, MarkRunning, SetUp, Gate, Work, Drain, Persist, FinishRow, FinishError,
                  Settle, PayBack, Refund, tables
    <3>3. QED BY <3>1, <3>2
  <2>2. CASE k # j
    <3>1. /\ status'[j] = status[j] /\ written'[j] = written[j]
          /\ step'[j] = step[j] \/ status[j] = "pending"
      BY <1>3, <2>2, OthersLeaveIt
    <3>2. QED BY <1>c, <1>e, <2>1, <3>1
  <2>3. CASE k = j /\ FinishRow(j)
    BY <1>0, <2>3 DEF FinishRow, Goto, TypeOK
  <2>4. CASE k = j /\ Settle(j)
    <3>1. UNCHANGED <<status, written>> /\ PayBack(j, outcome[j]) /\ step[j] = "settle"
      BY <1>a, <2>4 DEF Settle, Running, row
    <3>2. status[j] = "cancelled" /\ outcome[j] = "cancelled" /\ written[j] = "low" /\ jobs[j].spent > 0
      BY <1>c, <2>1, <3>1 DEF Course
    <3>3. Refund(j)
      BY <1>d, <3>1, <3>2 DEF PayBack, Owed
    <3>4. jobs[j].user \in Users /\ jobs[j].spent \in Int /\ "job_refund" \in Reasons /\ j \in References
      BY <1>0, <3>3 DEF Refund, TablesOK, JobRow, Reasons, References
    <3>5. Booked(ledger', "job_refund", j)
      BY <1>0, <3>3, <3>4, MoveBooksIt DEF Refund
    <3>6. QED BY <1>d, <3>5
  <2>5. CASE k = j /\ ~FinishRow(j) /\ ~Settle(j)
    <3>1. step[j] \notin {"none", "settle"}
      BY <1>3, <2>5 DEF Run, Enqueue, MarkRunning, SetUp, Gate, Work, Drain, Persist, FinishError, Running
    <3>2. status'[j] = status[j] \/ status'[j] = "running"
      BY <1>0, <1>3, <2>5 DEF Run, Enqueue, MarkRunning, SetUp, Gate, Work, Drain, Persist, FinishError,
                              TypeOK, row
    <3>3. QED BY <1>c, <3>1, <3>2, LiveIsNotTerminal DEF Course, Live
  <2>6. QED BY <2>2, <2>3, <2>4, <2>5
<1>4. ASSUME NEW k \in JobIds, OwnerAsks(k) PROVE step'[j] = "settle"
  <2>1. UNCHANGED <<status, written, errors, crashes, jobs>>
    BY <1>4 DEF OwnerAsks, Pause, Resume, CancelActive, CancelWaiting, tables, row, outside
  <2>2. step[j] = "settle" /\ status[j] = "cancelled"
    BY <1>e, <2>1
  <2>3. CASE Pause(k)
    BY <2>2, <2>3 DEF Pause
  <2>4. CASE Resume(k) \/ CancelActive(k)
    <3>1. PICK s : Resumed(s)
      BY <2>4 DEF Resume, CancelActive, CancelRunners
    <3>2. QED BY <1>0, <2>2, <3>1 DEF Resumed, TypeOK
  <2>5. CASE CancelWaiting(k)
    <3>1. k # j
      BY <2>2, <2>5, CancelWaitingKeepsLine
    <3>2. QED BY <1>0, <2>2, <2>5, <3>1 DEF CancelWaiting, Goto, TypeOK
  <2>6. QED BY <1>4, <2>3, <2>4, <2>5 DEF OwnerAsks
<1>5. ASSUME NEW k \in JobIds,
             \/ LateFlush(k) \/ Break(k) \/ Claim(k) \/ SweepOne(k)
             \/ \E s \in {"paused", "running"} : Land(k, s)
      PROVE  step'[j] = "settle"
  <2>1. errors' = errors /\ UNCHANGED <<crashes, step, jobs, mode>>
    <3>1. UNCHANGED <<crashes, step, jobs, mode>>
      BY <1>5 DEF LateFlush, Break, Claim, SweepOne, Land, PayBack, Refund, tables, runner, outside
    <3>2. errors' = errors
      BY <1>a, <1>5 DEF LateFlush, Break, Claim, SweepOne, Land, outside
    <3>3. QED BY <3>1, <3>2
  <2>2. status'[j] = status[j] /\ written'[j] = written[j]
    <3>1. CASE Break(k) \/ Claim(k) \/ SweepOne(k)
      BY <3>1 DEF Break, Claim, SweepOne, row
    <3>2. CASE LateFlush(k)
      BY <1>0, <1>c, <3>2 DEF LateFlush, TypeOK
    <3>3. ASSUME NEW s \in {"paused", "running"}, Land(k, s)
          PROVE  status'[j] = status[j] /\ written'[j] = written[j]
      <4>1. k # j
        BY <3>3 DEF Land, Course
      <4>2. QED BY <1>0, <3>3, <4>1 DEF Land, TypeOK
    <3>4. QED BY <1>5, <3>1, <3>2, <3>3
  <2>3. QED BY <1>e, <2>1, <2>2
<1>6. CASE Process
  <2>1. crashes' = crashes /\ mode # "up"
    BY <1>b, <1>6 DEF Process, Shutdown, Exit, Crash, Boot, Listen, outside
  <2>2. QED BY <1>0, <2>1 DEF ToldToStop, TypeOK
<1>7. QED BY <1>1, <1>2, <1>3, <1>4, <1>5, <1>6 DEF Next

\* Whatever takes the server from "up" counts as a stop or a crash.
LEMMA ToldToStopKept == ASSUME LifeInv, ToldToStop, [Next]_vars PROVE ToldToStop'
<1>0. crashes \in Nat
  BY LifecycleAssumption DEF LifeInv, TypeOK
<1>1. CASE mode' = mode /\ crashes' = crashes
  BY <1>1 DEF ToldToStop
<1>2. CASE Process
  <2>1. \/ crashes' = crashes + 1
        \/ mode # "up" /\ crashes' = crashes
    BY <1>2 DEF Process, Shutdown, Exit, Crash, Boot, Listen, outside
  <2>2. QED BY <1>0, <2>1 DEF ToldToStop
<1>3. ASSUME NEW k \in JobIds, Run(k) PROVE mode' = mode /\ crashes' = crashes
  BY <1>3 DEF Run, Enqueue, MarkRunning, SetUp, Gate, Work, Drain, Persist, FinishRow, FinishError,
              Settle, outside
<1>4. ASSUME NEW k \in JobIds,
             \/ LateFlush(k) \/ Break(k) \/ OwnerAsks(k) \/ Claim(k) \/ SweepOne(k)
             \/ \E s \in {"paused", "running"} : Land(k, s)
      PROVE  mode' = mode /\ crashes' = crashes
  BY <1>4 DEF LateFlush, Break, OwnerAsks, Pause, Resume, CancelActive, CancelWaiting, Claim, SweepOne,
              Land, outside
<1>5. CASE TopUp \/ UNCHANGED vars \/ \E u \in Users, k \in JobIds, cost \in Costs : ReserveJob(u, k, cost)
  BY <1>1, <1>5 DEF TopUp, ReserveJob, vars, outside
<1>6. QED BY <1>1, <1>2, <1>3, <1>4, <1>5 DEF Next

\* ---- Who has a live job

\* A line that moves up, or loses one job, keeps the others.
LEMMA ReleaseKeepsQueued ==
  ASSUME LifeInv, NEW k \in JobIds, step[k] # "none", Release(k), NEW j \in JobIds, j \in Queued
  PROVE  j \in Queued' \/ step'[j] = "mark"
<1>1. waiting \in Seq(JobIds) /\ active \subseteq JobIds /\ step \in [JobIds -> Steps]
      /\ IsFiniteSet(active) /\ Cardinality(active) <= MaxConcurrent
  BY DEF LifeInv, TypeOK, LineOK
<1>2. PICK i \in DOMAIN waiting : waiting[i] = j
  BY DEF Queued
<1>3. j # k
  BY <1>2 DEF LifeInv, LineOK, Untouched
<1>4. CASE k \notin active
  BY <1>4 DEF Release, Queued, queue
<1>5. CASE k \in active
  <2> DEFINE left == active \ {k}
             free == MaxConcurrent - Cardinality(left)
             n == IF Len(waiting) < free THEN Len(waiting) ELSE free
             next == {waiting[m] : m \in 1..n}
             rest == SubSeq(waiting, n + 1, Len(waiting))
  <2>1. waiting' = rest /\ step' = [Started(next) EXCEPT ![k] = "none"]
    BY <1>5 DEF Release
  <2>2. Len(waiting) \in Nat /\ i \in 1..Len(waiting)
    BY <1>1, LenProperties
  <2>3. free \in Nat
    <3>1. IsFiniteSet(left) /\ Cardinality(left) = Cardinality(active) - 1 /\ Cardinality(active) \in Nat
      BY <1>1, <1>5, FS_RemoveElement, FS_CardinalityType
    <3>2. QED BY <1>1, <3>1, Slots
  <2>4. n \in 0..Len(waiting)
    BY <2>2, <2>3
  <2> HIDE DEF n
  <2>5. CASE i \in 1..n
    <3>1. j \in next
      BY <1>2, <2>5
    <3> HIDE DEF next
    <3>2. QED BY <1>1, <1>3, <2>1, <3>1 DEF Started
  <2>6. CASE i \notin 1..n
    <3>1. i - n \in 1..(Len(waiting) - n) /\ (i - n) + n = i
      BY <2>2, <2>4, <2>6
    <3>2. /\ rest \in Seq(JobIds) /\ Len(rest) = Len(waiting) - n
          /\ \A m \in DOMAIN rest : rest[m] = waiting[m + n]
      BY <1>1, <2>4, LineShortened DEF LifeInv, LineOK
    <3> HIDE DEF rest
    <3>3. i - n \in DOMAIN rest
      BY <3>1, <3>2, LenProperties
    <3>4. rest[i - n] = j
      BY <1>2, <3>1, <3>2, <3>3
    <3>5. QED BY <2>1, <3>3, <3>4 DEF Queued
  <2>7. QED BY <2>5, <2>6
<1>6. QED BY <1>4, <1>5

LEMMA CancelWaitingKeepsQueued ==
  ASSUME LifeInv, NEW k \in JobIds, CancelWaiting(k), NEW j \in JobIds \ {k}, j \in Queued
  PROVE  j \in Queued'
<1>1. PICK i \in DOMAIN waiting :
        /\ waiting[i] = k
        /\ waiting' = SubSeq(waiting, 1, i - 1) \o SubSeq(waiting, i + 1, Len(waiting))
  BY DEF CancelWaiting
<1>2. PICK m \in DOMAIN waiting : waiting[m] = j
  BY DEF Queued
<1>3. m # i
  BY <1>1, <1>2
<1> DEFINE t == SubSeq(waiting, 1, i - 1) \o SubSeq(waiting, i + 1, Len(waiting))
<1>4. \A n \in DOMAIN waiting \ {i} : \E p \in DOMAIN t : t[p] = waiting[n]
  <2>1. waiting \in Seq(JobIds) /\ \A n, p \in DOMAIN waiting : waiting[n] = waiting[p] => n = p
    BY DEF LifeInv, TypeOK, LineOK
  <2>2. QED BY <2>1, LineWithout
<1>5. waiting' = t
  BY <1>1
<1> HIDE DEF t
<1>6. QED BY <1>2, <1>3, <1>4, <1>5 DEF Queued

LEMMA EnqueueKeepsQueued ==
  ASSUME LifeInv, NEW k \in JobIds, Enqueue(k), NEW j \in JobIds, j \in Queued \/ j = k
  PROVE  j \in Queued' \/ step'[j] = "mark"
<1>1. waiting \in Seq(JobIds) /\ step \in [JobIds -> Steps]
  BY DEF LifeInv, TypeOK
<1>2. CASE Cardinality(active) < MaxConcurrent
  BY <1>1, <1>2 DEF Enqueue, Started, Queued
<1>3. CASE ~(Cardinality(active) < MaxConcurrent)
  <2>1. waiting' = Append(waiting, k)
    BY <1>3 DEF Enqueue
  <2>2. /\ Len(waiting) \in Nat /\ DOMAIN waiting = 1..Len(waiting)
        /\ DOMAIN waiting' = 1..(Len(waiting) + 1)
        /\ \A i \in 1..Len(waiting) : waiting'[i] = waiting[i]
        /\ waiting'[Len(waiting) + 1] = k
    BY <1>1, <2>1, AppendProperties, LenProperties
  <2>3. CASE j = k
    <3>1. Len(waiting) + 1 \in DOMAIN waiting'
      BY <2>2
    <3>2. QED BY <2>2, <2>3, <3>1 DEF Queued
  <2>4. CASE j \in Queued
    <3>1. PICK i \in DOMAIN waiting : waiting[i] = j
      BY <2>4 DEF Queued
    <3>2. i \in DOMAIN waiting' /\ waiting'[i] = j
      BY <2>2, <3>1
    <3>3. QED BY <3>2 DEF Queued
  <2>5. QED BY <2>3, <2>4
<1>4. QED BY <1>2, <1>3

\* No step lets go of a live job, unless a statement was refused or the process
\* is on its way down.
LEMMA AttendedKept ==
  ASSUME LifeInv, TablesOK', NEW j \in JobIds \ Pausable, Course(j), Attended(j), [Next]_vars
  PROVE  Attended(j)'
<1> DEFINE Safe == step'[j] # "none" \/ j \in Queued'
<1> SUFFICES ASSUME mode' = "up", errors' = 0, status'[j] \in Live
             PROVE  Safe
  BY DEF Attended, Queued
<1>0. TypeOK /\ JobOK(j) /\ "none" # "mark" /\ Queued' = {waiting'[i] : i \in DOMAIN waiting'}
  BY DEF LifeInv, JobsOK, Queued
<1>a. ~DbError
  BY <1>0 DEF DbError, TypeOK
<1>1. status[j] \in Terminal => FALSE
  <2>1. status[j] \in Terminal => status'[j] = status[j]
    BY CourseKept DEF StatusKept
  <2>2. QED BY <2>1, LiveIsNotTerminal
<1>2. ASSUME mode = "up", errors = 0, status[j] \in Live PROVE step[j] # "none" \/ j \in Queued
  BY <1>2 DEF Attended
<1> HIDE DEF Safe
<1>3. CASE TopUp \/ UNCHANGED vars
  <2>1. UNCHANGED <<status, mode, errors, step, waiting>>
    BY <1>3 DEF TopUp, vars, row, runner, queue, outside
  <2>2. QED BY <1>0, <1>2, <2>1 DEF Safe, Queued
<1>4. ASSUME NEW u \in Users, NEW k \in JobIds, NEW cost \in Costs, ReserveJob(u, k, cost) PROVE Safe
  <2>1. UNCHANGED <<mode, errors, waiting>> /\ step' = [step EXCEPT ![k] = "reserved"]
    BY <1>4 DEF ReserveJob, Goto, queue, outside
  <2>2. k # j => status'[j] = status[j]
    BY <1>0, <1>4 DEF ReserveJob, TypeOK
  <2>3. QED BY <1>0, <1>2, <2>1, <2>2 DEF Safe, Queued, TypeOK
<1>5. ASSUME NEW k \in JobIds, Run(k) PROVE Safe
  <2>1. mode' = mode /\ errors' = errors /\ step[k] # "none"
    <3>1. mode' = mode
      BY <1>5 DEF Run, Enqueue, MarkRunning, SetUp, Gate, Work, Drain, Persist, FinishRow, FinishError, Settle
    <3>2. errors' = errors
      BY <1>a, <1>5 DEF Run, Enqueue, MarkRunning, SetUp, Gate, Work, Drain, Persist, FinishRow,
                        FinishError, Settle, outside
    <3>3. step[k] # "none"
      BY <1>5 DEF Run, Enqueue, MarkRunning, SetUp, Gate, Work, Drain, Persist, FinishRow, FinishError,
                  Settle, Running
    <3>4. QED BY <3>1, <3>2, <3>3
  <2>2. status[j] \in Live
    <3>1. status'[j] = status[j] \/ (MarkRunning(k) /\ k = j) \/ (FinishRow(k) /\ k = j)
      BY <1>0, <1>5 DEF Run, Enqueue, MarkRunning, SetUp, Gate, Work, Drain, Persist, FinishRow,
                        FinishError, Settle, TypeOK, row, outside
    <3>2. MarkRunning(j) \/ FinishRow(j) => status[j] \in Live
      BY DEF MarkRunning, FinishRow, Running, Course
    <3>3. QED BY <3>1, <3>2
  <2>3. step[j] # "none" \/ j \in Queued
    BY <1>2, <2>1, <2>2
  <2>4. CASE Enqueue(k)
    <3>1. CASE j \in Queued \/ j = k
      BY <2>4, <3>1, <1>0, EnqueueKeepsQueued DEF Safe
    <3>2. CASE j \notin Queued /\ j # k
      <4>1. step'[j] = step[j]
        BY <1>0, <2>4, <3>2 DEF Enqueue, Started, Goto, TypeOK
      <4>2. QED BY <2>3, <3>2, <4>1 DEF Safe
    <3>3. QED BY <3>1, <3>2
  <2>5. CASE MarkRunning(k) \/ SetUp(k) \/ Gate(k) \/ Work(k) \/ Drain(k) \/ Persist(k) \/ FinishRow(k)
    <3>1. waiting' = waiting /\ (step'[j] = step[j] \/ step'[j] # "none")
      BY <1>0, <2>5 DEF MarkRunning, SetUp, Gate, Work, Drain, Persist, FinishRow, ReplayThrows, Thrown, Conclude,
                        Goto, TypeOK, queue
    <3>2. QED BY <1>0, <2>3, <3>1 DEF Safe, Queued
  <2>6. CASE FinishError(k)
    BY <1>a, <2>6 DEF FinishError
  <2>7. CASE Settle(k)
    <3>1. k # j
      BY <1>1, <2>7 DEF Settle, Running, Course
    <3>2. Release(k) /\ mode \in {"up", "stopping"} /\ step[k] \notin {"none", "reserved"}
          /\ UNCHANGED <<mode, writes, status>>
      BY <2>7 DEF Settle, Running, row
    <3>3. CASE j \in Queued
      BY <1>0, <2>1, <3>2, <3>3, ReleaseKeepsQueued DEF Safe
    <3>4. CASE j \notin Queued
      <4>1. step'[j] = step[j] \/ step'[j] = "mark"
        BY <3>1, <3>2, ReleaseKeepsLine
      <4>2. QED BY <1>0, <2>3, <3>4, <4>1 DEF Safe
    <3>5. QED BY <3>3, <3>4
  <2>8. QED BY <1>5, <2>4, <2>5, <2>6, <2>7 DEF Run
<1>6. ASSUME NEW k \in JobIds, OwnerAsks(k) PROVE Safe
  <2>1. UNCHANGED <<mode, errors, status>>
    BY <1>6 DEF OwnerAsks, Pause, Resume, CancelActive, CancelWaiting, row, outside
  <2>2. step[j] # "none" \/ j \in Queued
    BY <1>2, <2>1
  <2>3. CASE Pause(k)
    BY <1>0, <2>2, <2>3 DEF Pause, Safe, Queued, queue
  <2>4. CASE Resume(k) \/ CancelActive(k)
    <3>1. PICK s : Resumed(s)
      BY <2>4 DEF Resume, CancelActive, CancelRunners
    <3>2. waiting' = waiting /\ (step'[j] = step[j] \/ step'[j] = "gate")
      BY <1>0, <2>4, <3>1 DEF Resume, CancelActive, Resumed, TypeOK, queue
    <3>3. QED BY <1>0, <2>2, <3>2 DEF Safe, Queued
  <2>5. CASE CancelWaiting(k)
    <3>1. step' = [step EXCEPT ![k] = "finish"]
      BY <2>5 DEF CancelWaiting, Goto
    <3>2. CASE k = j
      BY <1>0, <3>1, <3>2 DEF Safe, TypeOK
    <3>3. CASE k # j
      <4>1. step'[j] = step[j] /\ (j \in Queued => j \in Queued')
        BY <1>0, <2>5, <3>1, <3>3, CancelWaitingKeepsQueued DEF TypeOK
      <4>2. QED BY <2>2, <4>1 DEF Safe
    <3>4. QED BY <3>2, <3>3
  <2>6. QED BY <1>6, <2>3, <2>4, <2>5 DEF OwnerAsks
<1>7. ASSUME NEW k \in JobIds,
             \/ LateFlush(k) \/ Break(k) \/ Claim(k) \/ SweepOne(k)
             \/ \E s \in {"paused", "running"} : Land(k, s)
      PROVE  Safe
  <2>1. UNCHANGED <<mode, step, waiting>>
    BY <1>7 DEF LateFlush, Break, Claim, SweepOne, Land, queue, runner
  <2>2. errors' = errors
    BY <1>a, <1>7 DEF LateFlush, Break, Claim, SweepOne, Land, outside
  <2>3. status'[j] = status[j]
    <3>1. CASE LateFlush(k) \/ Break(k) \/ Claim(k) \/ SweepOne(k)
      BY <3>1 DEF LateFlush, Break, Claim, SweepOne, row
    <3>2. ASSUME NEW s \in {"paused", "running"}, Land(k, s) PROVE status'[j] = status[j]
      <4>1. k # j
        BY <3>2 DEF Land, Course
      <4>2. QED BY <1>0, <3>2, <4>1 DEF Land, TypeOK
    <3>3. QED BY <1>7, <3>1, <3>2
  <2>4. QED BY <1>0, <1>2, <2>1, <2>2, <2>3 DEF Safe, Queued
<1>8. CASE Process
  <2>1. mode = "sweeping" /\ UNCHANGED <<status, step>>
    BY <1>8 DEF Process, Shutdown, Exit, Crash, Die, Boot, Listen, row, runner
  <2>2. QED BY <2>1 DEF Course
<1>9. QED
  BY <1>3, <1>4, <1>5, <1>6, <1>7, <1>8 DEF Next

LEMMA InitCourse == Init => CourseInv
<1> SUFFICES ASSUME Init PROVE CourseInv
  OBVIOUS
<1>1. ToldToStop
  BY DEF Init, ToldToStop
<1>2. ASSUME NEW j \in JobIds \ Pausable
      PROVE  Course(j) /\ PaidBackRightly(j) /\ PaidBackInTime(j) /\ Attended(j)
  <2>1. Course(j) /\ Attended(j) /\ status[j] = NoStatus /\ NoStatus # "cancelled"
    BY Slots DEF Init, Course, Attended, Live, Terminal
  <2>2. ~Booked(ledger, "job_refund", j)
    BY DEF Init, AccountInit, Booked
  <2>3. QED BY <2>1, <2>2 DEF PaidBackRightly, PaidBackInTime, Unsettled
<1>3. QED BY <1>1, <1>2 DEF CourseInv

LEMMA StepKeepsCourse == LifeInv /\ CourseInv /\ TablesOK' /\ [Next]_vars => CourseInv'
<1> SUFFICES ASSUME LifeInv, CourseInv, TablesOK', [Next]_vars PROVE CourseInv'
  OBVIOUS
<1>1. ToldToStop /\ ToldToStop'
  BY ToldToStopKept DEF CourseInv
<1>2. ASSUME NEW j \in JobIds \ Pausable
      PROVE  (Course(j) /\ PaidBackRightly(j) /\ PaidBackInTime(j) /\ Attended(j))'
  <2>1. Course(j) /\ PaidBackRightly(j) /\ PaidBackInTime(j) /\ Attended(j)
    BY DEF CourseInv
  <2>2. QED BY <1>1, <2>1, CourseKept, PaidBackKept, PaidInTimeKept, AttendedKept
<1>3. QED BY <1>1, <1>2 DEF CourseInv

LEMMA CourseHeld == Spec => []CourseInv
  BY InitCourse, StepKeepsCourse, LifeKept, LifecycleBooks, PTL DEF Spec

\* db/jobs.ts:65-80 and its callers: the outcome of a job whose owner does not
\* pause it is written once, whatever the other jobs, restarts and refused
\* statements do.
THEOREM OutcomeIsFinal == Spec => TerminalIsFinal
<1>1. LifeInv /\ CourseInv /\ TablesOK' /\ [Next]_vars =>
        [\A j \in JobIds \ Pausable : status[j] \in Terminal => status'[j] = status[j]]_vars
  <2> SUFFICES ASSUME LifeInv, CourseInv, TablesOK', [Next]_vars, NEW j \in JobIds \ Pausable,
                      status[j] \in Terminal
               PROVE  status'[j] = status[j]
    OBVIOUS
  <2>1. QED BY CourseKept DEF CourseInv, StatusKept
<1>2. QED
  BY <1>1, LifeKept, CourseHeld, LifecycleBooks, PTL DEF Spec, TerminalIsFinal

\* settleJobCredits (credits.ts:244-257), reached from finishJob and from the
\* sweep: for any number of jobs, restarts and refused statements, who was paid
\* back has a job that failed or was cancelled, for good; and a job cancelled
\* within a tenth whose runner has left was paid back, unless a statement was
\* refused or the process told to stop, however late its last batch is answered.
THEOREM PaidBackByPolicy == Spec => []SettledByPolicy
<1>1. LifeInv /\ CourseInv => SettledByPolicy
  BY DEF CourseInv, PaidBackRightly, PaidBackInTime, Unsettled, SettledByPolicy
<1>2. QED BY <1>1, LifeKept, CourseHeld, PTL

\* db/jobs.ts:113-116 with queue.ts and index.ts: while the server is up, no row
\* is live that no request, line or runner has, unless Postgres refused something.
THEOREM NobodyIsStranded == Spec => []NoStrandedJob
<1>1. CourseInv => NoStrandedJob
  BY DEF CourseInv, Attended, NoStrandedJob
<1>2. QED BY <1>1, CourseHeld, PTL
=============================================================================
