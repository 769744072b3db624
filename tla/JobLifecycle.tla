----------------------------- MODULE JobLifecycle -----------------------------
(***************************************************************************)
(* A job from POST /jobs to its outcome: routes/jobs.ts charges for it,    *)
(* jobs/queue.ts gives it a slot or makes it wait, jobs/runner.ts replays  *)
(* it, db/jobs.ts writes its outcome, settles its credits and announces    *)
(* it, and index.ts sweeps up what a restart orphaned.                     *)
(*                                                                         *)
(* The queue and its runners live in memory and die with the process; the  *)
(* jobs table and the account survive it.  One action runs from one await  *)
(* to the next.  What a runner types is abstracted to two halves of the    *)
(* text, the first within the tenth that a cancellation refunds.           *)
(***************************************************************************)
EXTENDS CreditAccount, FiniteSets

CONSTANTS
  MaxConcurrent,  \* config.jobs.maxConcurrentJobs
  Pausable,       \* jobs whose owner may pause them
  MaxCrashes,     \* restarts of the process, asked for or not
  MaxErrors,      \* statements that may fail in Postgres
  NoStatus        \* the status of a job nobody inserted

VARIABLES
  status,     \* jobs.status
  written,    \* jobs.chars_written, as the tenth that decides refunds sees it
  notified,   \* jobs with notified_at set
  mode,       \* of the process: up, stopping, down, sweeping
  waiting,    \* JobQueue.waiting
  active,     \* keys of JobQueue.active
  step,       \* what the request or the runner of a job executes next
  outcome,    \* the status its finishJob call was given
  typed,      \* the runner's own charsWritten, as its replay left it
  paused,     \* runners with `paused` set
  cancelled,  \* runners with `cancelled` set, aborted by cancel()
  broken,     \* runners aborted by recordFailure
  writes,     \* updateJobStatus calls nobody awaits, still on their way
  claiming,   \* notifyJobFinished calls nobody awaits, before their claim
  adrift,     \* runners whose flush loop outlives the replay that threw
  sweep,      \* orphans failOrphanedJobs has marked and not settled yet
  asked,      \* jobs whose owner asked to cancel them
  mails,      \* announcements made of each job
  crashes, errors

row == <<status, written, notified>>
runner == <<step, outcome, typed, paused, cancelled, broken>>
queue == <<waiting, active>>
loose == <<writes, claiming, adrift>>
outside == <<asked, mails, crashes, errors>>
vars == <<tables, row, mode, queue, runner, loose, sweep, outside>>

Terminal == {"done", "failed", "cancelled"}
Live == {"pending", "running", "paused"}
Steps == {"none", "reserved", "mark", "setup", "gate", "blocked", "work", "drain",
          "persist", "finish", "settle", "lastChance"}

ASSUME LifecycleAssumption ==
  /\ MaxConcurrent \in Nat \ {0}
  /\ Pausable \subseteq JobIds
  /\ MaxCrashes \in Nat /\ MaxErrors \in Nat
  /\ NoStatus \notin Terminal \cup Live

Init ==
  /\ AccountInit
  /\ status = [j \in JobIds |-> NoStatus]
  /\ written = [j \in JobIds |-> "low"]
  /\ notified = {}
  /\ mode = "up"
  /\ waiting = <<>> /\ active = {}
  /\ step = [j \in JobIds |-> "none"]
  /\ outcome = [j \in JobIds |-> NoStatus]
  /\ typed = [j \in JobIds |-> "low"]
  /\ paused = {} /\ cancelled = {} /\ broken = {}
  /\ writes = [j \in JobIds |-> {}]
  /\ claiming = {} /\ adrift = {} /\ sweep = {} /\ asked = {}
  /\ mails = [j \in JobIds |-> 0]
  /\ crashes = 0 /\ errors = 0

-----------------------------------------------------------------------------
aborted == cancelled \cup broken
Running(j, s) == mode \in {"up", "stopping"} /\ step[j] = s
Goto(j, s) == step' = [step EXCEPT ![j] = s]

\* A statement fails; the caller says what is made of it.
DbError == errors < MaxErrors /\ errors' = errors + 1

\* start(): the jobs of `s` become the runners of JobRunner.run.
Started(s) == [j \in JobIds |-> IF j \in s THEN "mark" ELSE step[j]]

\* Mutant: the slot is freed and the line is not looked at.
ReleaseOnly(j) ==
  /\ active' = active \ {j}
  /\ step' = [step EXCEPT ![j] = "none"]
  /\ UNCHANGED waiting

\* drain() when the runner of j has left: waiting jobs take the free slots.
Release(j) ==
  LET left == active \ {j}
      free == MaxConcurrent - Cardinality(left)
      n == IF Len(waiting) < free THEN Len(waiting) ELSE free
      next == {waiting[i] : i \in 1..n}
  IN IF j \notin active
     THEN step' = [step EXCEPT ![j] = "none"] /\ UNCHANGED queue
     ELSE /\ active' = left \cup next
          /\ waiting' = SubSeq(waiting, n + 1, Len(waiting))
          /\ step' = [Started(next) EXCEPT ![j] = "none"]

-----------------------------------------------------------------------------
(* POST /jobs *)

TopUp ==
  /\ \E r \in Refs, amount \in Amounts : Grant(r, amount)
  /\ UNCHANGED <<row, mode, queue, runner, loose, sweep, outside>>

\* createJobReservingCredits; its transaction is one step (CreditLedgerProofs).
ReserveJob(u, j, cost) ==
  /\ mode = "up"
  /\ Reserve(u, j, cost)
  /\ status' = [status EXCEPT ![j] = "pending"]
  /\ Goto(j, "reserved")
  /\ UNCHANGED <<written, notified, mode, queue, outcome, typed, paused, cancelled, broken,
                 loose, sweep, outside>>

\* Mutant: one runner too many.
EnqueueOneMore(j) ==
  /\ Running(j, "reserved")
  /\ IF Cardinality(active) <= MaxConcurrent
     THEN /\ active' = active \cup {j}
          /\ step' = Started({j})
          /\ UNCHANGED waiting
     ELSE /\ waiting' = Append(waiting, j)
          /\ Goto(j, "none")
          /\ UNCHANGED active
  /\ UNCHANGED <<tables, row, mode, outcome, typed, paused, cancelled, broken, loose, sweep, outside>>

\* enqueue: a slot at once, or the end of the line.
Enqueue(j) ==
  /\ Running(j, "reserved")
  /\ IF Cardinality(active) < MaxConcurrent
     THEN /\ active' = active \cup {j}
          /\ step' = Started({j})
          /\ UNCHANGED waiting
     ELSE /\ waiting' = Append(waiting, j)
          /\ Goto(j, "none")
          /\ UNCHANGED active
  /\ UNCHANGED <<tables, row, mode, outcome, typed, paused, cancelled, broken, loose, sweep, outside>>

-----------------------------------------------------------------------------
(* JobRunner.run *)

\* run() or handleFailure goes for an outcome, progress first.
Conclude(j, o) ==
  /\ step' = [step EXCEPT ![j] = "persist"]
  /\ outcome' = [outcome EXCEPT ![j] = o]

\* isCancellation decides what a throw is reported as.
Thrown(j) == Conclude(j, IF j \in cancelled THEN "cancelled" ELSE "failed")

MarkRunning(j) ==
  /\ Running(j, "mark")
  /\ \/ /\ status' = [status EXCEPT ![j] = "running"]
        /\ Goto(j, "setup")
        /\ UNCHANGED <<outcome, errors>>
     \/ DbError /\ Thrown(j) /\ UNCHANGED status
  /\ UNCHANGED <<tables, written, notified, mode, queue, typed, paused, cancelled, broken,
                 loose, sweep, asked, mails, crashes>>

\* getAuthorizedClient, getAppendIndex, and the plan.
SetUp(j) ==
  /\ Running(j, "setup")
  /\ (Goto(j, "gate") /\ UNCHANGED outcome) \/ Thrown(j)
  /\ UNCHANGED <<tables, row, mode, queue, typed, paused, cancelled, broken, loose, sweep, outside>>

\* replay() throws, and run() goes on without the flush loop: what that has sent
\* to Google is answered when it is answered.  (Unless it was the loop that
\* failed, or there is nothing more to type.)
ReplayThrows(j) ==
  /\ Thrown(j)
  /\ adrift' = IF j \in broken \/ typed[j] = "high" THEN adrift ELSE adrift \cup {j}

\* waitWhilePaused before each event: a pause blocks, an abort throws.
Gate(j) ==
  /\ Running(j, "gate")
  /\ IF j \in aborted THEN ReplayThrows(j)
     ELSE /\ Goto(j, IF j \in paused THEN "blocked" ELSE "work")
          /\ UNCHANGED <<outcome, adrift>>
  /\ UNCHANGED <<tables, row, mode, queue, typed, paused, cancelled, broken, writes, claiming,
                 sweep, outside>>

\* Half of the text is typed, saved or not yet.  An abort or a failed repair
\* throws, but an event that has already slept its delay out may complete.
Work(j) ==
  /\ Running(j, "work")
  /\ \/ ReplayThrows(j) /\ UNCHANGED <<typed, written>>
     \/ /\ Goto(j, IF typed[j] = "low" THEN "gate" ELSE "drain")
        /\ typed' = [typed EXCEPT ![j] = "high"]
        /\ UNCHANGED written \/ written' = [written EXCEPT ![j] = "high"]
        /\ UNCHANGED <<outcome, adrift>>
  /\ UNCHANGED <<tables, status, notified, mode, queue, paused, cancelled, broken, writes, claiming,
                 sweep, outside>>

\* A batch that a loop left behind has sent is answered when the last progress
\* is on the row, perhaps after the job was settled: charsWritten is higher and,
\* 2 s after the last time, is saved again.
LateFlush(j) ==
  /\ mode \in {"up", "stopping"} /\ j \in adrift /\ step[j] # "persist"
  /\ adrift' = adrift \ {j}
  /\ written' = [written EXCEPT ![j] = "high"]
  /\ UNCHANGED <<tables, status, notified, mode, queue, runner, writes, claiming, sweep, outside>>

\* The flush loop gives up on Google: recordFailure.
Break(j) ==
  /\ mode \in {"up", "stopping"}
  /\ step[j] \in {"gate", "blocked", "work", "drain"}
  /\ j \notin aborted
  /\ broken' = broken \cup {j}
  /\ UNCHANGED <<tables, row, mode, queue, step, outcome, typed, paused, cancelled, loose, sweep, outside>>

\* await flushTask.  Only its failure is looked at: a cancel that finds the last
\* flush already answered comes too late.
Drain(j) ==
  /\ Running(j, "drain")
  /\ (j \in aborted /\ Thrown(j)) \/ (j \notin broken /\ Conclude(j, "done"))
  /\ UNCHANGED <<tables, row, mode, queue, typed, paused, cancelled, broken, loose, sweep, outside>>

\* finalFlushBestEffort, or the loop left behind, may have typed the rest;
\* persistProgress(true) swallows its error.
Persist(j) ==
  /\ Running(j, "persist")
  /\ \E t \in IF j \in adrift THEN {"low", "high"} ELSE {typed[j]} :
       /\ adrift' = IF t = "high" THEN adrift \ {j} ELSE adrift
       /\ \/ written' = [written EXCEPT ![j] = t] /\ UNCHANGED errors
          \/ DbError /\ UNCHANGED written
  /\ Goto(j, "finish")
  /\ UNCHANGED <<tables, status, notified, mode, queue, outcome, typed, paused, cancelled, broken,
                 writes, claiming, sweep, asked, mails, crashes>>

-----------------------------------------------------------------------------
(* finishJob *)

\* Mutant: finishJob leaves the refund to its callers.
FinishRowOnly(j) ==
  /\ \E s \in {"finish", "lastChance"} : Running(j, s)
  /\ status' = [status EXCEPT ![j] = outcome[j]]
  /\ Release(j)
  /\ UNCHANGED <<tables, written, notified, mode, outcome, typed, paused, cancelled, broken,
                 loose, sweep, outside>>

FinishRow(j) ==
  /\ \E s \in {"finish", "lastChance"} : Running(j, s)
  /\ status' = [status EXCEPT ![j] = outcome[j]]
  /\ Goto(j, "settle")
  /\ UNCHANGED <<tables, written, notified, mode, queue, outcome, typed, paused, cancelled, broken,
                 loose, sweep, outside>>

\* The UPDATE throws.  From run(), that is one more failure of the job; from
\* the cancel path it reaches the queue's catch; every other caller gives up.
FinishError(j) ==
  /\ \E s \in {"finish", "lastChance"} : Running(j, s)
  /\ DbError
  /\ CASE step[j] = "finish" /\ outcome[j] = "done" -> Thrown(j) /\ UNCHANGED queue
       [] step[j] = "finish" /\ outcome[j] = "cancelled" /\ j \in active ->
            /\ Goto(j, "lastChance")
            /\ outcome' = [outcome EXCEPT ![j] = "failed"]
            /\ UNCHANGED queue
       [] OTHER -> Release(j) /\ UNCHANGED outcome
  /\ UNCHANGED <<tables, row, mode, typed, paused, cancelled, broken, loose, sweep, asked, mails, crashes>>

\* settleJobCredits: failed always, cancelled within a tenth, done never.
Owed(j, o) == o = "failed" \/ (o = "cancelled" /\ written[j] = "low")
\* Mutant: every job is paid back.
PayBackAlways(j, o) ==
  IF jobs[j].spent > 0 /\ ~Booked(ledger, "job_refund", j) THEN Refund(j) ELSE UNCHANGED tables
PayBack(j, o) ==
  IF Owed(j, o) /\ jobs[j].spent > 0 /\ ~Booked(ledger, "job_refund", j)
  THEN Refund(j) ELSE UNCHANGED tables

\* The settle, or its error, and the announcement nobody waits for.  Progress
\* saved late between its SELECT and its transaction might as well come after.
Settle(j) ==
  /\ Running(j, "settle")
  /\ (PayBack(j, outcome[j]) /\ UNCHANGED errors) \/ (DbError /\ UNCHANGED tables)
  /\ claiming' = claiming \cup {j}
  /\ Release(j)
  /\ UNCHANGED <<row, mode, outcome, typed, paused, cancelled, broken, writes, adrift,
                 sweep, asked, mails, crashes>>

\* Mutant: an announcement is not claimed.
ClaimAgain(j) ==
  /\ mode \in {"up", "stopping", "sweeping"}
  /\ j \in claiming
  /\ claiming' = claiming \ {j}
  /\ IF status[j] \in {"done", "failed"}
     THEN notified' = notified \cup {j} /\ mails' = [mails EXCEPT ![j] = @ + 1]
     ELSE UNCHANGED <<notified, mails>>
  /\ UNCHANGED <<tables, status, written, mode, queue, runner, writes, adrift, sweep, asked,
                 crashes, errors>>

\* claim(): one UPDATE that only ever succeeds once, and the mail it allows.
Claim(j) ==
  /\ mode \in {"up", "stopping", "sweeping"}
  /\ j \in claiming
  /\ claiming' = claiming \ {j}
  /\ IF status[j] \in {"done", "failed"} /\ j \notin notified
     THEN /\ notified' = notified \cup {j}
          /\ mails' = [mails EXCEPT ![j] = @ + 1]
     ELSE UNCHANGED <<notified, mails>>
  /\ UNCHANGED <<tables, status, written, mode, queue, runner, writes, adrift, sweep, asked,
                 crashes, errors>>

-----------------------------------------------------------------------------
(* What the owner asks for while the job is alive. *)

Pause(j) ==
  /\ mode = "up" /\ j \in active \cap Pausable
  /\ j \notin paused \cup aborted
  /\ paused' = paused \cup {j}
  /\ writes' = [writes EXCEPT ![j] = @ \cup {"paused"}]
  /\ UNCHANGED <<tables, row, mode, queue, step, outcome, typed, cancelled, broken, claiming,
                 adrift, sweep, outside>>

\* Mutant: the flag is cleared and the waiters are not resolved.
ResumedAsleep(s) ==
  LET woken == s \cap paused IN
  /\ paused' = paused \ woken
  /\ writes' = [j \in JobIds |-> writes[j] \cup (IF j \in woken THEN {"running"} ELSE {})]
  /\ UNCHANGED step

\* What resume() leaves behind for the runners of s that were paused.
Resumed(s) ==
  LET woken == s \cap paused IN
  /\ paused' = paused \ woken
  /\ writes' = [j \in JobIds |-> writes[j] \cup (IF j \in woken THEN {"running"} ELSE {})]
  /\ step' = [j \in JobIds |-> IF j \in woken /\ step[j] = "blocked" THEN "gate" ELSE step[j]]

Resume(j) ==
  /\ mode = "up" /\ j \in active \cap paused
  /\ Resumed({j})
  /\ UNCHANGED <<tables, row, mode, queue, outcome, typed, cancelled, broken, claiming,
                 adrift, sweep, outside>>

\* JobRunner.cancel on each runner of s: nothing once it has been aborted.
CancelRunners(s) ==
  /\ Resumed(s \ aborted)
  /\ cancelled' = cancelled \cup (s \ aborted)

CancelActive(j) ==
  /\ mode = "up" /\ j \in active
  /\ asked' = asked \cup {j}
  /\ CancelRunners({j})
  /\ UNCHANGED <<tables, row, mode, queue, outcome, typed, broken, claiming, adrift,
                 sweep, mails, crashes, errors>>

\* Mutant: the job is dropped from the line and its row forgotten.
CancelWaitingForgets(j) ==
  /\ mode = "up"
  /\ \E i \in DOMAIN waiting :
       /\ waiting[i] = j
       /\ waiting' = SubSeq(waiting, 1, i - 1) \o SubSeq(waiting, i + 1, Len(waiting))
  /\ asked' = asked \cup {j}
  /\ UNCHANGED <<tables, row, mode, active, runner, loose, sweep, mails, crashes, errors>>

\* A queued job is dropped from the line, and finished by the request itself.
CancelWaiting(j) ==
  /\ mode = "up"
  /\ \E i \in DOMAIN waiting :
       /\ waiting[i] = j
       /\ waiting' = SubSeq(waiting, 1, i - 1) \o SubSeq(waiting, i + 1, Len(waiting))
  /\ asked' = asked \cup {j}
  /\ Goto(j, "finish")
  /\ outcome' = [outcome EXCEPT ![j] = "cancelled"]
  /\ UNCHANGED <<tables, row, mode, active, typed, paused, cancelled, broken, loose, sweep,
                 mails, crashes, errors>>

\* One of the unawaited updateJobStatus calls reaches Postgres, or is lost.
Land(j, s) ==
  /\ mode \in {"up", "stopping"}
  /\ s \in writes[j]
  /\ writes' = [writes EXCEPT ![j] = @ \ {s}]
  /\ (status' = [status EXCEPT ![j] = s] /\ UNCHANGED errors) \/ (DbError /\ UNCHANGED status)
  /\ UNCHANGED <<tables, written, notified, mode, queue, runner, claiming, adrift,
                 sweep, asked, mails, crashes>>

-----------------------------------------------------------------------------
(* The process. *)

\* SIGTERM: forget the line, cancel every runner, and exit a moment later.
Shutdown ==
  /\ mode = "up" /\ crashes < MaxCrashes
  /\ crashes' = crashes + 1
  /\ mode' = "stopping"
  /\ waiting' = <<>>
  /\ CancelRunners(active)
  /\ UNCHANGED <<tables, row, active, outcome, typed, broken, claiming, adrift,
                 sweep, asked, mails, errors>>

\* Memory is gone, whatever was in it; statements under way never happened.
Die ==
  /\ mode' = "down"
  /\ waiting' = <<>> /\ active' = {}
  /\ step' = [j \in JobIds |-> "none"]
  /\ outcome' = [j \in JobIds |-> NoStatus]
  /\ typed' = [j \in JobIds |-> "low"]
  /\ paused' = {} /\ cancelled' = {} /\ broken' = {}
  /\ writes' = [j \in JobIds |-> {}]
  /\ claiming' = {} /\ adrift' = {} /\ sweep' = {}
  /\ UNCHANGED <<tables, row, asked, mails, errors>>

Exit == mode = "stopping" /\ Die /\ UNCHANGED crashes
Crash ==
  /\ mode \in {"up", "sweeping"} /\ crashes < MaxCrashes
  /\ crashes' = crashes + 1
  /\ Die

\* Mutant: the sweep's UPDATE has lost its WHERE.
BootFailsAll ==
  /\ mode = "down"
  /\ mode' = "sweeping"
  /\ sweep' = {j \in JobIds : status[j] # NoStatus}
  /\ status' = [j \in JobIds |-> IF status[j] = NoStatus THEN NoStatus ELSE "failed"]
  /\ UNCHANGED <<tables, written, notified, queue, runner, loose, outside>>

\* failOrphanedJobs: one UPDATE for all of them ...
Boot ==
  /\ mode = "down"
  /\ mode' = "sweeping"
  /\ sweep' = {j \in JobIds : status[j] \in Live}
  /\ status' = [j \in JobIds |-> IF status[j] \in Live THEN "failed" ELSE status[j]]
  /\ UNCHANGED <<tables, written, notified, queue, runner, loose, outside>>

\* ... then each is settled and announced ...
SweepOne(j) ==
  /\ mode = "sweeping" /\ j \in sweep
  /\ sweep' = sweep \ {j}
  /\ (PayBack(j, "failed") /\ UNCHANGED errors) \/ (DbError /\ UNCHANGED tables)
  /\ claiming' = claiming \cup {j}
  /\ UNCHANGED <<row, mode, queue, runner, writes, adrift, asked, mails, crashes>>

\* ... before the server listens.
Listen ==
  /\ mode = "sweeping" /\ sweep = {}
  /\ mode' = "up"
  /\ UNCHANGED <<tables, row, queue, runner, loose, sweep, outside>>

-----------------------------------------------------------------------------
Run(j) ==
  Enqueue(j) \/ MarkRunning(j) \/ SetUp(j) \/ Gate(j) \/ Work(j) \/ Drain(j)
    \/ Persist(j) \/ FinishRow(j) \/ FinishError(j) \/ Settle(j)

OwnerAsks(j) == Pause(j) \/ Resume(j) \/ CancelActive(j) \/ CancelWaiting(j)

Process == Shutdown \/ Exit \/ Crash \/ Boot \/ Listen

Next ==
  \/ TopUp
  \/ \E u \in Users, j \in JobIds, cost \in Costs : ReserveJob(u, j, cost)
  \/ \E j \in JobIds :
       Run(j) \/ LateFlush(j) \/ Break(j) \/ OwnerAsks(j) \/ Claim(j) \/ SweepOne(j)
         \/ \E s \in {"paused", "running"} : Land(j, s)
  \/ Process

Spec == Init /\ [][Next]_vars

\* Timers and promises resolve, the platform restarts a process that exited,
\* and a stopping one is killed.  Owners are not obliged to anything.
Fairness ==
  /\ \A j \in JobIds : WF_vars(Run(j)) /\ WF_vars(Claim(j)) /\ WF_vars(SweepOne(j))
  /\ \A j \in JobIds, s \in {"paused", "running"} : WF_vars(Land(j, s))
  /\ WF_vars(Exit) /\ WF_vars(Boot) /\ WF_vars(Listen)

FairSpec == Spec /\ Fairness

-----------------------------------------------------------------------------
TypeOK ==
  /\ TablesOK
  /\ status \in [JobIds -> Terminal \cup Live \cup {NoStatus}]
  /\ written \in [JobIds -> {"low", "high"}] /\ typed \in [JobIds -> {"low", "high"}]
  /\ notified \subseteq JobIds /\ claiming \subseteq JobIds /\ sweep \subseteq JobIds
  /\ adrift \subseteq JobIds
  /\ mode \in {"up", "stopping", "down", "sweeping"}
  /\ waiting \in Seq(JobIds) /\ active \subseteq JobIds
  /\ step \in [JobIds -> Steps]
  /\ outcome \in [JobIds -> Terminal \cup {NoStatus}]
  /\ paused \subseteq JobIds /\ cancelled \subseteq JobIds /\ broken \subseteq JobIds
  /\ writes \in [JobIds -> SUBSET {"paused", "running"}]
  /\ asked \subseteq JobIds /\ mails \in [JobIds -> Nat]
  /\ crashes \in 0..MaxCrashes /\ errors \in 0..MaxErrors

Queued == {waiting[i] : i \in DOMAIN waiting}

\* queue.ts: never more runners than slots, nobody waits beside a free slot,
\* and a job is in the line once or in a slot, never in both, while it lives.
QueueOK ==
  /\ TypeOK
  /\ Cardinality(active) <= MaxConcurrent
  /\ waiting # <<>> => Cardinality(active) = MaxConcurrent
  /\ Cardinality(Queued) = Len(waiting) /\ Queued \cap active = {}
  /\ \A j \in Queued : status[j] = "pending" /\ step[j] = "none"
  /\ \A j \in active : step[j] \notin {"none", "reserved"}

\* db/jobs.ts:65: "Marks a job finished".  Nothing that happens to a finished
\* job, late or repeated, changes how it finished.  (For jobs nobody pauses: the
\* status a pause writes is awaited by nobody and may land after the outcome.)
TerminalIsFinal ==
  [][\A j \in JobIds \ Pausable : status[j] \in Terminal => status'[j] = status[j]]_vars

\* settleJobCredits (credits.ts:244-257).  Who was paid back has a job that failed
\* or was cancelled, for ever: one that is done keeps its charge.  And a job
\* cancelled within a tenth is paid back by the time its runner has left, unless a
\* statement was refused or the process told to stop.
SettledByPolicy ==
  \A j \in JobIds \ Pausable :
    /\ Booked(ledger, "job_refund", j) => status[j] \in {"failed", "cancelled"}
    /\ /\ step[j] = "none" /\ status[j] = "cancelled" /\ written[j] = "low"
       /\ jobs[j].spent > 0 /\ errors = 0 /\ crashes = 0
       => Booked(ledger, "job_refund", j)

\* "Send once": whichever paths finish a job, it is announced at most once.
AnnouncedOnce == \A j \in JobIds : mails[j] <= 1

\* No lost wake-up: a runner sleeps in the pause gate only while it is paused.
BlockedIsPaused == \A j \in JobIds : step[j] = "blocked" => j \in paused

\* db/jobs.ts:113-116: no row is live with nobody working on it.  Whenever the
\* server is up some request, queue slot or runner of this process has it, so
\* long as Postgres has refused no statement: finishJob's errors are swallowed.
NoStrandedJob ==
  mode = "up" /\ errors = 0 =>
    \A j \in JobIds \ Pausable : status[j] \in Live => step[j] # "none" \/ j \in Queued

\* Whoever charged for a job, it reaches an outcome, restarts included.
EveryJobEnds ==
  \A j \in JobIds : status[j] \in Live ~> status[j] \in Terminal \/ errors > 0

\* README.md:447, "Failed jobs are always refunded": a job that fails before any
\* restart, or that a boot sweep fails, is paid back unless the process dies
\* first or a statement is refused.
RefundedUnlessKilled ==
  \A j \in JobIds :
    (j \in sweep \/ (status[j] = "failed" /\ crashes = 0)) /\ jobs[j].spent > 0
      ~> Booked(ledger, "job_refund", j) \/ mode = "down" \/ errors > 0

-----------------------------------------------------------------------------
(* What the repository says of the program and the program does not do. *)

\* runner.ts:126-127: a cancel releases the replay loop "so it observes the
\* abort immediately rather than sitting in a pause gate", and its slot with it.
CancelFreesSlot == \A j \in JobIds : j \in asked ~> j \notin active

\* credits.ts:256: "done - never refunded".
DoneIsNeverRefunded ==
  \A j \in JobIds : [](status[j] = "done" => []~Booked(ledger, "job_refund", j))
=============================================================================
