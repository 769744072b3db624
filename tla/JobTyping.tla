------------------------------ MODULE JobTyping ------------------------------
(***************************************************************************)
(* A job being typed: jobs/runner.ts replays the plan into the buffer of   *)
(* jobs/buffer.ts while its flush loop drains it, and docs/documents.ts    *)
(* sends one batch at a time through the limiter and docs/backoff.ts.      *)
(*                                                                         *)
(* One action runs from one await to the next.  Time is left out: a sleep  *)
(* may end whenever it is not aborted.  Pausing, the database and the slot *)
(* of the job are JobLifecycle's.  Plans hold no backspaces: humanize      *)
(* repairs its mistakes and never deletes at the end of the text.          *)
(***************************************************************************)
EXTENDS DocRequests

CONSTANTS
  Plans,       \* the plans humanize may have made
  MaxRetries,  \* config.backoff.maxRetries
  MaxFaults,   \* calls Google refuses, for a while or for good
  MaxLost,     \* calls Google applies without the answer arriving
  Spoilt

VARIABLES
  plan,
  planIndex,     \* JobRunner.planIndex
  replay,        \* where the replay loop, then run() and handleFailure, stand
  loop,          \* where flushLoop stands
  buffer,        \* TypingBuffer.ops
  aborted,       \* the abort signal: no, or what fired it
  failure,       \* JobRunner.failure is set
  chain,         \* DocWriter.chain: the calls waiting, the head being made
  phase,         \* of the head of the chain: permit, call or backoff
  attempt,       \* retries of the head so far
  cursor,        \* DocWriter.cursor
  charsWritten,  \* JobRunner.charsWritten
  doc,           \* the document, at Google
  preview,       \* the text the browser shows, from the ops of progress events
  outcome,       \* what finishJob is called with
  fixed,         \* repairs of the plan that have been made
  missing,       \* no, ops are lost, or text was appended where they were to be
  twice,         \* a repair has been sent again after it was made
  faults, lost

runner == <<planIndex, replay, loop, buffer, aborted, failure, outcome>>
writer == <<chain, phase, attempt, cursor>>
google == <<doc, faults, lost>>
shown == <<charsWritten, preview>>
ghost == <<fixed, missing, twice>>
vars == <<plan, runner, writer, google, shown, ghost>>

\* What a plan is made of; a repair takes something away.
HumanEvent ==
  [kind : {"type"}, char : Characters] \cup [kind : {"rest"}]
    \cup [kind : {"repair"}, offset : Nat, remove : Nat \ {0}, insert : Seq(Characters)]

ASSUME TypingAssumption ==
  /\ Plans \subseteq Seq(HumanEvent) \ {<<>>}
  /\ {MaxRetries, MaxFaults, MaxLost} \subseteq Nat

Init ==
  /\ plan \in Plans
  /\ planIndex = 1 /\ replay = "next" /\ loop = "sleep" /\ outcome = "none"
  /\ buffer = <<>> /\ aborted = "no" /\ failure = FALSE
  /\ chain = <<>> /\ phase = "permit" /\ attempt = 0
  /\ cursor = Floor /\ charsWritten = 0
  /\ doc = Before /\ preview = <<>>
  /\ fixed = {} /\ missing = "no" /\ twice = FALSE
  /\ faults = 0 /\ lost = 0

\* What the job has put in the document
Page == SubSeq(doc, Floor + 1, Len(doc))

\* The page of TypedDocument, and the three things its promise does not cover
BeyondPromise == lost > 0 \/ twice \/ missing = "hole"
SeenPage == IF BeyondPromise THEN Spoilt ELSE Page

Abs == INSTANCE TypedDocument WITH page <- SeenPage

\* runner.ts:470-473, and what humanize makes
ASSUME MistakesAssumption ==
  /\ \A p \in Plans : Abs!OneOutstanding(p)
  /\ Spoilt \notin Seq(Characters)

-----------------------------------------------------------------------------
event == plan[planIndex]

\* set in the `finally` around replay()
replayFinished == replay \in {"join", "cancelled", "final", "tidy", "tidying", "over"}

Flush(by, ops) == [by |-> by, kind |-> "flush", ops |-> ops]
Repair(by, index) == [by |-> by, kind |-> "repair", index |-> index]

\* The last two calls of a cancelled job are made without the abort signal.
Heeds(task) == task.by \in {"replay", "loop"}
Stopped(task) == Heeds(task) /\ aborted # "no"

\* DocWriter.repair aims from the floor, wherever the cursor is.
RepairRequests(e) ==
  <<DeleteReq(Floor + e.offset, Floor + e.offset + e.remove)>>
    \o (IF e.insert = <<>> THEN <<>> ELSE <<InsertReq(Floor + e.offset, e.insert)>>)

Requests(task) ==
  IF task.kind = "flush" THEN PlanRequests(task.ops, cursor).requests
  ELSE RepairRequests(plan[task.index])

\* Mutant: the cursor is not moved by what a repair adds or takes away.
NextCursorUnshifted(task) ==
  IF task.kind = "flush" THEN PlanRequests(task.ops, cursor).cursor ELSE cursor

NextCursor(task) ==
  IF task.kind = "flush" THEN PlanRequests(task.ops, cursor).cursor
  ELSE cursor + Len(plan[task.index].insert) - plan[task.index].remove

\* Mutant: what was handed over stays in the buffer.
DrainKeeping(by) ==
  /\ chain' = Append(chain, Flush(by, buffer))
  /\ UNCHANGED buffer

\* flushOnce: drain, and queue behind whatever is being sent.
Drain(by) ==
  /\ chain' = Append(chain, Flush(by, buffer))
  /\ buffer' = <<>>

\* The end of one turn of the for loop; planIndex stays on the last event.
Advance ==
  IF planIndex = Len(plan) THEN replay' = "join" /\ UNCHANGED planIndex
  ELSE replay' = "next" /\ planIndex' = planIndex + 1

\* The catch of run(): handleFailure tells a cancellation by the flag alone.
Thrown ==
  IF aborted = "cancel" THEN replay' = "cancelled" /\ UNCHANGED outcome
  ELSE replay' = "over" /\ outcome' = "failed"

-----------------------------------------------------------------------------
(* The replay loop. *)

\* A gap or a repair first lands what has been typed.
TakeEvent ==
  /\ replay = "next"
  /\ IF aborted # "no" THEN Thrown /\ UNCHANGED <<chain, buffer>>
     ELSE IF event.kind \in {"rest", "repair"} /\ buffer # <<>>
     THEN Drain("replay") /\ replay' = "flush" /\ UNCHANGED outcome
     ELSE replay' = "sleep" /\ UNCHANGED <<chain, buffer, outcome>>
  /\ UNCHANGED <<plan, planIndex, loop, aborted, failure, phase, attempt, cursor, google, shown, ghost>>

Type ==
  /\ replay = "sleep" /\ aborted = "no" /\ event.kind = "type"
  /\ buffer' = Pushed(buffer, InsertOp(<<event.char>>))
  /\ Advance
  /\ UNCHANGED <<plan, loop, aborted, failure, outcome, writer, google, shown, ghost>>

RestOver ==
  /\ replay = "sleep" /\ aborted = "no" /\ event.kind = "rest"
  /\ Advance
  /\ UNCHANGED <<plan, loop, buffer, aborted, failure, outcome, writer, google, shown, ghost>>

\* repair() refuses a range past the cursor, which a flush in flight leaves behind.
InJobsRange(index) == Floor + plan[index].offset + plan[index].remove <= cursor

StartRepair ==
  /\ replay = "sleep" /\ aborted = "no" /\ event.kind = "repair"
  /\ IF InJobsRange(planIndex)
     THEN /\ chain' = Append(chain, Repair("replay", planIndex))
          /\ replay' = "repair" /\ UNCHANGED outcome
     ELSE Thrown /\ UNCHANGED chain
  /\ UNCHANGED <<plan, planIndex, loop, buffer, aborted, failure, phase, attempt, cursor,
                 google, shown, ghost>>

SleepAborted ==
  /\ replay = "sleep" /\ aborted # "no"
  /\ Thrown
  /\ UNCHANGED <<plan, planIndex, loop, buffer, aborted, failure, writer, google, shown, ghost>>

\* Mutant: a flush loop that failed is waited for, for ever.
JoinSucceeded ==
  /\ replay = "join" /\ loop = "ended" /\ ~failure
  /\ replay' = "over" /\ outcome' = "done"
  /\ UNCHANGED <<plan, planIndex, loop, buffer, aborted, failure, writer, google, shown, ghost>>

\* `await flushTask`, then done, or the failure the flush loop recorded.
Join ==
  /\ replay = "join" /\ loop = "ended"
  /\ IF failure THEN Thrown ELSE replay' = "over" /\ outcome' = "done"
  /\ UNCHANGED <<plan, planIndex, loop, buffer, aborted, failure, writer, google, shown, ghost>>

-----------------------------------------------------------------------------
(* The flush loop. *)

LoopTop == IF replayFinished /\ buffer = <<>> THEN "ended" ELSE "sleep"

LoopWakes ==
  /\ loop = "sleep" /\ aborted = "no"
  /\ \/ buffer # <<>> /\ Drain("loop") /\ loop' = "flush"
     \/ buffer = <<>> /\ replayFinished /\ loop' = "ended" /\ UNCHANGED <<chain, buffer>>
  /\ UNCHANGED <<plan, planIndex, replay, aborted, failure, outcome, phase, attempt, cursor,
                 google, shown, ghost>>

LoopAborted ==
  /\ loop = "sleep" /\ aborted # "no"
  /\ loop' = "threw"
  /\ UNCHANGED <<plan, planIndex, replay, buffer, aborted, failure, outcome, writer,
                 google, shown, ghost>>

\* recordFailure runs some microtasks after the flush has failed: the chain may
\* have begun the next batch by then.
RecordFailure ==
  /\ loop = "threw"
  /\ loop' = "ended" /\ failure' = TRUE
  /\ aborted' = IF aborted = "no" THEN "failure" ELSE aborted
  /\ UNCHANGED <<plan, planIndex, replay, buffer, outcome, writer, google, shown, ghost>>

-----------------------------------------------------------------------------
(* A cancellation. *)

Cancel ==
  /\ aborted = "no" /\ replay # "over"
  /\ aborted' = "cancel"
  /\ UNCHANGED <<plan, planIndex, replay, loop, buffer, failure, outcome, writer,
                 google, shown, ghost>>

\* finalFlushBestEffort
FinalFlush ==
  /\ replay = "cancelled"
  /\ IF buffer = <<>> THEN replay' = "tidy" /\ UNCHANGED <<chain, buffer>>
     ELSE Drain("final") /\ replay' = "final"
  /\ UNCHANGED <<plan, planIndex, loop, aborted, failure, outcome, phase, attempt, cursor,
                 google, shown, ghost>>

\* repairOutstandingBestEffort: the first repair from planIndex on, if the text
\* it is aimed at has been written.
Outstanding == {i \in planIndex..Len(plan) : plan[i].kind = "repair"}

Reached(index) == plan[index].offset + plan[index].remove <= charsWritten

TidyUp ==
  /\ replay = "tidy"
  /\ IF Outstanding # {} /\ Reached(Min(Outstanding)) /\ InJobsRange(Min(Outstanding))
     THEN /\ chain' = Append(chain, Repair("tidy", Min(Outstanding)))
          /\ replay' = "tidying" /\ UNCHANGED outcome
          /\ twice' = (twice \/ Min(Outstanding) \in fixed)
     ELSE replay' = "over" /\ outcome' = "cancelled" /\ UNCHANGED <<chain, twice>>
  /\ UNCHANGED <<plan, planIndex, loop, buffer, aborted, failure, phase, attempt, cursor,
                 google, shown, fixed, missing>>

-----------------------------------------------------------------------------
(* The writer and Google. *)

task == Head(chain)
Calling(p) == chain # <<>> /\ phase = p

GetPermit ==
  /\ Calling("permit") /\ ~Stopped(task)
  /\ phase' = "call"
  /\ UNCHANGED <<plan, runner, chain, attempt, cursor, google, shown, ghost>>

\* What the browser shows once the ops of the call are announced; the repair
\* made on a cancel announces nothing.
Shown ==
  CASE task.kind = "flush" -> ApplyOps(preview, task.ops)
    [] task.kind = "repair" /\ task.by = "replay" -> Abs!Repaired(preview, plan[task.index])
    [] OTHER -> preview

\* The awaited call returns to who made it.
Returns ==
  \/ /\ task.by = "loop"
     /\ loop' = LoopTop
     /\ UNCHANGED <<replay, planIndex, outcome>>
  \/ /\ task.by = "replay" /\ task.kind = "flush"
     /\ replay' = "sleep"
     /\ UNCHANGED <<loop, planIndex, outcome>>
  \/ /\ task.by = "replay" /\ task.kind = "repair"
     /\ Advance
     /\ UNCHANGED <<loop, outcome>>
  \/ /\ task.by = "final"
     /\ replay' = "tidy"
     /\ UNCHANGED <<loop, planIndex, outcome>>
  \/ /\ task.by = "tidy"
     /\ replay' = "over" /\ outcome' = "cancelled"
     /\ UNCHANGED <<loop, planIndex>>

\* Mutant: a throw is swallowed by the loop, which goes on.
ThrowsNothing ==
  \/ task.by = "loop" /\ loop' = LoopTop /\ UNCHANGED <<replay, outcome>>
  \/ task.by = "replay" /\ Thrown /\ UNCHANGED loop
  \/ task.by = "final" /\ replay' = "tidy" /\ UNCHANGED <<loop, outcome>>
  \/ task.by = "tidy" /\ replay' = "over" /\ outcome' = "cancelled" /\ UNCHANGED loop

Throws ==
  \/ task.by = "loop" /\ loop' = "threw" /\ UNCHANGED <<replay, outcome>>
  \/ task.by = "replay" /\ Thrown /\ UNCHANGED loop
  \/ task.by = "final" /\ replay' = "tidy" /\ UNCHANGED <<loop, outcome>>
  \/ task.by = "tidy" /\ replay' = "over" /\ outcome' = "cancelled" /\ UNCHANGED loop

\* The next call begins whether or not this one succeeded.
NextCall == chain' = Tail(chain) /\ phase' = "permit" /\ attempt' = 0

Succeed ==
  /\ NextCall /\ Returns
  /\ cursor' = NextCursor(task) /\ charsWritten' = NextCursor(task) - Floor
  /\ preview' = Shown
  /\ UNCHANGED <<plan, buffer, aborted, failure, twice>>

Fail ==
  /\ NextCall /\ Throws
  /\ missing' = IF task.kind = "flush" /\ missing = "no" THEN "lost" ELSE missing
  /\ UNCHANGED <<plan, planIndex, buffer, aborted, failure, cursor, shown, fixed, twice>>

Accepted == InRange(doc, Head(Requests(task)))

Answered ==
  /\ Calling("call") /\ Accepted
  /\ doc' = ApplyRequests(doc, Requests(task))
  /\ fixed' = IF task.kind = "repair" THEN fixed \cup {task.index} ELSE fixed
  /\ missing' = IF task.kind = "flush" /\ missing = "lost" THEN "hole" ELSE missing
  /\ Succeed
  /\ UNCHANGED <<faults, lost>>

\* Mutant: one attempt too many.
RetryOneMore ==
  IF Stopped(task) \/ attempt > MaxRetries THEN Fail
  ELSE /\ phase' = "backoff" /\ attempt' = attempt + 1
       /\ UNCHANGED <<plan, runner, chain, cursor, shown, ghost>>

\* The catch of withBackoff.
Retry ==
  IF Stopped(task) \/ attempt >= MaxRetries THEN Fail
  ELSE /\ phase' = "backoff" /\ attempt' = attempt + 1
       /\ UNCHANGED <<plan, runner, chain, cursor, shown, ghost>>

\* 429, 5xx, or no connection: nothing was applied.
Refused ==
  /\ Calling("call") /\ faults < MaxFaults
  /\ faults' = faults + 1
  /\ Retry
  /\ UNCHANGED <<doc, lost>>

\* The batch was applied and the connection broke before the answer.
AnswerLost ==
  /\ Calling("call") /\ Accepted /\ lost < MaxLost
  /\ lost' = lost + 1
  /\ doc' = ApplyRequests(doc, Requests(task))
  /\ Retry
  /\ UNCHANGED faults

\* 401, 403, 404.
Denied ==
  /\ Calling("call") /\ faults < MaxFaults
  /\ faults' = faults + 1
  /\ Fail
  /\ UNCHANGED <<doc, lost>>

\* 400: a repair sent a second time may aim past the end.
OutOfRange ==
  /\ Calling("call") /\ ~Accepted
  /\ Fail
  /\ UNCHANGED google

TryAgain ==
  /\ Calling("backoff") /\ ~Stopped(task)
  /\ phase' = "call"
  /\ UNCHANGED <<plan, runner, chain, attempt, cursor, google, shown, ghost>>

\* Aborted in the limiter or between two attempts, never during a call.
CallAborted ==
  /\ chain # <<>> /\ phase \in {"permit", "backoff"} /\ Stopped(task)
  /\ Fail
  /\ UNCHANGED google

-----------------------------------------------------------------------------
Running ==
  \/ TakeEvent \/ Type \/ RestOver \/ StartRepair \/ SleepAborted \/ Join
  \/ LoopWakes \/ LoopAborted \/ RecordFailure
  \/ FinalFlush \/ TidyUp
  \/ GetPermit \/ Answered \/ OutOfRange \/ TryAgain \/ CallAborted

Next == Running \/ Cancel \/ Refused \/ AnswerLost \/ Denied

Spec == Init /\ [][Next]_vars

\* Timers fire, promises resolve, and a call is answered in the end: as many
\* answers as are refused or lost, Google refuses only so many.
FairSpec == Spec /\ WF_vars(Running)

-----------------------------------------------------------------------------
TypeOK ==
  /\ plan \in Plans /\ planIndex \in 1..Len(plan)
  /\ replay \in {"next", "flush", "sleep", "repair", "join", "cancelled", "final", "tidy",
                 "tidying", "over"}
  /\ loop \in {"sleep", "flush", "threw", "ended"}
  /\ aborted \in {"no", "cancel", "failure"} /\ failure \in BOOLEAN
  /\ phase \in {"permit", "call", "backoff"} /\ attempt \in 0..MaxRetries
  /\ cursor \in Nat /\ charsWritten \in Nat
  /\ outcome \in {"none", "done", "failed", "cancelled"}
  /\ fixed \subseteq 1..Len(plan) /\ missing \in {"no", "lost", "hole"} /\ twice \in BOOLEAN
  /\ faults \in 0..MaxFaults /\ lost \in 0..MaxLost

\* runner.ts and documents.ts: whatever is interleaved, aborted, refused or
\* retried, the page is the plan replayed up to some event, only ever further,
\* and the correction made on a cancel is the outstanding one.  Three things
\* break it (BeyondPromise): a batch applied twice because its
\* answer was lost, text typed after ops an aborted batch dropped, and a repair
\* sent again by a cancel.
ImplementsDraft == Abs!Spec

BeforeKept == SubSeq(doc, 1, Floor) = Before
CursorIsEnd == cursor = Len(doc)
PreviewFollows == outcome # "cancelled" => preview = Page

\* What a job believes of the document is so.  documents.ts:174-178: nothing it
\* does, retries and corrections included, touches what was there before it.
\* Unless an answer was lost, the writer's cursor is the document's end, whatever
\* is aborted, refused or overtaken by a repair, and (runner.ts:463) "the preview
\* mirrors the document" until a cancel has made its last correction.
DocumentAsBelieved == BeforeKept /\ (lost = 0 => CursorIsEnd /\ PreviewFollows)

\* A job that says it is done has typed the whole text and left no mistake.
DoneIsText == outcome = "done" /\ lost = 0 => Page = Abs!Text(plan) /\ buffer = <<>>

\* Every run ends: no abort, failure or full chain leaves it waiting.
RunEnds == <>(outcome # "none")

-----------------------------------------------------------------------------
(* What the repository says of the program and the program does not do. *)

\* runner.ts:470-473: at most one mistake "is ever outstanding" and the next
\* repair in the plan "is exactly the one to apply", so once the document shows
\* the whole text, none of it lost, nothing a cancel does changes it.
TextStays == [][Page = Abs!Text(plan) /\ missing = "no" => Page' = Page]_vars
=============================================================================
