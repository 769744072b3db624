---------------------------- MODULE CheckpointGap ----------------------------
(***************************************************************************)
(* The gaps of a plan that exist for Google Docs to close a revision:      *)
(* checkpointPause of jobs/runner.ts and the RevisionWatcher of            *)
(* docs/revisions.ts it watches the revision list with.  Times are in      *)
(* units of planned sleep; what a poll itself takes is not counted, by the *)
(* code either.  Revisions arrive whenever Google likes, also between two  *)
(* pages of one listing; typing between the gaps is left out.              *)
(***************************************************************************)
EXTENDS Integers

CONSTANTS
  Gaps,          \* checkpoint gaps in the plan
  GapDuration,   \* PauseEvent.duration
  GapFloor,      \* PauseEvent.checkpoint.minMs
  PollEvery,     \* config.jobs.revisionPollIntervalMs
  PageSize,      \* revisions in one page of the listing
  ErrorsInARow,  \* MAX_CONSECUTIVE_ERRORS
  MaxRevisions,
  MaxBadPolls    \* listings that may fail

ASSUME GapAssumption ==
  /\ {Gaps, GapDuration, PollEvery, PageSize, ErrorsInARow, MaxRevisions} \subseteq Nat \ {0}
  /\ {GapFloor, MaxBadPolls} \subseteq Nat

VARIABLES
  gap,          \* which gap the job is in
  at,           \* where checkpointPause stands
  slept,        \* of the current gap
  revisions,    \* of the document, at Google
  baseline,     \* the mark the gap started from
  resume,       \* resumeToken and countBeforeResume: the page a poll starts at
  walk,         \* token and before of the poll in progress
  inARow,       \* consecutiveErrors
  disabled,
  total, elapsed,   \* planTotalMs, planElapsedMs
  badPolls,
  standing      \* revisions there were when the baseline was taken

watcher == <<baseline, resume, walk, inARow, disabled>>
clock == <<slept, total, elapsed>>
world == <<revisions, badPolls>>
gapvars == <<gap, at, watcher, clock, world, standing>>

Least(a, b) == IF a < b THEN a ELSE b
Floored == Least(GapFloor, GapDuration)

GapInit ==
  /\ gap = 1 /\ at = "start" /\ slept = 0
  /\ revisions = 1 /\ standing = 0 /\ baseline = <<0, 0>>
  /\ resume = [page |-> 0, before |-> 0] /\ walk = resume
  /\ inARow = 0 /\ disabled = FALSE
  /\ total = Gaps * GapDuration /\ elapsed = 0
  /\ badPolls = 0

NewRevision ==
  /\ at # "over" /\ revisions < MaxRevisions
  /\ revisions' = revisions + 1
  /\ UNCHANGED <<gap, at, watcher, clock, badPolls, standing>>

-----------------------------------------------------------------------------
Slept(ms) == slept' = slept + ms /\ elapsed' = elapsed + ms

\* The gap is over and the plan goes on to the next.
Leave == at' = IF gap = Gaps THEN "over" ELSE "done"

NextGap ==
  /\ at = "done"
  /\ gap' = gap + 1 /\ at' = "start" /\ slept' = 0
  /\ UNCHANGED <<watcher, total, elapsed, world, standing>>

BeginGap ==
  /\ at = "start"
  /\ at' = IF disabled THEN "blind" ELSE "look"
  /\ walk' = resume
  /\ UNCHANGED <<gap, baseline, resume, inARow, disabled, clock, world, standing>>

\* No watcher, or no baseline: the planned gap in one sleep.
SleepBlind ==
  /\ at = "blind"
  /\ Slept(GapDuration) /\ Leave
  /\ UNCHANGED <<gap, watcher, total, world, standing>>

SleepFloor ==
  /\ at = "floor"
  /\ Slept(Floored)
  /\ IF GapDuration <= Floored THEN Leave ELSE at' = "watch"
  /\ UNCHANGED <<gap, watcher, total, world, standing>>

\* One turn of waitForChange: a step of sleep, then a poll.  A watcher that has
\* given up by then ends the gap, with time of it left (revisions.ts:201).
SleepStep ==
  /\ at = "watch" /\ slept < GapDuration
  /\ Slept(Least(PollEvery, GapDuration - slept))
  /\ IF disabled THEN Leave ELSE at' = "poll"
  /\ walk' = resume
  /\ UNCHANGED <<gap, baseline, resume, inARow, disabled, total, world, standing>>

BudgetSpent ==
  /\ at = "watch" /\ slept >= GapDuration
  /\ Leave
  /\ UNCHANGED <<gap, watcher, clock, world, standing>>

-----------------------------------------------------------------------------
(* observe() *)

Asking == at \in {"look", "poll"}

\* The page asked for, as it is when Google answers.
OnPage == Least(PageSize, revisions - walk.page * PageSize)
MorePages == revisions > (walk.page + 1) * PageSize

TurnPage ==
  /\ Asking /\ MorePages
  /\ walk' = [page |-> walk.page + 1, before |-> walk.before + OnPage]
  /\ UNCHANGED <<gap, at, baseline, resume, inARow, disabled, clock, world, standing>>

\* "count:last", compared and nothing else
Mark == <<walk.before + OnPage, revisions>>

\* Mutant: the next poll starts at the last page and counts from nothing.
KeepTokenOnly == resume' = [page |-> walk.page, before |-> 0] /\ inARow' = 0

Keep == resume' = walk /\ inARow' = 0

\* The last page of the first listing: the mark the gap starts from.
TakeBaseline ==
  /\ at = "look" /\ ~MorePages
  /\ Keep
  /\ baseline' = Mark /\ standing' = revisions
  /\ at' = "floor"
  /\ UNCHANGED <<gap, walk, disabled, clock, world>>

SeeNoChange ==
  /\ at = "poll" /\ ~MorePages /\ Mark = baseline
  /\ Keep
  /\ at' = "watch"
  /\ UNCHANGED <<gap, walk, baseline, disabled, clock, world, standing>>

\* Mutant: what was saved stays in the countdown.
TotalKept == total' = total

\* The unspent rest of the gap is taken off the plan.
TotalLess ==
  total' = IF total - (GapDuration - slept) > elapsed THEN total - (GapDuration - slept) ELSE elapsed

SeeChange ==
  /\ at = "poll" /\ ~MorePages /\ Mark # baseline
  /\ Keep
  /\ IF slept < GapDuration THEN TotalLess ELSE UNCHANGED total
  /\ Leave
  /\ UNCHANGED <<gap, walk, baseline, disabled, slept, elapsed, world, standing>>

\* 401, 403, 404 at once; anything else after so many in a row.
CountError(permanent) ==
  /\ inARow' = IF permanent THEN inARow ELSE inARow + 1
  /\ disabled' = (permanent \/ inARow + 1 >= ErrorsInARow)

\* No opinion: a first look leaves the gap blind, a later one is tried again.
PollFails ==
  /\ Asking /\ badPolls < MaxBadPolls /\ badPolls' = badPolls + 1
  /\ \E permanent \in BOOLEAN : CountError(permanent)
  /\ at' = IF at = "look" THEN "blind" ELSE "watch"
  /\ UNCHANGED <<gap, baseline, resume, walk, clock, revisions, standing>>

-----------------------------------------------------------------------------
GapStep ==
  \/ BeginGap \/ NextGap \/ SleepBlind \/ SleepFloor \/ SleepStep \/ BudgetSpent
  \/ TurnPage \/ TakeBaseline \/ SeeNoChange \/ SeeChange

GapNext == GapStep \/ PollFails \/ NewRevision

\* Timers fire and Drive answers.
GapSpec == GapInit /\ [][GapNext]_gapvars /\ WF_gapvars(GapStep)

-----------------------------------------------------------------------------
Ended == at \in {"done", "over"}

\* The countdown: what is left of the plan before the current gap ends.
Owed == (Gaps - gap) * GapDuration + (IF Ended THEN 0 ELSE GapDuration - slept)

FloorSlept == Ended /\ slept < GapDuration => slept >= Floored

GapTypeOK ==
  /\ gap \in 1..Gaps
  /\ at \in {"start", "look", "floor", "blind", "watch", "poll", "done", "over"}
  /\ slept \in 0..GapDuration /\ elapsed \in Nat /\ total \in Nat
  /\ inARow \in 0..ErrorsInARow /\ disabled \in BOOLEAN
  /\ badPolls \in 0..MaxBadPolls /\ revisions \in 1..MaxRevisions

\* revisions.ts:18-30: however a listing is paged, resumed from an earlier poll and
\* added to meanwhile, it reads as changed exactly when there is a revision made
\* since the gap began; and a gap that ends early has lasted its floor.  (That it
\* ends early on nothing else the code does not keep: see SleepStep.)
RevisionsAreSeen ==
  /\ at = "poll" /\ ~MorePages => (Mark # baseline <=> revisions > standing)
  /\ FloorSlept

\* runner.ts:203-205: the countdown agrees with the sleeps still to come, early
\* endings included, until a watcher that gives up cuts a gap short.
CountdownExact == ~disabled => total - elapsed = Owed

\* A gap always ends, whatever Drive does.
GapsEnd == <>(at = "over")
=============================================================================
