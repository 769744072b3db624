----------------------------- MODULE JobStream -----------------------------
(***************************************************************************)
(* How a browser tab learns what its job does: the channel of              *)
(* jobs/events.ts with its replay buffer, the stream route of              *)
(* routes/jobs.ts, and the EventSource of store/useJobStore.ts with        *)
(* AppPage's check of a remembered job.  The job types Ops batches of      *)
(* text; connections drop, the page is reloaded, the process restarts.     *)
(***************************************************************************)
EXTENDS Integers, Sequences, FiniteSets

CONSTANTS
  Ops,           \* batches of text in the job
  ReplayBuffer,  \* REPLAY_BUFFER
  MaxPauses, MaxDrops, MaxReloads, MaxRestarts

ASSUME StreamAssumption ==
  /\ ReplayBuffer \in Nat \ {0}
  /\ {Ops, MaxPauses, MaxDrops, MaxReloads, MaxRestarts} \subseteq Nat

VARIABLES
  work,      \* the runner: status, batches typed, the outcome it has recorded
  jobs,      \* the status in the job's row
  lateWrite, \* an unawaited updateJobStatus that has not landed
  channel,   \* history, the next id, whether it has ended, whether it exists
  stream,    \* the tab's EventSource: where it is, Last-Event-ID, the row read for it
  wire,      \* frames on their way to the tab
  tab,       \* the store: phase, batches in the preview, the click not yet answered
  cuts,      \* drops, reloads and restarts so far, and pauses
  skipped,   \* a replay found events gone from the buffer
  misled     \* the tab was told a status that was not the job's any more

streamvars == <<work, jobs, lateWrite, channel, stream, wire, tab, cuts, skipped, misled>>
server == <<work, jobs, lateWrite, channel>>
browser == <<stream, tab>>
marks == <<skipped, misled>>

Terminal == {"done", "failed"}
None == "none"
NoChannel == [exists |-> FALSE, history |-> <<>>, nextId |-> 1, ended |-> FALSE]

StreamInit ==
  /\ work = [status |-> "running", typed |-> 0, outcome |-> None]
  /\ jobs = "running" /\ lateWrite = None
  /\ channel = NoChannel
  /\ stream = [at |-> "new", lastId |-> 0, row |-> None] /\ wire = <<>>
  /\ tab = [phase |-> "running", preview |-> <<>>, request |-> None]
  /\ cuts = [pause |-> 0, drop |-> 0, reload |-> 0, restart |-> 0]
  /\ skipped = FALSE /\ misled = FALSE

Count(what) == cuts' = [cuts EXCEPT ![what] = @ + 1]

-----------------------------------------------------------------------------
(* The server *)

Kept(history) == SubSeq(history, 1 + IF Len(history) > ReplayBuffer THEN Len(history) - ReplayBuffer ELSE 0, Len(history))

\* JobChannel.emit, and what is on the wire for it to reach
Emit(event, frames) ==
  LET stored == [event EXCEPT !.id = channel.nextId]
  IN /\ channel' = [exists |-> TRUE, nextId |-> channel.nextId + 1,
                    history |-> Kept(Append(channel.history, stored)),
                    ended |-> channel.ended \/ event.type = "outcome"]
     /\ wire' = IF stream'.at = "open" THEN Append(frames, stored) ELSE frames

Event(type, status, batch) == [id |-> 0, type |-> type, status |-> status, batch |-> batch]
Going == work.status \notin Terminal /\ work.outcome = None

TypeBatch ==
  /\ Going /\ work.typed < Ops
  /\ work' = [work EXCEPT !.typed = @ + 1]
  /\ UNCHANGED <<jobs, lateWrite, browser, cuts, marks>>
  /\ Emit(Event("progress", work.status, work'.typed), wire)

\* JobRunner.pause and resume: the row is written by nobody who waits
SetStatus(status) ==
  /\ work' = [work EXCEPT !.status = status]
  /\ lateWrite' = status
  /\ UNCHANGED <<jobs, stream>>
  /\ Emit(Event("status", status, 0), wire)

RowCatchesUp ==
  /\ lateWrite # None
  /\ jobs' = lateWrite /\ lateWrite' = None
  /\ UNCHANGED <<work, channel, browser, wire, cuts, marks>>

\* Another tab's clicks, or one this tab forgot by being reloaded
Pause ==
  /\ Going /\ work.status = "running" /\ cuts.pause < MaxPauses /\ Count("pause")
  /\ SetStatus("paused")
  /\ UNCHANGED <<tab, marks>>

Resume ==
  /\ Going /\ work.status = "paused"
  /\ SetStatus("running")
  /\ UNCHANGED <<tab, cuts, marks>>

\* finishJob, then the event
FinishJob ==
  /\ Going /\ work.status = "running"
  /\ \E outcome \in Terminal :
       work' = [work EXCEPT !.outcome = outcome] /\ jobs' = outcome
  /\ UNCHANGED <<lateWrite, channel, browser, wire, cuts, marks>>

AnnounceOutcome ==
  /\ work.status \notin Terminal /\ work.outcome # None
  /\ work' = [work EXCEPT !.status = work.outcome]
  /\ UNCHANGED <<jobs, lateWrite, browser, cuts, marks>>
  /\ Emit(Event("outcome", work.outcome, 0), wire)

\* CHANNEL_TTL_MS after the end, far longer than a request takes
ReapChannel ==
  /\ channel.ended /\ stream.at # "found" /\ channel' = NoChannel
  /\ UNCHANGED <<work, jobs, lateWrite, browser, wire, cuts, marks>>

Lost == [stream EXCEPT !.at = IF @ \in {"none", "new"} THEN @ ELSE "dropped", !.row = None]

\* The process dies and the next one fails what it finds unfinished.
RestartServer ==
  /\ cuts.restart < MaxRestarts /\ Count("restart")
  /\ jobs' = IF jobs \in Terminal THEN jobs ELSE "failed"
  /\ work' = [work EXCEPT !.status = jobs', !.outcome = jobs']
  /\ lateWrite' = None /\ channel' = NoChannel
  /\ stream' = Lost /\ wire' = <<>>
  /\ UNCHANGED <<tab, marks>>

-----------------------------------------------------------------------------
(* GET /jobs/:id/stream *)

FindRow ==
  /\ stream.at = "asking"
  /\ stream' = [stream EXCEPT !.at = "found", !.row = jobs]
  /\ UNCHANGED <<server, wire, tab, cuts, marks>>

\* Mutant: the last event seen is sent again.
MissedAndLast ==
  LET seen == {i \in DOMAIN channel.history : channel.history[i].id < stream.lastId}
  IN SubSeq(channel.history, Cardinality(seen) + 1, Len(channel.history))

\* history.filter: the ids rise, so what it keeps is what follows the events seen.
Missed ==
  LET seen == {i \in DOMAIN channel.history : channel.history[i].id <= stream.lastId}
  IN SubSeq(channel.history, Cardinality(seen) + 1, Len(channel.history))

\* No Last-Event-ID, no replay.
Replayed == IF stream.lastId = 0 THEN <<>> ELSE Missed

Snapshot == IF stream.row \in Terminal THEN <<>> ELSE <<Event("snapshot", stream.row, 0)>>

\* A job that finished before this process booted, or long ago
OutcomeOwed == ~channel.exists /\ stream.row \in Terminal

\* The tab's stream can never tell it better than what the row said.
Misleads ==
  \/ stream.row # work.status
  \/ channel.ended /\ Replayed = <<>>

Subscribe ==
  /\ stream.at = "found"
  /\ stream' = [stream EXCEPT !.at = "open", !.row = None]
  /\ misled' = Misleads
  /\ skipped' = (skipped \/ (stream.lastId # 0 /\ Replayed # <<>> /\ Head(Replayed).id > stream.lastId + 1))
  /\ IF OutcomeOwed
       THEN Emit(Event("outcome", stream.row, 0), Replayed)
       ELSE /\ wire' = Replayed \o Snapshot
            /\ channel' = [channel EXCEPT !.exists = TRUE]
  /\ UNCHANGED <<work, jobs, lateWrite, tab, cuts>>

-----------------------------------------------------------------------------
(* The tab *)

Closed == [at |-> "none", lastId |-> 0, row |-> None]

\* attachStream, once per job started or found unfinished: a new EventSource
Attach ==
  /\ stream.at = "new"
  /\ stream' = [Closed EXCEPT !.at = "asking"]
  /\ UNCHANGED <<server, wire, tab, cuts, marks>>

\* Mutant: the guard of the progress handler, in the status handler too.
PhaseSticky(event) ==
  IF tab.phase = "paused" /\ event.status = "running" THEN tab.phase ELSE event.status

\* The handlers' phase: a progress event does not undo a pause of this tab.
PhaseAfter(event) ==
  IF event.type = "progress" /\ tab.phase = "paused" /\ event.status = "running"
    THEN tab.phase ELSE event.status

Deliver ==
  /\ stream.at = "open" /\ wire # <<>>
  /\ LET event == Head(wire)
         id == IF event.id = 0 THEN stream.lastId ELSE event.id
     IN /\ tab' = [tab EXCEPT !.phase = PhaseAfter(event),
                     !.preview = IF event.type = "progress" THEN Append(@, event.batch) ELSE @]
        /\ IF event.type = "outcome"
             THEN stream' = Closed /\ wire' = <<>>
             ELSE stream' = [stream EXCEPT !.lastId = id] /\ wire' = Tail(wire)
        /\ misled' = (misled /\ (PhaseAfter(event) # event.status
                                   \/ \E i \in DOMAIN wire : wire[i].type = "snapshot"))
  /\ UNCHANGED <<server, cuts, skipped>>

DropConnection ==
  /\ stream.at \in {"asking", "found", "open"} /\ cuts.drop < MaxDrops /\ Count("drop")
  /\ stream' = Lost /\ wire' = <<>>
  /\ UNCHANGED <<server, tab, marks>>

\* EventSource reconnects on its own, with Last-Event-ID.
Reconnect ==
  /\ stream.at = "dropped"
  /\ stream' = [stream EXCEPT !.at = "asking"]
  /\ UNCHANGED <<server, wire, tab, cuts, marks>>

\* The preview is not persisted; the job id is, unless the job was known to be over.
ReloadPage ==
  /\ tab.phase \notin Terminal \cup {"loading"} /\ cuts.reload < MaxReloads /\ Count("reload")
  /\ tab' = [phase |-> "loading", preview |-> <<>>, request |-> None]
  /\ stream' = Closed /\ wire' = <<>>
  /\ UNCHANGED <<server, marks>>

\* AppPage, on mount: how the job stands, or how it ended
CheckJob ==
  /\ tab.phase = "loading"
  /\ tab' = [tab EXCEPT !.phase = jobs] /\ misled' = (jobs # work.status)
  /\ stream' = IF jobs \in Terminal THEN Closed ELSE [Closed EXCEPT !.at = "new"]
  /\ UNCHANGED <<server, wire, cuts, skipped>>

\* pauseJob: shown at once,
ClickPause ==
  /\ tab.phase = "running" /\ tab.request = None /\ cuts.pause < MaxPauses /\ Count("pause")
  /\ tab' = [tab EXCEPT !.phase = "paused", !.request = "pause"]
  /\ UNCHANGED <<server, stream, wire, marks>>

\* and resumeJob, the other way;
ClickResume ==
  /\ tab.phase = "paused" /\ tab.request = None
  /\ tab' = [tab EXCEPT !.phase = "running", !.request = "resume"]
  /\ UNCHANGED <<server, stream, wire, cuts, marks>>

\* done by the runner, if it is not so already,
PauseDone ==
  /\ tab.request = "pause" /\ Going
  /\ tab' = [tab EXCEPT !.request = None]
  /\ IF work.status = "running"
       THEN SetStatus("paused")
       ELSE UNCHANGED <<server, stream, wire>>
  /\ UNCHANGED <<cuts, marks>>

ResumeDone ==
  /\ tab.request = "resume" /\ Going
  /\ tab' = [tab EXCEPT !.request = None]
  /\ IF work.status = "paused"
       THEN SetStatus("running")
       ELSE UNCHANGED <<server, stream, wire>>
  /\ UNCHANGED <<cuts, marks>>

\* or refused, when the job is over, and taken back.
PauseRefused ==
  /\ tab.request = "pause" /\ ~Going
  /\ tab' = [tab EXCEPT !.request = None, !.phase = "running"]
  /\ UNCHANGED <<server, stream, wire, cuts, marks>>

ResumeRefused ==
  /\ tab.request = "resume" /\ ~Going
  /\ tab' = [tab EXCEPT !.request = None, !.phase = "paused"]
  /\ UNCHANGED <<server, stream, wire, cuts, marks>>

-----------------------------------------------------------------------------
ServerStep ==
  TypeBatch \/ RowCatchesUp \/ FinishJob \/ AnnounceOutcome \/ FindRow \/ Subscribe
TabStep == Attach \/ Deliver \/ Reconnect \/ CheckJob \/ PauseDone \/ PauseRefused
             \/ ResumeDone \/ ResumeRefused

StreamNext ==
  \/ ServerStep \/ TabStep
  \/ Pause \/ Resume \/ ReapChannel \/ RestartServer
  \/ DropConnection \/ ReloadPage \/ ClickPause \/ ClickResume

StreamSpec == StreamInit /\ [][StreamNext]_streamvars

-----------------------------------------------------------------------------
Statuses == {"running", "paused"} \cup Terminal

StreamTypeOK ==
  /\ work.status \in Statuses /\ work.typed \in 0..Ops
  /\ jobs \in Statuses /\ lateWrite \in {None, "running", "paused"}
  /\ Len(channel.history) <= ReplayBuffer
  /\ stream.at \in {"none", "new", "asking", "found", "open", "dropped"}
  /\ tab.phase \in Statuses \cup {"loading"} /\ tab.request \in {None, "pause", "resume"}

\* events.ts:45, 92-96 and routes/jobs.ts:250: whatever drops, restarts and
\* reconnects, no batch is applied to the preview twice or out of order, and one
\* is missing only when the buffer had already let it go.
PreviewHasNoHoles ==
  \A i \in 1..(Len(tab.preview) - 1) :
    /\ tab.preview[i] < tab.preview[i + 1]
    /\ tab.preview[i + 1] = tab.preview[i] + 1 \/ skipped

Settled == stream.at = "open" /\ wire = <<>> /\ tab.request = None

\* useJobStore.ts:569-664: a tab that has been told everything shows the status
\* the job has, through optimistic pauses, replays and restarts, unless the row
\* the stream was opened on was out of date.
TabAgrees ==
  Settled /\ ~misled =>
    tab.phase = work.status \/ (work.outcome # None /\ work.status \notin Terminal)

-----------------------------------------------------------------------------
(* What the repository says of the program and the program does not do. *)

\* events.ts:48: a finished job's channel stays around "so late subscribers still
\* see the outcome."
LateSubscribersSeeOutcome ==
  stream.at = "open" /\ wire = <<>> /\ channel.ended => tab.phase \in Terminal
=============================================================================
