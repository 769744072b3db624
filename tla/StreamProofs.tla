----------------------------- MODULE StreamProofs -----------------------------
(***************************************************************************)
(* What a tab is told of its job is so, for any number of batches, any     *)
(* replay buffer and any drops, reloads and restarts.                      *)
(*                                                                         *)
(* The preview: while the channel is the one the job typed into, there is  *)
(* a count of the batches typed up to each event it has sent (Counted).    *)
(* Every frame of a batch, in the history or on the wire, is the one at    *)
(* which the count steps, the history holds the steps since its first      *)
(* event, and the preview ends at the count of the last event the tab has  *)
(* acknowledged, unless some were skipped.  Once a channel is gone the job *)
(* is over and no batch is left to send (Over).                            *)
(*                                                                         *)
(* The status: what the frames on the wire and in the history say last is  *)
(* how the job stands (Says), the end of a job that is over is still on    *)
(* the wire or the tab was misled (EndOnWire), and with batches only to    *)
(* come the tab shows the job's status, but for a click of its own that is *)
(* not answered (PhaseFollows).                                            *)
(***************************************************************************)
EXTENDS JobStream, TLAPS, FiniteSetTheorems, SequenceTheorems

-----------------------------------------------------------------------------
\* ---- What the tab is told

Frame == [id : Nat, type : {"progress", "status", "outcome", "snapshot"}, status : Statuses, batch : Nat]

StreamTyped ==
  /\ work \in [status : Statuses, typed : 0..Ops, outcome : Terminal \cup {None}]
  /\ jobs \in Statuses /\ lateWrite \in {None, "running", "paused"}
  /\ channel \in [exists : BOOLEAN, history : Seq(Frame), nextId : Nat \ {0}, ended : BOOLEAN]
  /\ stream \in [at : {"none", "new", "asking", "found", "open", "dropped"}, lastId : Nat,
                 row : Statuses \cup {None}]
  /\ stream.at = "found" => stream.row \in Statuses
  /\ wire \in Seq(Frame)
  /\ tab \in [phase : Statuses \cup {"loading"}, preview : Seq(Nat), request : {None, "pause", "resume"}]
  /\ skipped \in BOOLEAN /\ misled \in BOOLEAN

\* The batches among the frames s.
Typing(s) == {i \in DOMAIN s : s[i].type = "progress"}
Batches(s) == {s[i].batch : i \in Typing(s)}

Sent == channel.nextId - 1
LastShown == tab.preview[Len(tab.preview)]

\* The ids of the history are the last ones given.
Numbered ==
  /\ Len(channel.history) <= Sent /\ Len(channel.history) <= ReplayBuffer
  /\ \A i \in DOMAIN channel.history : channel.history[i].id = Sent - Len(channel.history) + i
  /\ Sent > 0 => channel.history # <<>>
  /\ ~channel.exists => channel = NoChannel

\* Nothing ends before the outcome is recorded.
EndsLast ==
  /\ work.status \in Terminal \/ channel.ended \/ jobs \in Terminal \/ stream.row \in Terminal
       => work.outcome # None

\* The frames on the wire are in order, lead to the last batch, and join the preview.
WireSteady ==
  /\ stream.at # "open" => wire = <<>>
  /\ \A i, j \in Typing(wire) : i < j => wire[i].batch < wire[j].batch
  /\ \A b \in Batches(wire) : b <= work.typed /\ (b < work.typed => b + 1 \in Batches(wire))
  /\ tab.preview # <<>> =>
       /\ \A b \in Batches(wire) : LastShown < b
       /\ ~skipped /\ Batches(wire) # {} => LastShown + 1 \in Batches(wire)

\* A batch on the wire has the id of an event.
BatchesNumbered == \A i \in Typing(wire) : wire[i].id # 0

\* A preview is begun on a stream that is new.
PreviewFresh ==
  /\ stream.at = "new" => stream.lastId = 0
  /\ stream.at # "none" /\ stream.lastId = 0 => tab.preview = <<>>
  /\ tab.phase = "loading" => stream.at = "none" /\ tab.preview = <<>>

\* The job is over, and no batch of it is left in the channel.
Over == work.outcome # None /\ Batches(channel.history) = {}

\* How many batches there were up to each event the channel has sent
IsCount(count) ==
  /\ count \in [0..Sent -> 0..work.typed]
  /\ \A k, m \in 0..Sent : k <= m => count[k] <= count[m]
  /\ count[Sent] = work.typed

Counts(count, s) ==
  \A i \in Typing(s) : /\ s[i].id \in 1..Sent
                       /\ s[i].batch = count[s[i].id] /\ s[i].batch = count[s[i].id - 1] + 1

\* The channel is the one the job typed into, and the history, the wire and the
\* preview agree with that count.
Counted(count) ==
  /\ IsCount(count)
  /\ Counts(count, channel.history) /\ Counts(count, wire)
  /\ \A k \in (Sent - Len(channel.history))..Sent :
       count[k] < work.typed => count[k] + 1 \in Batches(channel.history)
  /\ stream.lastId <= Sent
  /\ \A i \in DOMAIN wire : wire[i].id # 0 =>
       /\ wire[i].id > stream.lastId /\ wire[i].id <= Sent
       /\ \A j \in DOMAIN wire : i < j /\ wire[j].id # 0 => wire[i].id < wire[j].id
  /\ tab.preview # <<>> /\ stream.at # "none" =>
       /\ LastShown <= count[stream.lastId]
       /\ ~skipped => LastShown = count[stream.lastId]
       /\ stream.at = "open" /\ ~skipped /\ Batches(wire) = {} => LastShown = work.typed

Current == \E count \in [0..Sent -> 0..work.typed] : Counted(count)

PreviewInv ==
  /\ StreamTyped /\ Numbered /\ EndsLast /\ WireSteady /\ PreviewFresh
  /\ Over \/ Current
  /\ PreviewHasNoHoles

-----------------------------------------------------------------------------
\* Frame i is followed by batches only.
Trails(s, i) == \A j \in DOMAIN s : i < j => s[j].type = "progress"

\* What the frames s say last is that the job is x.
Says(s, x) ==
  \A i \in DOMAIN s : s[i].type \in {"progress", "status"} /\ Trails(s, i) => s[i].status = x

SnapshotTrue ==
  \A i \in DOMAIN wire : wire[i].type = "snapshot" /\ Trails(wire, i) => misled \/ wire[i].status = work.status

AllTyping(s) == \A i \in DOMAIN s : s[i].type = "progress"

Announcing == work.outcome # None /\ work.status \notin Terminal

HasOutcome(s) == \E i \in DOMAIN s : s[i].type = "outcome"

\* The end of the job is in the channel that told it; and a channel that never will
\* was opened because the row had gone back.
EndInHistory ==
  /\ channel.ended => channel.history # <<>> /\ channel.history[Len(channel.history)].type = "outcome"
  /\ work.status \in Terminal /\ ~channel.ended =>
       /\ channel.history = <<>>
       /\ channel.exists => stream.row \notin Terminal
       /\ channel.exists \/ (stream.at = "found" /\ stream.row \notin Terminal) => jobs \notin Terminal

EndOnWire ==
  stream.at = "open" /\ work.status \in Terminal =>
    HasOutcome(wire) \/ (misled /\ \A i \in DOMAIN wire : wire[i].type = "snapshot")

PhaseFollows ==
  stream.at = "open" /\ ~misled /\ AllTyping(wire) =>
    \/ tab.phase = work.status
    \/ tab.request = "pause" /\ tab.phase = "paused" /\ work.status = "running"
    \/ tab.request = "resume" /\ tab.phase = "running" /\ work.status = "paused"
    \/ Announcing

Kinds == \A i \in DOMAIN channel.history : channel.history[i].type # "snapshot"

StatusInv ==
  /\ Says(channel.history, work.status) /\ Says(wire, work.status) /\ SnapshotTrue
  /\ EndInHistory /\ EndOnWire /\ PhaseFollows /\ Kinds


-----------------------------------------------------------------------------
\* ---- Sequences of frames

LEMMA FrameAt ==
  ASSUME NEW s \in Seq(Frame)
  PROVE  /\ Len(s) \in Nat /\ DOMAIN s = 1..Len(s)
         /\ \A i \in 1..Len(s) : s[i] \in Frame
         /\ Typing(s) \subseteq 1..Len(s)
         /\ \A i \in Typing(s) : s[i].id \in Nat /\ s[i].batch \in Nat
         /\ Batches(s) \subseteq Nat
<1>1. Len(s) \in Nat /\ DOMAIN s = 1..Len(s) /\ \A i \in 1..Len(s) : s[i] \in Frame
  BY LenProperties, ElementOfSeq
<1>2. \A i \in Typing(s) : i \in 1..Len(s) /\ s[i].id \in Nat /\ s[i].batch \in Nat
  BY <1>1 DEF Typing, Frame
<1> QED
  BY <1>1, <1>2 DEF Batches

LEMMA FrameAppended ==
  ASSUME NEW s \in Seq(Frame), NEW e \in Frame, NEW t, t = Append(s, e)
  PROVE  /\ t \in Seq(Frame) /\ Len(t) = Len(s) + 1
         /\ \A i \in 1..Len(s) : t[i] = s[i]
         /\ t[Len(s) + 1] = e
  BY AppendProperties

LEMMA BatchesAppended ==
  ASSUME NEW s \in Seq(Frame), NEW e \in Frame, NEW t, t = Append(s, e)
  PROVE  /\ Typing(t) = Typing(s) \cup (IF e.type = "progress" THEN {Len(s) + 1} ELSE {})
         /\ Batches(t) = Batches(s) \cup (IF e.type = "progress" THEN {e.batch} ELSE {})
<1>1. /\ t \in Seq(Frame) /\ Len(t) = Len(s) + 1 /\ t[Len(s) + 1] = e
      /\ \A i \in 1..Len(s) : t[i] = s[i]
  BY FrameAppended
<1>2. Len(s) \in Nat /\ DOMAIN s = 1..Len(s) /\ DOMAIN t = 1..Len(t)
  BY <1>1, FrameAt
<1>3. Typing(t) = Typing(s) \cup (IF e.type = "progress" THEN {Len(s) + 1} ELSE {})
  <2>1. DOMAIN t = DOMAIN s \cup {Len(s) + 1} /\ Len(s) + 1 \notin DOMAIN s
    BY <1>1, <1>2
  <2> QED
    BY <1>1, <1>2, <2>1 DEF Typing
<1>4. \A i \in Typing(s) : i \in 1..Len(s) /\ t[i] = s[i]
  BY <1>1, <1>2 DEF Typing
<1>5. Batches(t) = Batches(s) \cup (IF e.type = "progress" THEN {e.batch} ELSE {})
  <2>1. CASE e.type = "progress"
    BY <1>1, <1>3, <1>4, <2>1 DEF Batches
  <2>2. CASE e.type # "progress"
    BY <1>3, <1>4, <2>2 DEF Batches
  <2> QED
    BY <2>1, <2>2
<1> QED
  BY <1>3, <1>5

LEMMA TailFrames ==
  ASSUME NEW s \in Seq(Frame), s # <<>>, NEW t, t = Tail(s)
  PROVE  /\ t \in Seq(Frame) /\ Len(t) = Len(s) - 1 /\ Len(s) \in Nat \ {0}
         /\ \A i \in 1..(Len(s) - 1) : t[i] = s[i + 1]
         /\ Head(s) = s[1] /\ s[1] \in Frame
         /\ Typing(t) = {i \in 1..(Len(s) - 1) : i + 1 \in Typing(s)}
         /\ Batches(s) = Batches(t) \cup (IF s[1].type = "progress" THEN {s[1].batch} ELSE {})
<1>1. Len(s) \in Nat \ {0} /\ DOMAIN s = 1..Len(s) /\ \A i \in 1..Len(s) : s[i] \in Frame
  BY FrameAt, EmptySeq
<1>2. /\ t \in Seq(Frame) /\ Len(t) = Len(s) - 1 /\ Head(s) = s[1]
      /\ \A i \in 1..(Len(s) - 1) : t[i] = s[i + 1]
  BY <1>1, HeadTailProperties
<1>3. DOMAIN t = 1..(Len(s) - 1)
  BY <1>2, FrameAt
<1>4. Typing(t) = {i \in 1..(Len(s) - 1) : i + 1 \in Typing(s)}
  <2>1. \A i \in 1..(Len(s) - 1) : i + 1 \in 1..Len(s)
    BY <1>1
  <2> QED
    BY <1>1, <1>2, <1>3, <2>1 DEF Typing
<1>5. Batches(s) = Batches(t) \cup (IF s[1].type = "progress" THEN {s[1].batch} ELSE {})
  <2>1. \A j \in 1..Len(s) : j = 1 \/ (j - 1 \in 1..(Len(s) - 1) /\ (j - 1) + 1 = j)
    BY <1>1
  <2>2. \A i \in 1..(Len(s) - 1) : i + 1 \in 1..Len(s)
    BY <1>1
  <2>3. ASSUME NEW b \in Batches(s)
        PROVE  b \in Batches(t) \/ (s[1].type = "progress" /\ b = s[1].batch)
    <3>1. PICK j \in Typing(s) : b = s[j].batch
      BY DEF Batches
    <3>2. j \in 1..Len(s) /\ s[j].type = "progress"
      BY <1>1 DEF Typing
    <3>3. CASE j # 1
      <4>1. j - 1 \in Typing(t) /\ t[j - 1] = s[j]
        BY <1>2, <1>4, <2>1, <3>2, <3>3
      <4> QED
        BY <3>1, <4>1 DEF Batches
    <3> QED
      BY <3>1, <3>2, <3>3
  <2>4. \A b \in Batches(t) : b \in Batches(s)
    BY <1>2, <1>4 DEF Batches
  <2>5. s[1].type = "progress" => s[1].batch \in Batches(s)
    BY <1>1 DEF Batches, Typing
  <2> QED
    BY <2>3, <2>4, <2>5
<1> QED
  BY <1>1, <1>2, <1>4, <1>5

\* The buffer keeps the end of what it is given, and never less than the last event.
LEMMA KeptIsEnd ==
  ASSUME NEW h \in Seq(Frame), h # <<>>
  PROVE  \E d \in 0..(Len(h) - 1) :
           /\ Kept(h) \in Seq(Frame) /\ Len(Kept(h)) = Len(h) - d /\ Len(Kept(h)) <= ReplayBuffer
           /\ \A i \in 1..(Len(h) - d) : Kept(h)[i] = h[i + d]
<1> DEFINE d == IF Len(h) > ReplayBuffer THEN Len(h) - ReplayBuffer ELSE 0
<1>1. ReplayBuffer \in Nat \ {0}
  BY StreamAssumption
<1>2. Len(h) \in Nat \ {0} /\ \A i \in 1..Len(h) : h[i] \in Frame
  BY FrameAt, EmptySeq
<1>3. d \in 0..(Len(h) - 1) /\ Len(h) - d <= ReplayBuffer
  BY <1>1, <1>2
<1>4. Kept(h) = SubSeq(h, 1 + d, Len(h))
  BY DEF Kept
<1> HIDE DEF d
<1>5. \A i \in (1 + d)..Len(h) : h[i] \in Frame
  BY <1>2, <1>3
<1>6. /\ Kept(h) \in Seq(Frame)
      /\ Len(Kept(h)) = IF 1 + d <= Len(h) THEN Len(h) - (1 + d) + 1 ELSE 0
      /\ \A i \in 1..(Len(h) - (1 + d) + 1) : Kept(h)[i] = h[1 + d + i - 1]
  BY <1>2, <1>3, <1>4, <1>5, SubSeqProperties
<1>7. 1 + d <= Len(h) /\ Len(h) - (1 + d) + 1 = Len(h) - d /\ Len(h) - d \in Nat
  BY <1>2, <1>3
<1>8. \A i \in 1..(Len(h) - d) : 1 + d + i - 1 = i + d
  BY <1>2, <1>3
<1>9. Len(Kept(h)) = Len(h) - d
  BY <1>6, <1>7
<1>10. \A i \in 1..(Len(h) - d) : Kept(h)[i] = h[i + d]
  BY <1>6, <1>7, <1>8
<1> QED
  BY <1>3, <1>6, <1>9, <1>10

-----------------------------------------------------------------------------
\* ---- What the channel sends

Stored(e) == [e EXCEPT !.id = channel.nextId]

\* h is what the buffer holds after the event s: d of the older ones are gone.
Holds(h, d, s) ==
  LET old == channel.history
  IN /\ d \in 0..Len(old) /\ Len(h) = Len(old) + 1 - d
     /\ \A i \in 1..(Len(old) - d) : h[i] = old[i + d]
     /\ h[Len(old) + 1 - d] = s

LEMMA EmitHistory ==
  ASSUME StreamTyped, Numbered, NEW e \in Frame, NEW f, Emit(e, f)
  PROVE  /\ Stored(e) \in Frame /\ Stored(e).id = Sent + 1
         /\ Stored(e).type = e.type /\ Stored(e).batch = e.batch /\ Stored(e).status = e.status
         /\ channel' \in [exists : BOOLEAN, history : Seq(Frame), nextId : Nat \ {0}, ended : BOOLEAN]
         /\ Sent \in Nat /\ Sent' = Sent + 1 /\ channel'.exists
         /\ channel'.ended = (channel.ended \/ e.type = "outcome")
         /\ Numbered'
         /\ channel'.history # <<>>
         /\ \E d \in 0..Len(channel.history) : Holds(channel'.history, d, Stored(e))
<1> DEFINE old == channel.history
           s == Stored(e)
           a == Append(old, s)
           h == Kept(a)
<1>1. /\ channel \in [exists : BOOLEAN, history : Seq(Frame), nextId : Nat \ {0}, ended : BOOLEAN]
      /\ channel.nextId \in Nat \ {0} /\ old \in Seq(Frame)
  BY DEF StreamTyped
<1>2. /\ s \in Frame /\ s.id = Sent + 1
      /\ s.type = e.type /\ s.batch = e.batch /\ s.status = e.status
      /\ Sent \in Nat
  BY <1>1 DEF Stored, Frame, Sent
<1>3. channel' = [exists |-> TRUE, nextId |-> channel.nextId + 1, history |-> h,
                  ended |-> channel.ended \/ e.type = "outcome"]
  BY <1>2 DEF Emit, Stored
<1> HIDE DEF s
<1>4. /\ a \in Seq(Frame) /\ Len(a) = Len(old) + 1 /\ a[Len(old) + 1] = s
      /\ \A i \in 1..Len(old) : a[i] = old[i]
  BY <1>1, <1>2, FrameAppended
<1> HIDE DEF a
<1>5. Len(old) \in Nat
  BY <1>1, LenProperties
<1>6. a # <<>>
  BY <1>4, <1>5, EmptySeq
<1>7. PICK d \in 0..(Len(a) - 1) :
           /\ h \in Seq(Frame) /\ Len(h) = Len(a) - d /\ Len(h) <= ReplayBuffer
           /\ \A i \in 1..(Len(a) - d) : h[i] = a[i + d]
  BY <1>4, <1>6, KeptIsEnd
<1> HIDE DEF h
<1>8. Holds(h, d, s)
  <2>1. d \in 0..Len(old) /\ Len(h) = Len(old) + 1 - d
    BY <1>4, <1>5, <1>7
  <2>2. \A i \in 1..(Len(old) - d) : h[i] = old[i + d]
    <3> TAKE i \in 1..(Len(old) - d)
    <3>1. i \in 1..(Len(a) - d) /\ i + d \in 1..Len(old)
      BY <1>4, <1>5, <2>1
    <3> QED
      BY <1>4, <1>7, <3>1
  <2>3. Len(old) + 1 - d \in 1..(Len(a) - d) /\ (Len(old) + 1 - d) + d = Len(old) + 1
    BY <1>4, <1>5, <2>1
  <2>4. h[Len(old) + 1 - d] = s
    BY <1>4, <1>7, <2>3
  <2> QED
    BY <2>1, <2>2, <2>4 DEF Holds
<1>9. d \in 0..Len(old) /\ Len(h) = Len(old) + 1 - d
  BY <1>8 DEF Holds
<1>10. channel'.history = h /\ Sent' = Sent + 1 /\ channel'.exists
  BY <1>1, <1>3 DEF Sent
<1>11. h # <<>>
  BY <1>5, <1>7, <1>9, EmptySeq
<1>12. Numbered'
  <2>1. Len(h) <= Sent + 1 /\ Len(h) <= ReplayBuffer
    BY <1>2, <1>5, <1>7, <1>9 DEF Numbered
  <2>2. ASSUME NEW i \in 1..Len(h) PROVE h[i].id = Sent + 1 - Len(h) + i
    <3>1. CASE i <= Len(old) - d
      <4>1. i \in 1..(Len(old) - d) /\ i + d \in 1..Len(old)
        BY <1>5, <1>9, <2>2, <3>1
      <4>2. h[i] = old[i + d]
        BY <1>8, <4>1 DEF Holds
      <4>3. i + d \in DOMAIN old
        BY <1>1, <4>1, LenProperties
      <4>4. old[i + d].id = Sent - Len(old) + (i + d)
        BY <4>3 DEF Numbered
      <4> QED
        BY <1>2, <1>5, <1>9, <4>2, <4>4
    <3>2. CASE i = Len(old) + 1 - d
      <4>1. h[i] = s
        BY <1>8, <3>2 DEF Holds
      <4>2. Len(h) = i /\ Len(h) \in Nat
        BY <1>5, <1>9, <3>2
      <4>3. Sent + 1 - Len(h) + i = Sent + 1
        BY <1>2, <4>2
      <4> QED
        BY <1>2, <4>1, <4>3
    <3>3. i <= Len(old) - d \/ i = Len(old) + 1 - d
      BY <1>5, <1>9, <2>2
    <3> QED
      BY <3>1, <3>2, <3>3
  <2>3. DOMAIN h = 1..Len(h)
    BY <1>7, LenProperties
  <2>4. \A i \in DOMAIN h : h[i].id = Sent' - Len(h) + i
    <3>1. Sent' = Sent + 1 /\ Sent \in Nat /\ Len(h) \in Nat
      BY <1>2, <1>5, <1>9, <1>10
    <3> QED
      BY <2>2, <2>3, <3>1
  <2>5. \A i \in DOMAIN channel'.history : channel'.history[i].id = Sent' - Len(channel'.history) + i
    BY <1>10, <2>4, Zenon
  <2> QED
    BY <1>10, <1>11, <2>1, <2>5 DEF Numbered
<1>13. channel' \in [exists : BOOLEAN, history : Seq(Frame), nextId : Nat \ {0}, ended : BOOLEAN]
  BY <1>1, <1>3, <1>7
<1> QED
  BY <1>2, <1>3, <1>8, <1>9, <1>10, <1>11, <1>12, <1>13 DEF s, h, a

\* The frames the buffer held, those it holds, and which of them it let go.
LEMMA HeldFrames ==
  ASSUME StreamTyped, Numbered, NEW h \in Seq(Frame), NEW d \in 0..Len(channel.history),
         NEW s \in Frame, Holds(h, d, s)
  PROVE  /\ \A i \in 1..Len(h) : i = Len(h) \/ (i + d \in 1..Len(channel.history) /\ h[i] = channel.history[i + d])
         /\ h[Len(h)] = s /\ Len(h) \in 1..(Len(channel.history) + 1)
         /\ s.type = "progress" => s.batch \in Batches(h)
         /\ \A b \in Batches(h) : b \in Batches(channel.history) \/ (s.type = "progress" /\ b = s.batch)
         /\ \A j \in Typing(channel.history) :
              channel.history[j].id > Sent + 1 - Len(h) => channel.history[j].batch \in Batches(h)
<1> DEFINE old == channel.history
<1>1. /\ old \in Seq(Frame) /\ Len(old) \in Nat /\ DOMAIN old = 1..Len(old)
      /\ DOMAIN h = 1..Len(h) /\ Len(h) = Len(old) + 1 - d
      /\ \A i \in 1..(Len(old) - d) : h[i] = old[i + d]
      /\ h[Len(old) + 1 - d] = s
  BY FrameAt DEF StreamTyped, Holds
<1>2. \A i \in 1..Len(h) : i = Len(h) \/ (i \in 1..(Len(old) - d) /\ i + d \in 1..Len(old))
  <2>1. Len(old) \in Nat /\ Len(h) = Len(old) + 1 - d
    BY <1>1
  <2> HIDE DEF old
  <2> QED
    BY <2>1
<1>3. Len(h) \in 1..(Len(old) + 1) /\ h[Len(h)] = s
  BY <1>1
<1>4. s.type = "progress" => s.batch \in Batches(h)
  BY <1>1, <1>3 DEF Batches, Typing
<1>5. ASSUME NEW b \in Batches(h) PROVE b \in Batches(old) \/ (s.type = "progress" /\ b = s.batch)
  <2>1. PICK i \in Typing(h) : b = h[i].batch
    BY DEF Batches
  <2>2. i \in 1..Len(h) /\ h[i].type = "progress"
    BY <1>1 DEF Typing
  <2>3. CASE i = Len(h)
    BY <1>3, <2>1, <2>2, <2>3
  <2>4. CASE i \in 1..(Len(old) - d) /\ i + d \in 1..Len(old)
    <3>1. h[i] = old[i + d] /\ i + d \in Typing(old)
      BY <1>1, <2>2, <2>4 DEF Typing
    <3> QED
      BY <2>1, <3>1 DEF Batches
  <2> QED
    BY <1>2, <2>2, <2>3, <2>4
<1>6. ASSUME NEW j \in Typing(old), old[j].id > Sent + 1 - Len(h) PROVE old[j].batch \in Batches(h)
  <2>1. j \in 1..Len(old) /\ old[j].type = "progress" /\ old[j].id = Sent - Len(old) + j
    BY <1>1 DEF Typing, Numbered
  <2>2. Sent \in Nat
    BY DEF StreamTyped, Sent
  <2>3. j - d \in 1..(Len(old) - d) /\ (j - d) + d = j /\ j - d \in 1..Len(h)
    <3>1. Len(old) \in Nat /\ Len(h) = Len(old) + 1 - d /\ Sent - Len(old) + j > Sent + 1 - Len(h)
      BY <1>1, <1>6, <2>1
    <3> HIDE DEF old
    <3>2. d < j
      BY <2>1, <2>2, <3>1
    <3> QED
      BY <2>1, <3>1, <3>2
  <2>4. h[j - d] = old[j] /\ j - d \in Typing(h)
    BY <1>1, <2>1, <2>3 DEF Typing
  <2> QED
    BY <2>4 DEF Batches
<1> QED
  BY <1>1, <1>2, <1>3, <1>4, <1>5, <1>6

\* What a reconnecting tab missed is the end of the history, from the first event
\* it has not seen.
LEMMA MissedIsEnd ==
  ASSUME StreamTyped, Numbered
  PROVE  \E g \in 0..Len(channel.history) :
           /\ Missed \in Seq(Frame) /\ Len(Missed) = Len(channel.history) - g
           /\ \A i \in 1..(Len(channel.history) - g) : Missed[i] = channel.history[i + g]
           /\ \A j \in 1..Len(channel.history) : channel.history[j].id > stream.lastId <=> j > g
<1> DEFINE h == channel.history
           l == stream.lastId
           gone == Sent - Len(h)
           g == IF l <= gone THEN 0 ELSE IF l >= Sent THEN Len(h) ELSE l - gone
           seen == {i \in DOMAIN h : h[i].id <= l}
<1>1. /\ h \in Seq(Frame) /\ Len(h) \in Nat /\ DOMAIN h = 1..Len(h) /\ \A i \in 1..Len(h) : h[i] \in Frame
      /\ Sent \in Nat /\ Len(h) <= Sent /\ l \in Nat
      /\ \A i \in 1..Len(h) : h[i].id = gone + i
  BY FrameAt DEF StreamTyped, Sent, Numbered
<1>2. g \in 0..Len(h) /\ \A i \in 1..Len(h) : gone + i <= l <=> i <= g
  <2>1. Len(h) \in Nat /\ Sent \in Nat /\ Len(h) <= Sent /\ l \in Nat
    BY <1>1
  <2> HIDE DEF h, l
  <2> QED
    BY <2>1
<1>3. seen = 1..g
  <2>1. \A i \in 1..g : i \in 1..Len(h)
    BY <1>1, <1>2
  <2> HIDE DEF g, gone, h, l
  <2> QED
    BY <1>1, <1>2, <2>1
<1>4. Cardinality(seen) = g
  <2>1. 1 \in Int /\ g \in Int /\ g \in Nat
    BY <1>1, <1>2
  <2> HIDE DEF g
  <2>2. Cardinality(1..g) = IF 1 > g THEN 0 ELSE g - 1 + 1
    BY <2>1, FS_Interval
  <2>3. Cardinality(1..g) = g
    BY <2>1, <2>2
  <2> QED
    BY <1>3, <2>3
<1>5. Missed = SubSeq(h, g + 1, Len(h))
  BY <1>4 DEF Missed
<1> HIDE DEF g, h, l, seen
<1>6. \A i \in (g + 1)..Len(h) : h[i] \in Frame
  BY <1>1, <1>2
<1>7. /\ Missed \in Seq(Frame)
      /\ Len(Missed) = IF g + 1 <= Len(h) THEN Len(h) - (g + 1) + 1 ELSE 0
      /\ \A i \in 1..(Len(h) - (g + 1) + 1) : Missed[i] = h[g + 1 + i - 1]
  BY <1>1, <1>2, <1>5, <1>6, SubSeqProperties
<1>8. Len(h) - (g + 1) + 1 = Len(h) - g /\ Len(Missed) = Len(h) - g
  <2>1. Len(h) \in Nat /\ g \in Nat /\ g <= Len(h)
    BY <1>1, <1>2
  <2>2. Len(Missed) = IF g + 1 <= Len(h) THEN Len(h) - (g + 1) + 1 ELSE 0
    BY <1>7
  <2> QED
    BY <2>1, <2>2
<1>9. \A i \in 1..(Len(h) - g) : Missed[i] = h[i + g]
  <2>1. \A i \in 1..(Len(h) - g) : g + 1 + i - 1 = i + g
    BY <1>1, <1>2
  <2> QED
    BY <1>7, <1>8, <2>1
<1>10. \A j \in 1..Len(h) : h[j].id > l <=> j > g
  <2>1. \A j \in 1..Len(h) : h[j].id \in Nat /\ (h[j].id <= l <=> j <= g)
    BY <1>1, <1>2 DEF Frame
  <2> QED
    BY <1>1, <1>2, <2>1
<1> QED
  BY <1>2, <1>7, <1>8, <1>9, <1>10 DEF h, l

-----------------------------------------------------------------------------
\* ---- An event told to whoever listens keeps the preview's invariant

\* The job goes on typing by the batch that is told, or not at all.
TypesBy(e) ==
  \/ e.type = "progress" /\ e.batch = work.typed + 1 /\ work'.typed = work.typed + 1
  \/ e.type # "progress" /\ work'.typed = work.typed

LEMMA WireTold ==
  ASSUME PreviewInv, NEW e \in Frame, Emit(e, wire), TypesBy(e),
         stream' = stream, tab'.preview = tab.preview, skipped' = skipped,
         e.type = "progress" /\ stream.at = "open" /\ tab.preview # <<>> =>
           /\ LastShown <= work.typed
           /\ ~skipped /\ Batches(wire) = {} => LastShown = work.typed
  PROVE  WireSteady' /\ wire' \in Seq(Frame)
<1>1. /\ StreamTyped /\ Numbered /\ WireSteady /\ wire \in Seq(Frame)
      /\ work.typed \in Nat /\ tab.preview \in Seq(Nat)
  BY StreamAssumption DEF PreviewInv, StreamTyped
<1>2. /\ Stored(e) \in Frame /\ Stored(e).type = e.type /\ Stored(e).batch = e.batch
  BY <1>1, EmitHistory
<1>3. LastShown' = LastShown
  BY DEF LastShown
<1>4. wire' = IF stream.at = "open" THEN Append(wire, Stored(e)) ELSE wire
  BY DEF Emit, Stored
<1>5. CASE stream.at # "open"
  BY <1>1, <1>3, <1>4, <1>5 DEF WireSteady, Batches, Typing
<1>6. CASE stream.at = "open"
  <2> DEFINE s == Stored(e)
  <2>1. wire' = Append(wire, s)
    BY <1>4, <1>6
  <2>2. s \in Frame /\ s.type = e.type /\ s.batch = e.batch
    BY <1>2
  <2> HIDE DEF s
  <2>3. /\ wire' \in Seq(Frame) /\ Len(wire') = Len(wire) + 1
        /\ \A i \in 1..Len(wire) : wire'[i] = wire[i]
        /\ wire'[Len(wire) + 1] = s
    BY <1>1, <2>1, <2>2, FrameAppended
  <2>4. /\ Typing(wire') = Typing(wire) \cup (IF s.type = "progress" THEN {Len(wire) + 1} ELSE {})
        /\ Batches(wire') = Batches(wire) \cup (IF s.type = "progress" THEN {s.batch} ELSE {})
    BY <1>1, <2>1, <2>2, BatchesAppended
  <2>5. /\ Len(wire) \in Nat /\ Typing(wire) \subseteq 1..Len(wire) /\ Batches(wire) \subseteq Nat
        /\ \A i \in Typing(wire) : wire[i].batch \in Batches(wire)
    BY <1>1, FrameAt DEF Batches
  <2>6. /\ \A i, j \in Typing(wire) : i < j => wire[i].batch < wire[j].batch
        /\ \A b \in Batches(wire) : b <= work.typed /\ (b < work.typed => b + 1 \in Batches(wire))
        /\ tab.preview # <<>> =>
             /\ \A b \in Batches(wire) : LastShown < b
             /\ ~skipped /\ Batches(wire) # {} => LastShown + 1 \in Batches(wire)
    BY <1>1 DEF WireSteady
  <2>7. CASE e.type # "progress"
    <3>1. Typing(wire') = Typing(wire) /\ Batches(wire') = Batches(wire) /\ work'.typed = work.typed
      BY <2>2, <2>4, <2>7 DEF TypesBy
    <3>2. \A i \in Typing(wire) : wire'[i] = wire[i]
      BY <2>3, <2>5
    <3> QED
      BY <1>3, <1>6, <2>3, <2>6, <3>1, <3>2 DEF WireSteady
  <2>8. CASE e.type = "progress"
    <3>1. /\ Typing(wire') = Typing(wire) \cup {Len(wire) + 1}
          /\ Batches(wire') = Batches(wire) \cup {work.typed + 1} /\ work'.typed = work.typed + 1
          /\ wire'[Len(wire) + 1].batch = work.typed + 1
      BY <2>2, <2>3, <2>4, <2>8 DEF TypesBy
    <3>2. \A i, j \in Typing(wire') : i < j => wire'[i].batch < wire'[j].batch
      <4> SUFFICES ASSUME NEW i \in Typing(wire'), NEW j \in Typing(wire'), i < j
                   PROVE  wire'[i].batch < wire'[j].batch
        OBVIOUS
      <4>1. i \in Typing(wire) /\ i \in 1..Len(wire) /\ wire'[i] = wire[i]
        BY <2>3, <2>5, <3>1
      <4>2. CASE j = Len(wire) + 1
        <5>1. wire[i].batch \in Nat /\ wire[i].batch <= work.typed
          BY <2>5, <2>6, <4>1
        <5> QED
          BY <1>1, <3>1, <4>1, <4>2, <5>1
      <4>3. CASE j \in Typing(wire)
        BY <2>3, <2>5, <2>6, <4>1, <4>3
      <4> QED
        BY <3>1, <4>2, <4>3
    <3>3. \A b \in Batches(wire') : b <= work'.typed /\ (b < work'.typed => b + 1 \in Batches(wire'))
      <4> SUFFICES ASSUME NEW b \in Batches(wire')
                   PROVE  b <= work'.typed /\ (b < work'.typed => b + 1 \in Batches(wire'))
        OBVIOUS
      <4>1. CASE b = work.typed + 1
        BY <1>1, <3>1, <4>1
      <4>2. CASE b \in Batches(wire) /\ b = work.typed
        BY <1>1, <3>1, <4>2
      <4>3. CASE b \in Batches(wire) /\ b # work.typed
        <5>1. b \in Nat /\ b <= work.typed /\ b < work.typed /\ b + 1 \in Batches(wire)
          BY <1>1, <2>5, <2>6, <4>3
        <5> QED
          BY <1>1, <3>1, <5>1
      <4> QED
        BY <3>1, <4>1, <4>2, <4>3
    <3>4. ASSUME tab.preview # <<>>
          PROVE  /\ \A b \in Batches(wire') : LastShown < b
                 /\ ~skipped => LastShown + 1 \in Batches(wire')
      <4>1. LastShown \in Nat
        BY <1>1, <3>4, EmptySeq, LenProperties, ElementOfSeq DEF LastShown
      <4>2. LastShown <= work.typed /\ (~skipped /\ Batches(wire) = {} => LastShown = work.typed)
        BY <1>6, <2>8, <3>4
      <4> QED
        BY <1>1, <2>6, <3>1, <3>4, <4>1, <4>2
    <3> QED
      BY <1>3, <1>6, <2>3, <3>2, <3>3, <3>4 DEF WireSteady
  <2> QED
    BY <2>7, <2>8
<1> QED
  BY <1>5, <1>6

\* The count of batches goes on with the event.
LEMMA CountTold ==
  ASSUME PreviewInv, NEW e \in Frame, Emit(e, wire), TypesBy(e),
         stream' = stream, tab'.preview = tab.preview, skipped' = skipped,
         Current, work'.typed \in Nat
  PROVE  Current'
<1>1. /\ StreamTyped /\ Numbered /\ WireSteady /\ wire \in Seq(Frame) /\ channel.history \in Seq(Frame)
      /\ work.typed \in Nat /\ Sent \in Nat
  BY StreamAssumption DEF PreviewInv, StreamTyped, Sent
<1>2. PICK count \in [0..Sent -> 0..work.typed] : Counted(count)
  BY DEF Current
<1> DEFINE old == channel.history
<1>0. PICK s, h, now : /\ s = Stored(e) /\ h = channel'.history
                       /\ now = [k \in 0..(Sent + 1) |-> IF k = Sent + 1 THEN work'.typed ELSE count[k]]
  OBVIOUS
<1>3. /\ s \in Frame /\ s.id = Sent + 1 /\ s.type = e.type /\ s.batch = e.batch
      /\ h \in Seq(Frame) /\ Sent' = Sent + 1 /\ Numbered'
      /\ \E d \in 0..Len(old) : Holds(h, d, s)
  BY <1>0, <1>1, EmitHistory
<1>4. wire' = IF stream.at = "open" THEN Append(wire, s) ELSE wire
  BY <1>0 DEF Emit, Stored
<1>5. LastShown' = LastShown
  BY DEF LastShown
<1>6. /\ \A k \in 0..Sent : count[k] \in 0..work.typed
      /\ \A k, m \in 0..Sent : k <= m => count[k] <= count[m]
      /\ count[Sent] = work.typed
  BY <1>2 DEF Counted, IsCount
<1>7. work.typed <= work'.typed /\ (e.type = "progress" => work'.typed = work.typed + 1 /\ s.batch = work'.typed)
  BY <1>1, <1>3 DEF TypesBy
<1>8. /\ \A k \in 0..Sent : k \in 0..(Sent + 1) /\ now[k] = count[k]
      /\ now[Sent + 1] = work'.typed
      /\ \A k \in 0..(Sent + 1) : k \in 0..Sent \/ k = Sent + 1
  BY <1>0, <1>1
<1>9. now \in [0..Sent' -> 0..work'.typed]
  <2>1. \A k \in 0..(Sent + 1) : (IF k = Sent + 1 THEN work'.typed ELSE count[k]) \in 0..work'.typed
    BY <1>1, <1>6, <1>7, <1>8
  <2> QED
    BY <1>0, <1>3, <2>1
<1>10. IsCount(now)'
  <2>1. \A k, m \in 0..(Sent + 1) : k <= m => now[k] <= now[m]
    <3> SUFFICES ASSUME NEW k \in 0..(Sent + 1), NEW m \in 0..(Sent + 1), k <= m
                 PROVE  now[k] <= now[m]
      OBVIOUS
    <3>1. CASE m \in 0..Sent
      BY <1>1, <1>6, <1>8, <3>1
    <3>2. CASE m = Sent + 1 /\ k \in 0..Sent
      <4>1. count[k] \in 0..work.typed /\ now[k] = count[k] /\ now[m] = work'.typed
        BY <1>6, <1>8, <3>2
      <4> QED
        BY <1>1, <1>7, <4>1
    <3>3. CASE m = Sent + 1 /\ k = Sent + 1
      BY <1>8, <3>3
    <3>4. (m \in 0..Sent \/ m = Sent + 1) /\ (k \in 0..Sent \/ k = Sent + 1)
      BY <1>8
    <3> QED
      BY <3>1, <3>2, <3>3, <3>4
  <2> QED
    BY <1>3, <1>8, <1>9, <2>1 DEF IsCount
\* What was counted before is counted the same.
<1>11. ASSUME NEW f \in Frame, f.id \in 1..Sent, f.batch = count[f.id], f.batch = count[f.id - 1] + 1
       PROVE  f.id \in 1..Sent' /\ f.batch = now[f.id] /\ f.batch = now[f.id - 1] + 1
  <2>1. f.id \in 0..Sent /\ f.id - 1 \in 0..Sent /\ f.id \in 1..(Sent + 1)
    BY <1>1, <1>11
  <2>2. now[f.id] = count[f.id] /\ now[f.id - 1] = count[f.id - 1]
    BY <1>8, <2>1
  <2> QED
    BY <1>3, <1>11, <2>1, <2>2
<1>12. s.type = "progress" => s.id \in 1..Sent' /\ s.batch = now[s.id] /\ s.batch = now[s.id - 1] + 1
  <2>1. s.id - 1 = Sent /\ s.id \in 1..(Sent + 1) /\ Sent \in 0..Sent
    BY <1>1, <1>3
  <2> QED
    BY <1>3, <1>6, <1>7, <1>8, <2>1
<1>13. ASSUME NEW t \in Seq(Frame), NEW u \in Seq(Frame), Counts(count, t),
              \A i \in DOMAIN u : u[i] = s \/ \E j \in DOMAIN t : u[i] = t[j]
       PROVE  \A i \in Typing(u) :
                u[i].id \in 1..Sent' /\ u[i].batch = now[u[i].id] /\ u[i].batch = now[u[i].id - 1] + 1
  <2> TAKE i \in Typing(u)
  <2>1. i \in DOMAIN u /\ u[i].type = "progress"
    BY DEF Typing
  <2>2. CASE u[i] = s
    BY <1>12, <2>1, <2>2
  <2>3. ASSUME NEW j \in DOMAIN t, u[i] = t[j]
        PROVE  u[i].id \in 1..Sent' /\ u[i].batch = now[u[i].id] /\ u[i].batch = now[u[i].id - 1] + 1
    <3>1. j \in Typing(t) /\ t[j] \in Frame
      BY <2>1, <2>3, FrameAt DEF Typing
    <3>2. t[j].id \in 1..Sent /\ t[j].batch = count[t[j].id] /\ t[j].batch = count[t[j].id - 1] + 1
      BY <1>13, <3>1 DEF Counts
    <3> QED
      BY <1>11, <2>3, <3>1, <3>2
  <2> QED
    BY <1>13, <2>1, <2>2, <2>3
<1>14. PICK d \in 0..Len(old) : Holds(h, d, s)
  BY <1>3
<1>15. /\ \A i \in 1..Len(h) : i = Len(h) \/ (i + d \in 1..Len(old) /\ h[i] = old[i + d])
       /\ h[Len(h)] = s /\ Len(h) \in 1..(Len(old) + 1)
       /\ s.type = "progress" => s.batch \in Batches(h)
       /\ \A j \in Typing(old) : old[j].id > Sent + 1 - Len(h) => old[j].batch \in Batches(h)
  BY <1>1, <1>3, <1>14, HeldFrames
<1>16. Counts(now, channel.history)'
  <2>1. DOMAIN h = 1..Len(h) /\ DOMAIN old = 1..Len(old)
    BY <1>1, <1>3, FrameAt
  <2>2. \A i \in DOMAIN h : h[i] = s \/ \E j \in DOMAIN old : h[i] = old[j]
    BY <1>15, <2>1
  <2>3. Counts(count, old)
    BY <1>2 DEF Counted
  <2>4. \A i \in Typing(h) : h[i].id \in 1..Sent' /\ h[i].batch = now[h[i].id] /\ h[i].batch = now[h[i].id - 1] + 1
    BY <1>1, <1>3, <1>13, <2>2, <2>3
  <2> QED
    BY <1>0, <2>4 DEF Counts, Typing
\* What is on the wire is what was, and the event if the tab listens.
<1>17. /\ wire' \in Seq(Frame)
       /\ \/ wire' = wire /\ stream.at # "open"
          \/ /\ stream.at = "open" /\ Len(wire') = Len(wire) + 1 /\ wire'[Len(wire) + 1] = s
             /\ \A i \in 1..Len(wire) : wire'[i] = wire[i]
             /\ Batches(wire') = Batches(wire) \cup (IF s.type = "progress" THEN {s.batch} ELSE {})
  <2>1. CASE stream.at # "open"
    BY <1>1, <1>4, <2>1
  <2>2. CASE stream.at = "open"
    <3>1. wire' = Append(wire, s) /\ s \in Frame
      BY <1>3, <1>4, <2>2
    <3>2. /\ wire' \in Seq(Frame) /\ Len(wire') = Len(wire) + 1 /\ wire'[Len(wire) + 1] = s
          /\ \A i \in 1..Len(wire) : wire'[i] = wire[i]
      BY <1>1, <3>1, FrameAppended
    <3>3. Batches(wire') = Batches(wire) \cup (IF s.type = "progress" THEN {s.batch} ELSE {})
      BY <1>1, <3>1, BatchesAppended
    <3> QED
      BY <2>2, <3>2, <3>3
  <2> QED
    BY <2>1, <2>2
<1>18. DOMAIN wire = 1..Len(wire) /\ Len(wire) \in Nat /\ DOMAIN wire' = 1..Len(wire')
  BY <1>1, <1>17, FrameAt
<1>19. Counts(now, wire)'
  <2>1. PICK u : u = wire'
    OBVIOUS
  <2>2. \A i \in DOMAIN u : u[i] = s \/ \E j \in DOMAIN wire : u[i] = wire[j]
    <3>1. CASE wire' = wire
      BY <2>1, <3>1
    <3>2. CASE /\ Len(wire') = Len(wire) + 1 /\ wire'[Len(wire) + 1] = s
               /\ \A i \in 1..Len(wire) : wire'[i] = wire[i]
      BY <1>18, <2>1, <3>2
    <3> QED
      BY <1>17, <3>1, <3>2
  <2>3. Counts(count, wire) /\ u \in Seq(Frame)
    BY <1>2, <1>17, <2>1 DEF Counted
  <2>4. \A i \in Typing(u) : u[i].id \in 1..Sent' /\ u[i].batch = now[u[i].id] /\ u[i].batch = now[u[i].id - 1] + 1
    BY <1>1, <1>13, <2>2, <2>3
  <2> QED
    BY <2>1, <2>4 DEF Counts, Typing
<1>20. \A k \in (Sent + 1 - Len(h))..(Sent + 1) : now[k] < work'.typed => now[k] + 1 \in Batches(h)
  <2> SUFFICES ASSUME NEW k \in (Sent + 1 - Len(h))..(Sent + 1), now[k] < work'.typed
               PROVE  now[k] + 1 \in Batches(h)
    OBVIOUS
  <2>1. Len(old) \in Nat /\ Len(old) <= Sent /\ Len(h) <= Len(old) + 1 /\ Len(h) \in Nat
    BY <1>1, <1>15, FrameAt DEF Numbered
  <2>2. k \in 0..Sent /\ k \in (Sent - Len(old))..Sent
    <3>1. k # Sent + 1
      BY <1>1, <1>8
    <3> QED
      <4>1. PICK n, a, b : n = Sent /\ a = Len(old) /\ b = Len(h)
        OBVIOUS
      <4>2. n \in Nat /\ a \in Nat /\ b \in Nat /\ a <= n /\ b <= a + 1
        BY <1>1, <2>1, <4>1
      <4>3. k \in (n + 1 - b)..(n + 1) /\ k # n + 1
        BY <3>1, <4>1
      <4>4. k \in 0..n /\ k \in (n - a)..n
        BY <4>2, <4>3
      <4> QED
        BY <4>1, <4>4
  <2>3. now[k] = count[k] /\ count[k] \in 0..work.typed
    BY <1>6, <1>8, <2>2
  <2>4. CASE count[k] = work.typed
    <3>1. e.type = "progress" /\ s.batch = count[k] + 1
      BY <1>1, <1>7, <2>3, <2>4 DEF TypesBy
    <3> QED
      BY <1>3, <1>15, <2>3, <3>1
  <2>5. CASE count[k] # work.typed
    <3>0. \A m \in (Sent - Len(old))..Sent : count[m] < work.typed => count[m] + 1 \in Batches(old)
      BY <1>2 DEF Counted
    <3>1. count[k] + 1 \in Batches(old)
      <4>1. count[k] < work.typed
        BY <1>1, <2>3, <2>5
      <4> QED
        BY <2>2, <3>0, <4>1
    <3>2. PICK j \in Typing(old) : old[j].batch = count[k] + 1
      BY <3>1 DEF Batches
    <3>3. /\ old[j].id \in 1..Sent /\ old[j].id \in 0..Sent /\ old[j].batch = count[old[j].id]
      <4>1. Counts(count, old)
        BY <1>2 DEF Counted
      <4>2. old[j].id \in 1..Sent /\ old[j].batch = count[old[j].id]
        BY <4>1 DEF Counts
      <4> QED
        BY <1>1, <4>2
    <3>4. ~(old[j].id <= k)
      <4>1. count[old[j].id] \in Nat /\ count[k] \in Nat /\ count[old[j].id] = count[k] + 1
        <5>1. count[old[j].id] = count[k] + 1
          BY <3>2, <3>3
        <5>2. \A m \in 0..Sent : count[m] \in Nat
          BY <1>1, <1>6
        <5> QED
          BY <2>2, <3>3, <5>1, <5>2
      <4>2. old[j].id <= k => count[old[j].id] <= count[k]
        BY <1>6, <2>2, <3>3
      <4> QED
        BY <4>1, <4>2
    <3>5. old[j].id > Sent + 1 - Len(h)
      <4>1. PICK x, l : x = old[j].id /\ l = Len(h)
        OBVIOUS
      <4>2. x \in Nat /\ l \in Nat
        BY <2>1, <3>3, <4>1
      <4>3. k \in Nat /\ k >= Sent + 1 - l
        BY <1>1, <2>2, <4>1, <4>2
      <4>4. x > k
        BY <3>4, <4>1, <4>2, <4>3
      <4> QED
        BY <1>1, <4>1, <4>2, <4>3, <4>4
    <3> QED
      BY <1>15, <2>3, <3>2, <3>5
  <2> QED
    BY <2>4, <2>5
<1>21. stream.lastId \in Nat /\ stream.lastId <= Sent
  BY <1>1, <1>2 DEF Counted, StreamTyped
<1>22. \A i \in DOMAIN wire' : wire'[i].id # 0 =>
         /\ wire'[i].id > stream.lastId /\ wire'[i].id <= Sent + 1
         /\ \A j \in DOMAIN wire' : i < j /\ wire'[j].id # 0 => wire'[i].id < wire'[j].id
  <2>1. \A i \in DOMAIN wire : wire[i].id \in Nat /\
          (wire[i].id # 0 =>
            /\ wire[i].id > stream.lastId /\ wire[i].id <= Sent
            /\ \A j \in DOMAIN wire : i < j /\ wire[j].id # 0 => wire[i].id < wire[j].id)
    <3>1. \A i \in DOMAIN wire : wire[i].id \in Nat
      BY <1>1, FrameAt DEF Frame
    <3> QED
      BY <1>2, <3>1 DEF Counted
  <2>2. CASE wire' = wire
    BY <1>1, <2>1, <2>2
  <2>3. CASE /\ Len(wire') = Len(wire) + 1 /\ wire'[Len(wire) + 1] = s
             /\ \A i \in 1..Len(wire) : wire'[i] = wire[i]
    <3>1. ASSUME NEW i \in DOMAIN wire', wire'[i].id # 0
          PROVE  /\ wire'[i].id > stream.lastId /\ wire'[i].id <= Sent + 1
                 /\ \A j \in DOMAIN wire' : i < j /\ wire'[j].id # 0 => wire'[i].id < wire'[j].id
      <4>1. CASE i = Len(wire) + 1
        <5>1. wire'[i].id = Sent + 1 /\ \A j \in DOMAIN wire' : ~(i < j)
          BY <1>3, <1>18, <2>3, <4>1
        <5> QED
          BY <1>1, <1>21, <5>1
      <4>2. CASE i \in 1..Len(wire)
        <5>1. /\ i \in DOMAIN wire /\ wire'[i] = wire[i] /\ wire[i].id \in Nat
              /\ wire[i].id > stream.lastId /\ wire[i].id <= Sent
              /\ \A j \in DOMAIN wire : i < j /\ wire[j].id # 0 => wire[i].id < wire[j].id
          BY <1>18, <2>1, <2>3, <3>1, <4>2
        <5>2. ASSUME NEW j \in DOMAIN wire', i < j, wire'[j].id # 0 PROVE wire'[i].id < wire'[j].id
          <6>1. CASE j = Len(wire) + 1
            BY <1>1, <1>3, <2>3, <5>1, <6>1
          <6>2. CASE j \in 1..Len(wire)
            BY <1>18, <2>3, <5>1, <5>2, <6>2
          <6> QED
            BY <1>18, <2>3, <6>1, <6>2
        <5> QED
          BY <1>1, <5>1, <5>2
      <4> QED
        BY <1>18, <2>3, <3>1, <4>1, <4>2
    <3> QED
      BY <3>1
  <2> QED
    BY <1>17, <2>2, <2>3
<1>23. tab.preview # <<>> /\ stream.at # "none" =>
         /\ LastShown <= now[stream.lastId]
         /\ ~skipped => LastShown = now[stream.lastId]
         /\ stream.at = "open" /\ ~skipped /\ Batches(wire') = {} => LastShown = work'.typed
  <2>1. stream.lastId \in 0..Sent /\ now[stream.lastId] = count[stream.lastId]
    BY <1>1, <1>8, <1>21
  <2>2. tab.preview # <<>> /\ stream.at # "none" =>
         /\ LastShown <= count[stream.lastId]
         /\ ~skipped => LastShown = count[stream.lastId]
         /\ stream.at = "open" /\ ~skipped /\ Batches(wire) = {} => LastShown = work.typed
    BY <1>2 DEF Counted
  <2>3. stream.at = "open" /\ Batches(wire') = {} => Batches(wire) = {} /\ work'.typed = work.typed
    BY <1>3, <1>17 DEF TypesBy
  <2> QED
    BY <2>1, <2>2, <2>3
<1>24. Counted(now)'
  <2>1. \A k \in (Sent' - Len(channel'.history))..Sent' : now[k] < work'.typed => now[k] + 1 \in Batches(channel'.history)
    <3>1. (Sent' - Len(h))..Sent' = (Sent + 1 - Len(h))..(Sent + 1)
      <4>1. Sent' = Sent + 1 /\ Sent \in Nat /\ Len(h) \in Nat
        BY <1>1, <1>3, LenProperties
      <4> QED
        BY <4>1
    <3> QED
      BY <1>0, <1>20, <3>1, Zenon
  <2>2. stream'.lastId <= Sent'
    BY <1>1, <1>3, <1>21
  <2> QED
    BY <1>3, <1>5, <1>10, <1>16, <1>19, <1>22, <1>23, <2>1, <2>2 DEF Counted, Batches, Typing
<1> QED
  BY <1>9, <1>24 DEF Current

\* What every step that tells an event leaves true
LEMMA TellingKeeps ==
  ASSUME PreviewInv, NEW e \in Frame, Emit(e, wire), TypesBy(e), e.type = "progress" => work.outcome = None,
         stream' = stream, tab'.preview = tab.preview, skipped' = skipped,
         work'.typed \in Nat, work.outcome # None => work'.outcome # None
  PROVE  /\ Numbered' /\ WireSteady' /\ (Over \/ Current)' /\ PreviewHasNoHoles'
         /\ wire' \in Seq(Frame)
         /\ channel' \in [exists : BOOLEAN, history : Seq(Frame), nextId : Nat \ {0}, ended : BOOLEAN]
<1>1. StreamTyped /\ Numbered /\ channel.history \in Seq(Frame)
  BY DEF PreviewInv, StreamTyped
<1>2. /\ Stored(e) \in Frame /\ Stored(e).type = e.type
      /\ channel' \in [exists : BOOLEAN, history : Seq(Frame), nextId : Nat \ {0}, ended : BOOLEAN]
      /\ Numbered'
      /\ \E d \in 0..Len(channel.history) : Holds(channel'.history, d, Stored(e))
  BY <1>1, EmitHistory
<1>3. PreviewHasNoHoles'
  BY DEF PreviewInv, PreviewHasNoHoles
<1>4. CASE Over
  <2>1. e.type # "progress" /\ work'.outcome # None /\ Batches(channel.history) = {}
    BY <1>4 DEF Over
  <2>2. WireSteady' /\ wire' \in Seq(Frame)
    BY <2>1, WireTold
  <2>3. PICK h : h = channel'.history
    OBVIOUS
  <2>4. PICK d \in 0..Len(channel.history) : Holds(h, d, Stored(e))
    BY <1>2, <2>3
  <2>5. h \in Seq(Frame)
    BY <1>2, <2>3
  <2>6. \A b \in Batches(h) : b \in Batches(channel.history) \/ (e.type = "progress" /\ b = Stored(e).batch)
    BY <1>1, <1>2, <2>4, <2>5, HeldFrames
  <2>7. Over'
    BY <2>1, <2>3, <2>6 DEF Over, Batches, Typing
  <2> QED
    BY <1>2, <1>3, <2>2, <2>7
<1>5. CASE Current
  <2>1. PICK count \in [0..Sent -> 0..work.typed] : Counted(count)
    BY <1>5 DEF Current
  <2>2. stream.at = "open" /\ tab.preview # <<>> =>
          /\ LastShown <= count[stream.lastId]
          /\ ~skipped /\ Batches(wire) = {} => LastShown = work.typed
          /\ stream.lastId <= Sent /\ stream.lastId \in Nat
    BY <1>1, <2>1 DEF Counted, StreamTyped
  <2>3. stream.at = "open" /\ tab.preview # <<>> =>
          LastShown <= work.typed /\ (~skipped /\ Batches(wire) = {} => LastShown = work.typed)
    <3> SUFFICES ASSUME stream.at = "open", tab.preview # <<>> PROVE LastShown <= work.typed
      BY <2>2
    <3>1. tab.preview \in Seq(Nat) /\ work.typed \in Nat /\ Sent \in Nat
      <4>1. channel.nextId \in Nat \ {0} /\ work.typed \in Nat
        BY <1>1, StreamAssumption DEF StreamTyped
      <4>2. tab.preview \in Seq(Nat)
        BY <1>1 DEF StreamTyped
      <4> QED
        BY <4>1, <4>2 DEF Sent
    <3>2. LastShown \in Nat
      BY <3>1, EmptySeq, LenProperties, ElementOfSeq DEF LastShown
    <3>3. stream.lastId \in 0..Sent
      BY <2>2, <3>1
    <3>4. count[stream.lastId] \in 0..work.typed
      BY <2>1, <3>3
    <3> QED
      BY <2>2, <3>1, <3>2, <3>4
  <2>4. WireSteady' /\ wire' \in Seq(Frame)
    BY <2>3, WireTold
  <2> QED
    BY <1>2, <1>3, <1>5, <2>4, CountTold
<1> QED
  BY <1>4, <1>5 DEF PreviewInv

-----------------------------------------------------------------------------
\* ---- Steps that tell the tab nothing

LEMMA QuietKeeps ==
  ASSUME PreviewInv, UNCHANGED <<channel, wire, skipped>>, work'.typed = work.typed,
         work.outcome # None => work'.outcome # None,
         tab'.preview = tab.preview, stream'.lastId = stream.lastId,
         stream'.at = "none" <=> stream.at = "none", stream'.at = "open" <=> stream.at = "open"
  PROVE  Numbered' /\ WireSteady' /\ (Over \/ Current)' /\ PreviewHasNoHoles'
<1>1. LastShown' = LastShown /\ Sent' = Sent
  BY DEF LastShown, Sent
<1>2. Numbered'
  BY <1>1 DEF PreviewInv, Numbered
<1>3. WireSteady'
  BY <1>1 DEF PreviewInv, WireSteady, Batches, Typing
<1>4. PreviewHasNoHoles'
  BY DEF PreviewInv, PreviewHasNoHoles
<1>5. CASE Over
  BY <1>2, <1>3, <1>4, <1>5 DEF Over, Batches, Typing
<1>6. CASE Current
  <2>1. PICK count \in [0..Sent -> 0..work.typed] : Counted(count)
    BY <1>6 DEF Current
  <2>2. IsCount(count)' /\ Counts(count, channel.history)' /\ Counts(count, wire)'
    BY <1>1, <2>1 DEF Counted, IsCount, Counts, Typing
  <2>3. Counted(count)'
    BY <1>1, <2>1, <2>2 DEF Counted, Batches, Typing
  <2>4. Current'
    BY <1>1, <2>1, <2>3 DEF Current
  <2> QED
    BY <1>2, <1>3, <1>4, <2>4
<1> QED
  BY <1>5, <1>6 DEF PreviewInv

\* The stream is cut, and its frames with it; the preview may be gone too.
LEMMA CutKeeps ==
  ASSUME PreviewInv, UNCHANGED <<channel, skipped>>, work' = work, wire' = <<>>, stream'.at # "open",
         \/ tab'.preview = <<>> /\ stream'.lastId = 0
         \/ tab'.preview = tab.preview /\ stream'.lastId = 0 /\ stream'.at = "none"
         \/ /\ tab'.preview = tab.preview /\ stream'.lastId = stream.lastId
            /\ stream'.at # "none" => stream.at # "none"
  PROVE  Numbered' /\ WireSteady' /\ (Over \/ Current)' /\ PreviewHasNoHoles'
<1>1. Sent' = Sent /\ Batches(wire') = {} /\ Typing(wire') = {} /\ DOMAIN wire' = {}
  BY DEF Sent, Batches, Typing
<1>2. Numbered'
  BY <1>1 DEF PreviewInv, Numbered
<1>3. WireSteady'
  BY <1>1 DEF WireSteady, Batches, Typing
<1>4. PreviewHasNoHoles'
  BY EmptySeq DEF PreviewInv, PreviewHasNoHoles
<1>5. CASE Over
  BY <1>2, <1>3, <1>4, <1>5 DEF Over, Batches, Typing
<1>6. CASE Current
  <2>1. PICK count \in [0..Sent -> 0..work.typed] : Counted(count)
    BY <1>6 DEF Current
  <2>2. IsCount(count)' /\ Counts(count, channel.history)'
    BY <1>1, <2>1 DEF Counted, IsCount, Counts, Typing
  <2>3. Counts(count, wire)'
    BY <1>1 DEF Counts, Typing
  <2>4. tab'.preview # <<>> /\ stream'.at # "none" =>
          /\ LastShown' <= count[stream'.lastId]
          /\ ~skipped => LastShown' = count[stream'.lastId]
    BY <2>1 DEF Counted, LastShown
  <2>5. stream'.lastId <= Sent
    <3>1. Sent \in Nat
      BY DEF PreviewInv, StreamTyped, Sent
    <3> QED
      BY <2>1, <3>1 DEF Counted
  <2>6. \A k \in (Sent' - Len(channel'.history))..Sent' :
          count[k] < work'.typed => count[k] + 1 \in Batches(channel'.history)
    BY <1>1, <2>1 DEF Counted
  <2>7. Counted(count)'
    BY <1>1, <2>2, <2>3, <2>4, <2>5, <2>6 DEF Counted, Batches, Typing
  <2>8. Current'
    BY <1>1, <2>1, <2>7 DEF Current
  <2> QED
    BY <1>2, <1>3, <1>4, <2>8
<1> QED
  BY <1>5, <1>6 DEF PreviewInv

-----------------------------------------------------------------------------
\* ---- Subscribing: the replay joins the preview where it left off

\* The missed batches, against the count
LEMMA ReplayJoins ==
  ASSUME PreviewInv, NEW count \in [0..Sent -> 0..work.typed], Counted(count)
  PROVE  /\ \A i, j \in Typing(Missed) : i < j => Missed[i].batch < Missed[j].batch
         /\ \A b \in Batches(Missed) : b <= work.typed /\ (b < work.typed => b + 1 \in Batches(Missed))
         /\ \A b \in Batches(Missed) : count[stream.lastId] < b
         /\ Missed = <<>> \/ Head(Missed).id <= stream.lastId + 1 =>
              count[stream.lastId] = work.typed \/ count[stream.lastId] + 1 \in Batches(Missed)
         /\ Counts(count, Missed)
         /\ \A i \in DOMAIN Missed : Missed[i].id > stream.lastId /\ Missed[i].id <= Sent
         /\ \A i, j \in DOMAIN Missed : i < j => Missed[i].id < Missed[j].id
<1> DEFINE h == channel.history
           l == stream.lastId
<1>1. /\ StreamTyped /\ Numbered /\ h \in Seq(Frame) /\ Len(h) \in Nat /\ DOMAIN h = 1..Len(h)
      /\ Sent \in Nat /\ l \in Nat /\ l <= Sent /\ work.typed \in Nat /\ Len(h) <= Sent
      /\ \A i \in 1..Len(h) : h[i].id = Sent - Len(h) + i
      /\ Sent > 0 => h # <<>>
  <2>1. StreamTyped /\ Numbered /\ l <= Sent
    BY DEF PreviewInv, Counted
  <2>2. h \in Seq(Frame) /\ l \in Nat /\ Sent \in Nat /\ work.typed \in Nat
    BY <2>1, StreamAssumption DEF StreamTyped, Sent
  <2>3. Len(h) \in Nat /\ DOMAIN h = 1..Len(h)
    BY <2>2, FrameAt
  <2> QED
    BY <2>1, <2>2, <2>3 DEF Numbered
<1>2. PICK g \in 0..Len(h) :
        /\ Missed \in Seq(Frame) /\ Len(Missed) = Len(h) - g
        /\ \A i \in 1..(Len(h) - g) : Missed[i] = h[i + g]
        /\ \A j \in 1..Len(h) : h[j].id > l <=> j > g
  BY <1>1, MissedIsEnd
<1> HIDE DEF h, l
<1>3. PICK r, n : r = Missed /\ n = Len(h)
  OBVIOUS
<1>0. n \in Nat /\ Sent \in Nat /\ l \in Nat /\ l <= Sent /\ n <= Sent /\ g \in 0..n
  BY <1>1, <1>2, <1>3
<1>4. /\ r \in Seq(Frame) /\ Len(r) = n - g /\ DOMAIN r = 1..(n - g) /\ n - g \in Nat
      /\ \A i \in 1..(n - g) : i + g \in 1..n /\ r[i] = h[i + g]
      /\ \A j \in 1..n : h[j].id > l => j - g \in 1..(n - g) /\ r[j - g] = h[j]
  <2>1. r \in Seq(Frame) /\ Len(r) = n - g /\ DOMAIN r = 1..(n - g) /\ n - g \in Nat
    BY <1>2, <1>3, FrameAt
  <2>2. \A i \in 1..(n - g) : i + g \in 1..n /\ r[i] = h[i + g]
    <3>1. \A i \in 1..(n - g) : i + g \in 1..n
      BY <1>0
    <3> QED
      BY <1>2, <1>3, <3>1
  <2>3. \A j \in 1..n : h[j].id > l => j - g \in 1..(n - g) /\ (j - g) + g = j
    BY <1>0, <1>2, <1>3
  <2> QED
    BY <2>1, <2>2, <2>3
<1>5. /\ \A k \in 0..Sent : count[k] \in Nat /\ count[k] <= work.typed
      /\ \A k, m \in 0..Sent : k <= m => count[k] <= count[m]
      /\ count[Sent] = work.typed
      /\ \A k \in (Sent - n)..Sent : count[k] < work.typed => count[k] + 1 \in Batches(h)
      /\ \A i \in Typing(h) : /\ h[i].id \in 1..Sent
                              /\ h[i].batch = count[h[i].id] /\ h[i].batch = count[h[i].id - 1] + 1
  <2>1. \A k \in 0..Sent : count[k] \in 0..work.typed
    BY <1>0
  <2> QED
    BY <1>1, <1>3, <2>1 DEF Counted, IsCount, Counts, h
\* A batch of the replay is one of the history, at its own id.
<1>6. ASSUME NEW i \in Typing(r)
      PROVE  /\ i \in 1..(n - g) /\ r[i].id = Sent - n + (i + g) /\ r[i].id \in 1..Sent /\ r[i].id > l
             /\ r[i].batch = count[r[i].id] /\ r[i].batch = count[r[i].id - 1] + 1
  <2>1. i \in 1..(n - g) /\ r[i].type = "progress" /\ i + g \in 1..n /\ r[i] = h[i + g]
    BY <1>4 DEF Typing
  <2>2. i + g \in Typing(h)
    BY <1>1, <1>3, <2>1 DEF Typing
  <2>3. i + g > g
    BY <1>0, <2>1
  <2>4. h[i + g].id > l
    BY <1>2, <1>3, <2>1, <2>3
  <2>5. h[i + g].id = Sent - n + (i + g)
    BY <1>1, <1>3, <2>1
  <2> QED
    BY <1>5, <2>1, <2>2, <2>4, <2>5
\* The batch after one counted is in the replay, if it is after what was seen.
<1>7. ASSUME NEW k \in (Sent - n)..Sent, k >= l, count[k] < work.typed PROVE count[k] + 1 \in Batches(r)
  <2>1. count[k] + 1 \in Batches(h)
    BY <1>5, <1>7
  <2>2. PICK j \in Typing(h) : h[j].batch = count[k] + 1
    BY <2>1 DEF Batches
  <2>3. h[j].id \in 1..Sent /\ h[j].id \in 0..Sent /\ count[h[j].id] = count[k] + 1 /\ k \in 0..Sent
    <3>1. h[j].id \in 1..Sent /\ count[h[j].id] = count[k] + 1
      BY <1>5, <2>2
    <3> QED
      BY <1>0, <3>1
  <2>4. ~(h[j].id <= k)
    BY <1>5, <2>3
  <2>5. h[j].id > l /\ j \in 1..n /\ h[j].type = "progress"
    <3>1. j \in 1..n /\ h[j].type = "progress"
      BY <1>1, <1>3 DEF Typing
    <3>2. PICK x : x = h[j].id
      OBVIOUS
    <3>3. x \in Nat /\ k \in Nat /\ k < x
      BY <1>0, <2>3, <2>4, <3>2
    <3>4. x > l
      BY <1>0, <1>7, <3>3
    <3> QED
      BY <3>1, <3>2, <3>4
  <2>6. j - g \in 1..(n - g) /\ r[j - g] = h[j]
    BY <1>4, <2>5
  <2>7. j - g \in Typing(r)
    BY <1>4, <2>5, <2>6 DEF Typing
  <2> QED
    BY <2>2, <2>6, <2>7 DEF Batches
<1>8. \A i, j \in Typing(r) : i < j => r[i].batch < r[j].batch
  <2> SUFFICES ASSUME NEW i \in Typing(r), NEW j \in Typing(r), i < j PROVE r[i].batch < r[j].batch
    OBVIOUS
  <2>1. r[i].id <= r[j].id - 1 /\ r[i].id \in 0..Sent /\ r[j].id - 1 \in 0..Sent
    <3>1. /\ r[i].id = Sent - n + (i + g) /\ r[j].id = Sent - n + (j + g)
          /\ r[i].id \in 1..Sent /\ r[j].id \in 1..Sent /\ i \in 1..(n - g) /\ j \in 1..(n - g)
      BY <1>6
    <3> QED
      BY <1>0, <3>1
  <2>2. count[r[i].id] <= count[r[j].id - 1] /\ count[r[i].id] \in Nat /\ count[r[j].id - 1] \in Nat
    BY <1>5, <2>1
  <2> QED
    <3>1. r[i].batch = count[r[i].id] /\ r[j].batch = count[r[j].id - 1] + 1
      BY <1>6
    <3> QED
      BY <2>2, <3>1
<1>9. ASSUME NEW b \in Batches(r)
      PROVE  /\ b <= work.typed /\ (b < work.typed => b + 1 \in Batches(r))
             /\ count[l] < b
  <2>1. PICK i \in Typing(r) : b = r[i].batch
    BY DEF Batches
  <2>2. /\ r[i].id \in 0..Sent /\ r[i].id - 1 \in 0..Sent /\ r[i].id > l /\ b = count[r[i].id]
        /\ b = count[r[i].id - 1] + 1 /\ r[i].id \in (Sent - n)..Sent
    <3>1. /\ i \in 1..(n - g) /\ r[i].id = Sent - n + (i + g) /\ r[i].id \in 1..Sent /\ r[i].id > l
          /\ r[i].batch = count[r[i].id] /\ r[i].batch = count[r[i].id - 1] + 1
      BY <1>6
    <3>2. r[i].id \in 0..Sent /\ r[i].id - 1 \in 0..Sent /\ r[i].id \in (Sent - n)..Sent
      BY <1>0, <3>1
    <3> QED
      BY <2>1, <3>1, <3>2
  <2>3. b <= work.typed /\ b \in Nat
    BY <1>5, <2>2
  <2>4. b < work.typed => b + 1 \in Batches(r)
    <3> SUFFICES ASSUME b < work.typed PROVE b + 1 \in Batches(r)
      OBVIOUS
    <3>1. r[i].id \in (Sent - n)..Sent /\ r[i].id >= l /\ count[r[i].id] < work.typed
      BY <1>0, <2>2
    <3> QED
      BY <1>7, <2>2, <3>1
  <2>5. count[l] <= count[r[i].id - 1] /\ count[l] \in Nat /\ count[r[i].id - 1] \in Nat
    <3>1. l \in 0..Sent /\ l <= r[i].id - 1
      BY <1>0, <2>2
    <3> QED
      BY <1>5, <2>2, <3>1
  <2> QED
    BY <2>2, <2>3, <2>4, <2>5
<1>10. ASSUME r = <<>> \/ Head(r).id <= l + 1
       PROVE  count[l] = work.typed \/ count[l] + 1 \in Batches(r)
  <2>1. l \in 0..Sent /\ (count[l] # work.typed => count[l] < work.typed)
    <3>1. l \in 0..Sent
      BY <1>0
    <3> QED
      BY <1>1, <1>5, <3>1
  <2>2. CASE r = <<>>
    <3>1. g = n
      BY <1>0, <1>4, <2>2, EmptySeq
    <3>2. CASE n = 0
      <4>1. Sent = 0
        BY <1>0, <1>1, <1>3, <3>2, EmptySeq
      <4>2. l = Sent
        BY <1>0, <4>1
      <4> QED
        BY <1>5, <4>2
    <3>3. CASE n # 0
      <4>1. n \in 1..n /\ ~(n > g)
        BY <1>0, <3>1, <3>3
      <4>2. h[n].id = Sent - n + n /\ ~(h[n].id > l)
        BY <1>1, <1>2, <1>3, <4>1
      <4>3. l = Sent
        BY <1>0, <4>2
      <4> QED
        BY <1>5, <4>3
    <3> QED
      BY <3>2, <3>3
  <2>3. CASE r # <<>> /\ Head(r).id <= l + 1
    <3>1. n - g # 0
      BY <1>4, <2>3, EmptySeq
    <3>2. Head(r) = r[1]
      BY <1>4, <2>3, HeadTailProperties
    <3>3. 1 \in 1..(n - g)
      BY <1>4, <3>1
    <3>4. 1 + g \in 1..n /\ r[1] = h[1 + g]
      BY <1>4, <3>3
    <3>5. h[1 + g].id = Sent - n + (1 + g)
      BY <1>1, <1>3, <3>4
    <3>6. Sent - n + (1 + g) <= l + 1
      BY <2>3, <3>2, <3>4, <3>5
    <3>7. l \in (Sent - n)..Sent /\ l >= l
      BY <1>0, <3>6
    <3> QED
      BY <1>7, <2>1, <3>7
  <2> QED
    BY <1>10, <2>2, <2>3
<1>11. Counts(count, r)
  BY <1>6 DEF Counts
<1>12. /\ \A i \in DOMAIN r : r[i].id > l /\ r[i].id <= Sent
       /\ \A i, j \in DOMAIN r : i < j => r[i].id < r[j].id
  <2>1. \A i \in 1..(n - g) : r[i].id = Sent - n + (i + g) /\ i + g \in 1..n /\ r[i].id > l
    <3> TAKE i \in 1..(n - g)
    <3>1. i + g \in 1..n /\ r[i] = h[i + g] /\ i + g > g
      BY <1>0, <1>4
    <3> QED
      BY <1>1, <1>2, <1>3, <3>1
  <2>2. \A i, j \in 1..(n - g) : i < j => r[i].id < r[j].id
    <3> SUFFICES ASSUME NEW i \in 1..(n - g), NEW j \in 1..(n - g), i < j PROVE r[i].id < r[j].id
      OBVIOUS
    <3>1. r[i].id = Sent - n + (i + g) /\ r[j].id = Sent - n + (j + g)
      BY <2>1
    <3> QED
      BY <1>0, <3>1
  <2>3. \A i \in 1..(n - g) : r[i].id <= Sent
    <3> TAKE i \in 1..(n - g)
    <3>1. r[i].id = Sent - n + (i + g)
      BY <2>1
    <3> QED
      BY <1>0, <3>1
  <2> QED
    BY <1>4, <2>1, <2>2, <2>3
<1> QED
  BY <1>3, <1>8, <1>9, <1>10, <1>11, <1>12 DEF l

\* The replay, or nothing on a first connection
LEMMA ReplayedFrames ==
  ASSUME StreamTyped, Numbered
  PROVE  /\ Replayed \in Seq(Frame) /\ (stream.lastId = 0 => Replayed = <<>>)
         /\ stream.lastId # 0 => Replayed = Missed
         /\ channel.history = <<>> => Replayed = <<>>
<1>1. PICK g \in 0..Len(channel.history) : Missed \in Seq(Frame) /\ Len(Missed) = Len(channel.history) - g
  BY MissedIsEnd
<1>2. channel.history = <<>> => Missed = <<>>
  <2> SUFFICES ASSUME channel.history = <<>> PROVE Missed = <<>>
    OBVIOUS
  <2>1. Len(channel.history) = 0 /\ g = 0
    BY EmptySeq
  <2> QED
    BY <1>1, <2>1, EmptySeq
<1>3. <<>> \in Seq(Frame)
  BY EmptySeq
<1> QED
  BY <1>1, <1>2, <1>3 DEF Replayed

\* What the tab finds on the wire when it is let in
LEMMA FirstFrames ==
  ASSUME StreamTyped, Numbered, ~OutcomeOwed, Subscribe
  PROVE  /\ wire' \in Seq(Frame)
         /\ Typing(wire') = Typing(Replayed) /\ Batches(wire') = Batches(Replayed)
         /\ \A i \in 1..Len(Replayed) : wire'[i] = Replayed[i]
         /\ \A i \in DOMAIN wire' : i \in 1..Len(Replayed) \/ (i = Len(Replayed) + 1 /\ wire'[i].id = 0)
         /\ stream.row \notin Terminal =>
              Len(wire') = Len(Replayed) + 1 /\ wire'[Len(Replayed) + 1] = Event("snapshot", stream.row, 0)
         /\ stream.row \in Terminal => wire' = Replayed
<1>1. wire' = Replayed \o Snapshot
  BY DEF Subscribe
<1>2. Replayed \in Seq(Frame) /\ Len(Replayed) \in Nat /\ DOMAIN Replayed = 1..Len(Replayed)
  BY ReplayedFrames, FrameAt
<1>3. CASE stream.row \in Terminal
  <2>1. wire' = Replayed
    BY <1>1, <1>2, <1>3, ConcatEmptySeq DEF Snapshot
  <2> QED
    BY <1>2, <1>3, <2>1
<1>4. CASE stream.row \notin Terminal
  <2> DEFINE e == Event("snapshot", stream.row, 0)
  <2>0. stream.row \in Statuses
    BY DEF Subscribe, StreamTyped
  <2>1. e \in Frame /\ e.type = "snapshot" /\ e.id = 0
    BY <2>0 DEF Event, Frame
  <2>2. wire' = Append(Replayed, e)
    BY <1>1, <1>2, <1>4, <2>1, AppendIsConcat DEF Snapshot
  <2> HIDE DEF e
  <2>3. /\ wire' \in Seq(Frame) /\ Len(wire') = Len(Replayed) + 1
        /\ \A i \in 1..Len(Replayed) : wire'[i] = Replayed[i]
        /\ wire'[Len(Replayed) + 1] = e
    BY <1>2, <2>1, <2>2, FrameAppended
  <2>4. /\ Typing(wire') = Typing(Replayed) \cup (IF e.type = "progress" THEN {Len(Replayed) + 1} ELSE {})
        /\ Batches(wire') = Batches(Replayed) \cup (IF e.type = "progress" THEN {e.batch} ELSE {})
    BY <1>2, <2>1, <2>2, BatchesAppended
  <2>5. DOMAIN wire' = 1..(Len(Replayed) + 1)
    BY <2>3, FrameAt
  <2> QED
    BY <1>2, <1>4, <2>1, <2>3, <2>4, <2>5 DEF e
<1> QED
  BY <1>3, <1>4

LEMMA SubscribeKeeps ==
  ASSUME PreviewInv, Subscribe
  PROVE  /\ Numbered' /\ WireSteady' /\ (Over \/ Current)' /\ PreviewHasNoHoles'
         /\ wire' \in Seq(Frame)
         /\ channel' \in [exists : BOOLEAN, history : Seq(Frame), nextId : Nat \ {0}, ended : BOOLEAN]
<1>1. /\ StreamTyped /\ Numbered /\ EndsLast /\ WireSteady /\ PreviewFresh /\ PreviewHasNoHoles
      /\ stream.at = "found" /\ stream.lastId \in Nat
      /\ channel \in [exists : BOOLEAN, history : Seq(Frame), nextId : Nat \ {0}, ended : BOOLEAN]
      /\ tab.preview \in Seq(Nat) /\ tab' = tab /\ work' = work
      /\ stream' = [stream EXCEPT !.at = "open", !.row = None]
      /\ skipped' = (skipped \/ (stream.lastId # 0 /\ Replayed # <<>> /\ Head(Replayed).id > stream.lastId + 1))
  BY DEF PreviewInv, Subscribe, StreamTyped
<1>2. stream'.at = "open" /\ stream'.lastId = stream.lastId
  BY <1>1 DEF StreamTyped
<1>3. LastShown' = LastShown
  BY <1>1 DEF LastShown
<1>4. PreviewHasNoHoles'
  BY <1>1 DEF PreviewHasNoHoles
<1>5. stream.lastId = 0 => tab.preview = <<>>
  BY <1>1 DEF PreviewFresh
<1>6. /\ Replayed \in Seq(Frame) /\ (stream.lastId = 0 => Replayed = <<>>)
      /\ stream.lastId # 0 => Replayed = Missed
      /\ channel.history = <<>> => Replayed = <<>>
  BY <1>1, ReplayedFrames
<1>7. CASE OutcomeOwed
  <2> DEFINE e == Event("outcome", stream.row, 0)
  <2>1. ~channel.exists /\ stream.row \in Terminal /\ work.outcome # None /\ channel.history = <<>>
    BY <1>1, <1>7 DEF OutcomeOwed, EndsLast, Numbered, NoChannel
  <2>2. e \in Frame /\ e.type = "outcome"
    BY <1>1, <2>1 DEF Event, Frame, StreamTyped
  <2>3. Emit(e, <<>>)
    BY <1>6, <1>7, <2>1 DEF Subscribe
  <2> HIDE DEF e
  <2>4. /\ Stored(e) \in Frame /\ Stored(e).type = "outcome"
        /\ channel' \in [exists : BOOLEAN, history : Seq(Frame), nextId : Nat \ {0}, ended : BOOLEAN]
        /\ Numbered'
        /\ \E d \in 0..Len(channel.history) : Holds(channel'.history, d, Stored(e))
    BY <1>1, <2>2, <2>3, EmitHistory
  <2>5. wire' = Append(<<>>, Stored(e))
    BY <1>2, <2>3 DEF Emit, Stored
  <2>6. <<>> \in Seq(Frame) /\ Typing(<<>>) = {} /\ Batches(<<>>) = {}
    BY EmptySeq DEF Typing, Batches
  <2>7. wire' \in Seq(Frame) /\ Typing(wire') = {} /\ Batches(wire') = {}
    <3>1. PICK s : s = Stored(e)
      OBVIOUS
    <3>2. s \in Frame /\ s.type # "progress" /\ wire' = Append(<<>>, s)
      BY <2>4, <2>5, <3>1
    <3>3. wire' \in Seq(Frame)
      BY <2>6, <3>2, FrameAppended
    <3>4. Typing(wire') = {} /\ Batches(wire') = {}
      BY <2>6, <3>2, BatchesAppended
    <3> QED
      BY <3>3, <3>4
  <2>8. WireSteady'
    BY <1>2, <2>7 DEF WireSteady, Typing, Batches
  <2>9. Over'
    <3>1. PICK h, d : h = channel'.history /\ d \in 0..Len(channel.history) /\ Holds(h, d, Stored(e))
      BY <2>4
    <3>2. h \in Seq(Frame)
      BY <2>4, <3>1
    <3>3. \A b \in Batches(h) : b \in Batches(channel.history) \/ (Stored(e).type = "progress" /\ b = Stored(e).batch)
      BY <1>1, <2>4, <3>1, <3>2, HeldFrames
    <3>4. Batches(h) = {}
      BY <2>1, <2>4, <2>6, <3>3
    <3> QED
      BY <1>1, <2>1, <3>1, <3>4 DEF Over, Batches, Typing
  <2> QED
    BY <1>4, <2>4, <2>7, <2>8, <2>9
<1>8. CASE ~OutcomeOwed
  <2>1. /\ wire' \in Seq(Frame)
        /\ Typing(wire') = Typing(Replayed) /\ Batches(wire') = Batches(Replayed)
        /\ \A i \in 1..Len(Replayed) : wire'[i] = Replayed[i]
        /\ \A i \in DOMAIN wire' : i \in 1..Len(Replayed) \/ (i = Len(Replayed) + 1 /\ wire'[i].id = 0)
    BY <1>1, <1>8, FirstFrames
  <2>2. channel' = [channel EXCEPT !.exists = TRUE]
    BY <1>8 DEF Subscribe
  <2>3. /\ channel' \in [exists : BOOLEAN, history : Seq(Frame), nextId : Nat \ {0}, ended : BOOLEAN]
        /\ channel'.history = channel.history /\ Sent' = Sent /\ channel'.exists
    BY <1>1, <2>2 DEF Sent
  <2>4. Numbered'
    BY <1>1, <2>3 DEF Numbered
  <2>5. Len(Replayed) \in Nat /\ DOMAIN Replayed = 1..Len(Replayed) /\ Typing(Replayed) \subseteq 1..Len(Replayed)
    BY <1>6, FrameAt
  <2>6. CASE Replayed = <<>>
    <3>1. Typing(wire') = {} /\ Batches(wire') = {}
      BY <2>1, <2>6 DEF Typing, Batches
    <3>2. WireSteady'
      BY <1>2, <3>1 DEF WireSteady, Typing, Batches
    <3>3. CASE Over
      <4>1. Over'
        <5>1. Batches(channel'.history) = Batches(channel.history)
          BY <2>3
        <5> QED
          BY <1>1, <3>3, <5>1 DEF Over, Batches, Typing
      <4> QED
        BY <1>4, <2>1, <2>3, <2>4, <3>2, <4>1
    <3>4. CASE Current
      <4>1. PICK count \in [0..Sent -> 0..work.typed] : Counted(count)
        BY <3>4 DEF Current
      <4>2. IsCount(count)' /\ Counts(count, channel.history)'
        BY <1>1, <2>3, <4>1 DEF Counted, IsCount, Counts, Typing
      <4>3. Counts(count, wire)'
        BY <3>1 DEF Counts, Typing
      <4>4. \A i \in DOMAIN wire' : wire'[i].id = 0
        BY <2>1, <2>5, <2>6
      <4>5. tab'.preview # <<>> /\ stream'.at # "none" =>
              /\ LastShown' <= count[stream'.lastId]
              /\ ~skipped' => LastShown' = count[stream'.lastId]
        BY <1>1, <1>2, <1>3, <4>1 DEF Counted
      <4>6. tab'.preview # <<>> /\ ~skipped' => LastShown' = work'.typed
        <5> SUFFICES ASSUME tab.preview # <<>>, ~skipped' PROVE LastShown = work.typed
          BY <1>1, <1>3
        <5>1. stream.lastId # 0 /\ Missed = <<>>
          BY <1>5, <1>6, <2>6
        <5>2. count[stream.lastId] = work.typed
          <6>1. Batches(Missed) = {}
            BY <5>1 DEF Batches, Typing
          <6>2. count[stream.lastId] = work.typed \/ count[stream.lastId] + 1 \in Batches(Missed)
            BY <4>1, <5>1, ReplayJoins
          <6> QED
            BY <6>1, <6>2
        <5> QED
          BY <1>1, <1>2, <1>3, <4>5, <5>2
      <4>7. stream'.lastId <= Sent'
        BY <1>2, <2>3, <4>1 DEF Counted
      <4>8. \A k \in (Sent' - Len(channel'.history))..Sent' :
              count[k] < work'.typed => count[k] + 1 \in Batches(channel'.history)
        BY <1>1, <2>3, <4>1 DEF Counted
      <4>9. Counted(count)'
        BY <4>2, <4>3, <4>4, <4>5, <4>6, <4>7, <4>8 DEF Counted, Batches, Typing
      <4>10. Current'
        BY <1>1, <2>3, <4>1, <4>9 DEF Current
      <4> QED
        BY <1>4, <2>1, <2>3, <2>4, <3>2, <4>10
    <3> QED
      BY <3>3, <3>4 DEF PreviewInv
  <2>7. CASE Replayed # <<>>
    <3>1. stream.lastId # 0 /\ Replayed = Missed
      BY <1>6, <2>7
    <3>2. \A i \in Typing(wire') : i \in 1..Len(Replayed) /\ wire'[i] = Replayed[i]
      BY <2>1, <2>5
    <3>3. CASE Over
      <4>1. Batches(wire') = {} /\ Typing(wire') = {}
        <5>1. PICK g \in 0..Len(channel.history) :
                /\ Missed \in Seq(Frame) /\ Len(Missed) = Len(channel.history) - g
                /\ \A i \in 1..(Len(channel.history) - g) : Missed[i] = channel.history[i + g]
          BY <1>1, MissedIsEnd
        <5>2. DOMAIN channel.history = 1..Len(channel.history) /\ Len(channel.history) \in Nat
          BY <1>1, LenProperties
        <5>3. \A i \in 1..(Len(channel.history) - g) : i + g \in 1..Len(channel.history)
          BY <5>2
        <5>4. \A i \in 1..Len(channel.history) : channel.history[i].type # "progress"
          BY <3>3, <5>2 DEF Over, Batches, Typing
        <5>5. \A i \in 1..Len(Replayed) : Replayed[i].type # "progress"
          BY <3>1, <5>1, <5>3, <5>4
        <5> QED
          BY <2>1, <2>5, <5>5 DEF Batches, Typing
      <4>2. WireSteady'
        BY <1>2, <4>1 DEF WireSteady, Typing, Batches
      <4>3. Over'
        <5>1. Batches(channel'.history) = Batches(channel.history)
          BY <2>3
        <5> QED
          BY <1>1, <3>3, <5>1 DEF Over, Batches, Typing
      <4> QED
        BY <1>4, <2>1, <2>3, <2>4, <4>2, <4>3
    <3>4. CASE Current
      <4>1. PICK count \in [0..Sent -> 0..work.typed] : Counted(count)
        BY <3>4 DEF Current
      <4>2. PICK r, w : r = Replayed /\ w = wire'
        OBVIOUS
      <4>3. /\ \A i, j \in Typing(r) : i < j => r[i].batch < r[j].batch
            /\ \A b \in Batches(r) : b <= work.typed /\ (b < work.typed => b + 1 \in Batches(r))
            /\ \A b \in Batches(r) : count[stream.lastId] < b
            /\ r = <<>> \/ Head(r).id <= stream.lastId + 1 =>
                 count[stream.lastId] = work.typed \/ count[stream.lastId] + 1 \in Batches(r)
            /\ Counts(count, r)
            /\ \A i \in DOMAIN r : r[i].id > stream.lastId /\ r[i].id <= Sent
            /\ \A i, j \in DOMAIN r : i < j => r[i].id < r[j].id
        BY <3>1, <4>1, <4>2, ReplayJoins
      <4>4. /\ w \in Seq(Frame) /\ Typing(w) = Typing(r) /\ Batches(w) = Batches(r)
            /\ \A i \in 1..Len(r) : w[i] = r[i]
            /\ \A i \in DOMAIN w : i \in 1..Len(r) \/ (i = Len(r) + 1 /\ w[i].id = 0)
            /\ Len(r) \in Nat /\ DOMAIN r = 1..Len(r) /\ r \in Seq(Frame)
            /\ \A i \in Typing(w) : w[i] = r[i] /\ i \in Typing(r)
        BY <1>6, <2>1, <2>5, <3>2, <4>2
      <4>5. tab.preview # <<>> =>
              /\ LastShown <= count[stream.lastId] /\ LastShown \in Nat /\ count[stream.lastId] \in Nat
              /\ ~skipped => LastShown = count[stream.lastId]
        <5>1. stream.lastId <= Sent /\ Sent \in Nat /\ stream.lastId \in 0..Sent
          BY <1>1, <4>1 DEF Counted, StreamTyped, Sent
        <5>2. count[stream.lastId] \in Nat
          BY <4>1, <5>1
        <5>3. tab.preview # <<>> => LastShown \in Nat
          BY <1>1, EmptySeq, LenProperties, ElementOfSeq DEF LastShown
        <5> QED
          BY <1>1, <4>1, <5>2, <5>3 DEF Counted
      <4>6. ASSUME ~skipped' PROVE ~skipped /\ Head(r).id <= stream.lastId + 1
        <5>1. 1 \in 1..Len(r) /\ Head(r) = r[1] /\ r[1] \in Frame
          <6>1. Len(r) # 0
            BY <2>7, <4>2, <4>4, EmptySeq
          <6>2. Head(r) = r[1]
            BY <2>7, <4>2, <4>4, HeadTailProperties
          <6>3. 1 \in 1..Len(r)
            BY <4>4, <6>1
          <6> QED
            BY <4>4, <6>2, <6>3, FrameAt
        <5>2. Head(r).id \in Nat /\ ~(Head(r).id > stream.lastId + 1) /\ ~skipped
          BY <1>1, <2>7, <3>1, <4>2, <4>6, <5>1 DEF Frame
        <5> QED
          BY <1>1, <5>2
      <4>7. tab.preview # <<>> =>
              /\ \A b \in Batches(r) : LastShown < b
              /\ ~skipped' /\ Batches(r) # {} => LastShown + 1 \in Batches(r)
        <5> SUFFICES ASSUME tab.preview # <<>>
                     PROVE  /\ \A b \in Batches(r) : LastShown < b
                            /\ ~skipped' /\ Batches(r) # {} => LastShown + 1 \in Batches(r)
          OBVIOUS
        <5>1. \A b \in Batches(r) : b \in Nat
          BY <4>4, FrameAt
        <5>2. \A b \in Batches(r) : LastShown < b
          BY <4>3, <4>5, <5>1
        <5>3. ASSUME ~skipped', Batches(r) # {} PROVE LastShown + 1 \in Batches(r)
          <6>1. LastShown = count[stream.lastId]
            BY <4>5, <4>6, <5>3
          <6>2. count[stream.lastId] # work.typed
            <7>1. PICK b \in Batches(r) : b \in Nat
              BY <5>1, <5>3
            <7>2. count[stream.lastId] < b /\ b <= work.typed
              BY <4>3, <7>1
            <7>3. work.typed \in Nat
              BY <1>1, StreamAssumption DEF StreamTyped
            <7> QED
              BY <4>5, <7>1, <7>2, <7>3
          <6> QED
            BY <4>3, <4>6, <5>3, <6>1, <6>2
        <5> QED
          BY <5>2, <5>3
      <4>8. WireSteady'
        <5>1. \A i, j \in Typing(w) : i < j => w[i].batch < w[j].batch
          BY <4>3, <4>4
        <5> QED
          <6>1. \A i, j \in Typing(wire') : i < j => wire'[i].batch < wire'[j].batch
            BY <4>2, <5>1
          <6>2. \A b \in Batches(wire') : b <= work'.typed /\ (b < work'.typed => b + 1 \in Batches(wire'))
            BY <1>1, <4>2, <4>3, <4>4
          <6>3. tab'.preview # <<>> =>
                  /\ \A b \in Batches(wire') : LastShown' < b
                  /\ ~skipped' /\ Batches(wire') # {} => LastShown' + 1 \in Batches(wire')
            BY <1>1, <1>3, <4>2, <4>4, <4>7
          <6> QED
            BY <1>2, <6>1, <6>2, <6>3 DEF WireSteady, Typing, Batches
      <4>9. \A i \in DOMAIN w : w[i].id # 0 =>
              /\ w[i].id > stream.lastId /\ w[i].id <= Sent
              /\ \A j \in DOMAIN w : i < j /\ w[j].id # 0 => w[i].id < w[j].id
        <5>1. \A i \in DOMAIN w : w[i].id # 0 => i \in DOMAIN r /\ w[i] = r[i]
          BY <4>4
        <5> QED
          BY <4>3, <5>1
      <4>10. Counts(count, w)
        BY <4>3, <4>4 DEF Counts
      <4>11. tab.preview # <<>> =>
               /\ LastShown <= count[stream.lastId]
               /\ ~skipped' => LastShown = count[stream.lastId]
               /\ ~skipped' /\ Batches(w) = {} => LastShown = work.typed
        BY <4>3, <4>4, <4>5, <4>6
      <4>12. IsCount(count)' /\ Counts(count, channel.history)' /\ Counts(count, wire)'
        BY <1>1, <2>3, <4>1, <4>2, <4>10 DEF Counted, IsCount, Counts, Typing
      <4>13. /\ stream'.lastId <= Sent'
             /\ \A k \in (Sent' - Len(channel'.history))..Sent' :
                  count[k] < work'.typed => count[k] + 1 \in Batches(channel'.history)
        BY <1>1, <1>2, <2>3, <4>1 DEF Counted
      <4>14. Counted(count)'
        <5>1. \A i \in DOMAIN wire' : wire'[i].id # 0 =>
                /\ wire'[i].id > stream'.lastId /\ wire'[i].id <= Sent'
                /\ \A j \in DOMAIN wire' : i < j /\ wire'[j].id # 0 => wire'[i].id < wire'[j].id
          BY <1>2, <2>3, <4>2, <4>9
        <5>2. tab'.preview # <<>> /\ stream'.at # "none" =>
                /\ LastShown' <= count[stream'.lastId]
                /\ ~skipped' => LastShown' = count[stream'.lastId]
                /\ stream'.at = "open" /\ ~skipped' /\ Batches(wire') = {} => LastShown' = work'.typed
          BY <1>1, <1>2, <1>3, <4>2, <4>11
        <5> QED
          BY <4>12, <4>13, <5>1, <5>2 DEF Counted, Batches, Typing
      <4>15. Current'
        BY <1>1, <2>3, <4>1, <4>14 DEF Current
      <4> QED
        BY <1>4, <2>1, <2>3, <2>4, <4>8, <4>15
    <3> QED
      BY <3>3, <3>4 DEF PreviewInv
  <2> QED
    BY <2>6, <2>7
<1> QED
  BY <1>7, <1>8

-----------------------------------------------------------------------------
\* ---- A frame arrives

\* The rest of the wire is as steady as the wire.
LEMMA RestSteady ==
  ASSUME PreviewInv, wire # <<>>, NEW t, t = Tail(wire)
  PROVE  /\ t \in Seq(Frame) /\ wire[1] \in Frame /\ Head(wire) = wire[1]
         /\ Batches(t) \subseteq Nat
         /\ Batches(wire) = Batches(t) \cup (IF wire[1].type = "progress" THEN {wire[1].batch} ELSE {})
         /\ \A i, j \in Typing(t) : i < j => t[i].batch < t[j].batch
         /\ wire[1].type = "progress" => \A b \in Batches(t) : wire[1].batch < b
         /\ \A i \in Typing(t) : i + 1 \in Typing(wire) /\ t[i] = wire[i + 1]
         /\ \A b \in Batches(t) : b <= work.typed /\ (b < work.typed => b + 1 \in Batches(t))
         /\ \A i \in DOMAIN t : i \in 1..(Len(wire) - 1) /\ t[i] = wire[i + 1] /\ i + 1 \in DOMAIN wire
<1>1. wire \in Seq(Frame) /\ WireSteady /\ work.typed \in Nat
  BY StreamAssumption DEF PreviewInv, StreamTyped
<1>2. /\ t \in Seq(Frame) /\ Len(t) = Len(wire) - 1 /\ Len(wire) \in Nat \ {0}
      /\ \A i \in 1..(Len(wire) - 1) : t[i] = wire[i + 1]
      /\ Head(wire) = wire[1] /\ wire[1] \in Frame
      /\ Typing(t) = {i \in 1..(Len(wire) - 1) : i + 1 \in Typing(wire)}
      /\ Batches(wire) = Batches(t) \cup (IF wire[1].type = "progress" THEN {wire[1].batch} ELSE {})
  BY <1>1, TailFrames
<1>3. \A i \in Typing(t) : i \in 1..(Len(wire) - 1) /\ i + 1 \in Typing(wire) /\ t[i] = wire[i + 1]
  BY <1>2
<1>4. /\ \A i, j \in Typing(wire) : i < j => wire[i].batch < wire[j].batch
      /\ \A b \in Batches(wire) : b <= work.typed /\ (b < work.typed => b + 1 \in Batches(wire))
  BY <1>1 DEF WireSteady
<1>5. \A i, j \in Typing(t) : i < j => t[i].batch < t[j].batch
  <2> SUFFICES ASSUME NEW i \in Typing(t), NEW j \in Typing(t), i < j PROVE t[i].batch < t[j].batch
    OBVIOUS
  <2>1. i \in Nat /\ j \in Nat /\ i + 1 < j + 1
    BY <1>2, <1>3
  <2> QED
    BY <1>3, <1>4, <2>1
<1>6. wire[1].type = "progress" => \A b \in Batches(t) : wire[1].batch < b
  <2> SUFFICES ASSUME wire[1].type = "progress", NEW b \in Batches(t) PROVE wire[1].batch < b
    OBVIOUS
  <2>1. PICK i \in Typing(t) : b = t[i].batch
    BY DEF Batches
  <2>2. 1 \in Typing(wire) /\ i + 1 \in Typing(wire) /\ 1 < i + 1 /\ b = wire[i + 1].batch
    BY <1>1, <1>2, <1>3, <2>1, FrameAt DEF Typing
  <2> QED
    BY <1>4, <2>2
<1>7. Batches(t) \subseteq Nat
  BY <1>2, FrameAt
<1>8. \A b \in Batches(t) : b <= work.typed /\ (b < work.typed => b + 1 \in Batches(t))
  <2> TAKE b \in Batches(t)
  <2>1. b \in Batches(wire) /\ b \in Nat
    BY <1>2, <1>7
  <2>2. wire[1].type = "progress" => wire[1].batch < b /\ wire[1].batch \in Nat
    BY <1>2, <1>6 DEF Frame
  <2>3. b < work.typed => b + 1 \in Batches(t)
    <3> SUFFICES ASSUME b < work.typed PROVE b + 1 \in Batches(t)
      OBVIOUS
    <3>1. b + 1 \in Batches(wire)
      BY <1>4, <2>1
    <3>2. wire[1].type = "progress" => b + 1 # wire[1].batch
      BY <2>1, <2>2
    <3> QED
      BY <1>2, <3>1, <3>2
  <2> QED
    BY <1>4, <2>1, <2>3
<1>9. \A i \in DOMAIN t : i \in 1..(Len(wire) - 1) /\ t[i] = wire[i + 1] /\ i + 1 \in DOMAIN wire
  <2>1. DOMAIN t = 1..(Len(wire) - 1) /\ DOMAIN wire = 1..Len(wire)
    BY <1>1, <1>2, FrameAt
  <2> QED
    BY <1>2, <2>1
<1> QED
  BY <1>2, <1>3, <1>5, <1>6, <1>7, <1>8, <1>9

\* A batch arrives: it is the next one, unless some were skipped.
LEMMA BatchJoins ==
  ASSUME PreviewInv, wire # <<>>, wire[1].type = "progress", tab.preview # <<>>
  PROVE  LastShown < wire[1].batch /\ (~skipped => wire[1].batch = LastShown + 1)
<1>1. /\ wire \in Seq(Frame) /\ tab.preview \in Seq(Nat) /\ WireSteady
  BY DEF PreviewInv, StreamTyped
<1>2. PICK t : t = Tail(wire)
  OBVIOUS
<1>3. /\ wire[1] \in Frame
      /\ Batches(wire) = Batches(t) \cup {wire[1].batch}
      /\ \A b \in Batches(t) : wire[1].batch < b /\ b \in Nat
  BY <1>2, RestSteady
<1>4. LastShown \in Nat /\ wire[1].batch \in Nat
  BY <1>1, <1>3, EmptySeq, LenProperties, ElementOfSeq DEF LastShown, Frame
<1>5. LastShown < wire[1].batch /\ (~skipped => LastShown + 1 \in Batches(wire))
  BY <1>1, <1>3 DEF WireSteady
<1>6. LastShown + 1 \notin Batches(t)
  BY <1>3, <1>4, <1>5
<1> QED
  BY <1>3, <1>5, <1>6

LEMMA HolesExtended ==
  ASSUME PreviewHasNoHoles, tab.preview \in Seq(Nat), NEW b \in Nat,
         tab'.preview = Append(tab.preview, b),
         tab.preview # <<>> => LastShown < b /\ (~skipped => b = LastShown + 1), skipped' = skipped
  PROVE  PreviewHasNoHoles' /\ tab'.preview \in Seq(Nat) /\ tab'.preview # <<>> /\ LastShown' = b
<1> DEFINE p == tab.preview
<1>1. PICK q : q = tab'.preview
  OBVIOUS
<1>2. /\ q \in Seq(Nat) /\ Len(q) = Len(p) + 1 /\ q[Len(p) + 1] = b /\ \A i \in 1..Len(p) : q[i] = p[i]
      /\ Len(p) \in Nat /\ q # <<>>
  <2>1. /\ q \in Seq(Nat) /\ Len(q) = Len(p) + 1 /\ q[Len(p) + 1] = b /\ \A i \in 1..Len(p) : q[i] = p[i]
        /\ Len(p) \in Nat
    BY <1>1, AppendProperties, LenProperties
  <2> QED
    BY <2>1, EmptySeq
<1>3. LastShown' = b
  BY <1>1, <1>2 DEF LastShown
<1>4. ASSUME NEW i \in 1..(Len(q) - 1) PROVE q[i] < q[i + 1] /\ (q[i + 1] = q[i] + 1 \/ skipped)
  <2>1. i \in 1..Len(p) /\ q[i] = p[i]
    BY <1>2
  <2>2. CASE i = Len(p)
    <3>1. p # <<>> /\ p[Len(p)] = LastShown
      BY <1>2, <2>1, EmptySeq DEF LastShown
    <3> QED
      BY <1>2, <2>1, <2>2, <3>1
  <2>3. CASE i # Len(p)
    <3>1. i \in 1..(Len(p) - 1) /\ i + 1 \in 1..Len(p)
      <4>1. PICK n : n = Len(p)
        OBVIOUS
      <4>2. n \in Nat /\ i \in 1..n /\ i # n
        BY <1>2, <2>1, <2>3, <4>1
      <4> QED
        BY <4>1, <4>2
    <3>2. q[i + 1] = p[i + 1]
      BY <1>2, <3>1
    <3> QED
      BY <2>1, <3>1, <3>2 DEF PreviewHasNoHoles
  <2> QED
    BY <2>2, <2>3
<1> QED
  BY <1>1, <1>2, <1>3, <1>4 DEF PreviewHasNoHoles

LEMMA DeliverKeeps ==
  ASSUME PreviewInv, Deliver
  PROVE  /\ Numbered' /\ WireSteady' /\ (Over \/ Current)' /\ PreviewHasNoHoles'
         /\ wire' \in Seq(Frame) /\ tab'.preview \in Seq(Nat)
<1> DEFINE e == wire[1]
<1>1. /\ StreamTyped /\ Numbered /\ WireSteady /\ PreviewHasNoHoles /\ wire \in Seq(Frame)
      /\ tab.preview \in Seq(Nat) /\ stream.at = "open" /\ wire # <<>>
      /\ UNCHANGED <<channel, work, skipped>> /\ work.typed \in Nat /\ Sent \in Nat
      /\ stream.lastId \in Nat
  BY StreamAssumption DEF PreviewInv, StreamTyped, Deliver, server, Sent
<1>2. PICK t : t = Tail(wire)
  OBVIOUS
<1>3. /\ t \in Seq(Frame) /\ e \in Frame /\ Head(wire) = e
      /\ Batches(t) \subseteq Nat
      /\ Batches(wire) = Batches(t) \cup (IF e.type = "progress" THEN {e.batch} ELSE {})
      /\ \A i, j \in Typing(t) : i < j => t[i].batch < t[j].batch
      /\ e.type = "progress" => \A b \in Batches(t) : e.batch < b
      /\ \A i \in Typing(t) : i + 1 \in Typing(wire) /\ t[i] = wire[i + 1]
      /\ \A b \in Batches(t) : b <= work.typed /\ (b < work.typed => b + 1 \in Batches(t))
      /\ \A i \in DOMAIN t : i \in 1..(Len(wire) - 1) /\ t[i] = wire[i + 1] /\ i + 1 \in DOMAIN wire
  BY <1>1, <1>2, RestSteady
<1>4. /\ tab'.preview = IF e.type = "progress" THEN Append(tab.preview, e.batch) ELSE tab.preview
      /\ e.type = "outcome" => stream' = Closed /\ wire' = <<>>
      /\ e.type # "outcome" => /\ stream' = [stream EXCEPT !.lastId = IF e.id = 0 THEN stream.lastId ELSE e.id]
                               /\ wire' = t
  BY <1>1, <1>2, <1>3 DEF Deliver, StreamTyped
<1> HIDE DEF e
<1>5. CASE e.type = "outcome"
  <2>1. /\ tab'.preview = tab.preview /\ wire' = <<>> /\ stream'.at = "none" /\ stream'.lastId = 0
    BY <1>4, <1>5 DEF Closed
  <2>2. <<>> \in Seq(Frame)
    BY EmptySeq
  <2> QED
    BY <1>1, <2>1, <2>2, CutKeeps
<1>6. CASE e.type # "outcome"
  <2> DEFINE id == IF e.id = 0 THEN stream.lastId ELSE e.id
  <2>1. wire' = t /\ stream'.lastId = id /\ stream'.at = "open" /\ Sent' = Sent
    BY <1>1, <1>4, <1>6 DEF StreamTyped, Sent
  <2>2. Numbered'
    BY <1>1, <2>1 DEF Numbered
  <2>3. CASE e.type = "progress"
    <3>1. tab'.preview = Append(tab.preview, e.batch) /\ e.batch \in Nat /\ e.id \in Nat
      BY <1>3, <1>4, <2>3 DEF Frame
    <3>2. tab.preview # <<>> => LastShown < e.batch /\ (~skipped => e.batch = LastShown + 1)
      BY <1>1, <2>3, BatchJoins DEF e
    <3>3. PreviewHasNoHoles' /\ tab'.preview \in Seq(Nat) /\ tab'.preview # <<>> /\ LastShown' = e.batch
      BY <1>1, <3>1, <3>2, HolesExtended
    <3>4. e.batch <= work.typed /\ (e.batch < work.typed => e.batch + 1 \in Batches(t))
      <4>1. e.batch \in Batches(wire)
        BY <1>3, <2>3
      <4>2. e.batch <= work.typed /\ (e.batch < work.typed => e.batch + 1 \in Batches(wire))
        BY <1>1, <4>1 DEF WireSteady
      <4> QED
        BY <1>3, <2>3, <3>1, <4>2
    <3>5. Batches(t) # {} => e.batch + 1 \in Batches(t)
      <4> SUFFICES ASSUME Batches(t) # {} PROVE e.batch + 1 \in Batches(t)
        OBVIOUS
      <4>1. PICK b \in Batches(t) : b \in Nat /\ e.batch < b /\ b <= work.typed
        BY <1>3, <2>3
      <4> QED
        BY <1>1, <3>1, <3>4, <4>1
    <3>6. WireSteady'
      <4>1. \A i, j \in Typing(wire') : i < j => wire'[i].batch < wire'[j].batch
        BY <1>3, <2>1
      <4>2. \A b \in Batches(wire') : b <= work'.typed /\ (b < work'.typed => b + 1 \in Batches(wire'))
        BY <1>1, <1>3, <2>1
      <4>3. /\ \A b \in Batches(wire') : LastShown' < b
            /\ Batches(wire') # {} => LastShown' + 1 \in Batches(wire')
        BY <1>3, <2>1, <2>3, <3>3, <3>5
      <4> QED
        BY <2>1, <4>1, <4>2, <4>3 DEF WireSteady, Typing, Batches
    <3>7. CASE Over
      <4>1. Over'
        BY <1>1, <3>7 DEF Over, Batches, Typing
      <4> QED
        BY <1>3, <2>1, <2>2, <3>3, <3>6, <4>1
    <3>8. CASE Current
      <4>1. PICK count \in [0..Sent -> 0..work.typed] : Counted(count)
        BY <3>8 DEF Current
      <4>2. IsCount(count)' /\ Counts(count, channel.history)'
        BY <1>1, <2>1, <4>1 DEF Counted, IsCount, Counts, Typing
      <4>3. 1 \in Typing(wire) /\ 1 \in DOMAIN wire
        <5>1. Len(wire) \in Nat /\ Len(wire) # 0 /\ DOMAIN wire = 1..Len(wire)
          BY <1>1, EmptySeq, FrameAt
        <5> QED
          BY <2>3, <5>1 DEF Typing, e
      <4>4. e.id \in 1..Sent /\ e.batch = count[e.id]
        BY <4>1, <4>3 DEF Counted, Counts, e
      <4>5. id = e.id /\ id \in 1..Sent
        BY <4>4
      <4>6. Counts(count, t)
        BY <1>3, <4>1 DEF Counted, Counts
      <4>7. \A i \in DOMAIN wire : wire[i].id # 0 =>
              /\ wire[i].id > stream.lastId /\ wire[i].id <= Sent
              /\ \A j \in DOMAIN wire : i < j /\ wire[j].id # 0 => wire[i].id < wire[j].id
        BY <4>1 DEF Counted
      <4>8. \A i \in DOMAIN t : t[i].id # 0 =>
              /\ t[i].id > id /\ t[i].id <= Sent
              /\ \A j \in DOMAIN t : i < j /\ t[j].id # 0 => t[i].id < t[j].id
        <5> SUFFICES ASSUME NEW i \in DOMAIN t, t[i].id # 0
                     PROVE  /\ t[i].id > id /\ t[i].id <= Sent
                            /\ \A j \in DOMAIN t : i < j /\ t[j].id # 0 => t[i].id < t[j].id
          OBVIOUS
        <5>1. i + 1 \in DOMAIN wire /\ t[i] = wire[i + 1] /\ 1 < i + 1 /\ t[i] \in Frame /\ t[i].id \in Nat
          <6>1. i + 1 \in DOMAIN wire /\ t[i] = wire[i + 1]
            BY <1>3
          <6>2. i \in 1..Len(t) /\ Len(t) \in Nat /\ t[i] \in Frame
            BY <1>3, FrameAt
          <6> QED
            BY <6>1, <6>2 DEF Frame
        <5>2. e.id < t[i].id /\ t[i].id <= Sent
          BY <4>3, <4>4, <4>7, <5>1 DEF e
        <5>3. ASSUME NEW j \in DOMAIN t, i < j, t[j].id # 0 PROVE t[i].id < t[j].id
          <6>1. j + 1 \in DOMAIN wire /\ t[j] = wire[j + 1] /\ i + 1 < j + 1
            BY <1>1, <1>3, <5>3, FrameAt
          <6> QED
            BY <4>7, <5>1, <5>3, <6>1
        <5> QED
          BY <1>1, <4>5, <5>1, <5>2, <5>3
      <4>9. Batches(t) = {} => e.batch = work.typed
        BY <1>1, <3>1, <3>4
      <4>10. Counted(count)'
        <5>1. Counts(count, wire)'
          BY <1>1, <2>1, <4>6 DEF Counts, Typing, Sent
        <5>2. stream'.lastId <= Sent'
          BY <1>1, <2>1, <4>5
        <5>3. \A k \in (Sent' - Len(channel'.history))..Sent' :
                count[k] < work'.typed => count[k] + 1 \in Batches(channel'.history)
          BY <1>1, <2>1, <4>1 DEF Counted
        <5>4. \A i \in DOMAIN wire' : wire'[i].id # 0 =>
                /\ wire'[i].id > stream'.lastId /\ wire'[i].id <= Sent'
                /\ \A j \in DOMAIN wire' : i < j /\ wire'[j].id # 0 => wire'[i].id < wire'[j].id
          BY <2>1, <4>8
        <5>5. LastShown' = count[stream'.lastId] /\ LastShown' <= count[stream'.lastId]
          BY <2>1, <3>1, <3>3, <4>4, <4>5
        <5>6. Batches(wire') = {} => LastShown' = work'.typed
          BY <1>1, <2>1, <3>3, <4>9
        <5> QED
          BY <4>2, <5>1, <5>2, <5>3, <5>4, <5>5, <5>6 DEF Counted, Batches, Typing
      <4>11. Current'
        BY <1>1, <2>1, <4>1, <4>10 DEF Current
      <4> QED
        BY <1>3, <2>1, <2>2, <3>3, <3>6, <4>11
    <3> QED
      BY <3>7, <3>8 DEF PreviewInv
  <2>4. CASE e.type # "progress"
    <3>1. tab'.preview = tab.preview /\ Batches(wire) = Batches(t) /\ e.id \in Nat
      BY <1>3, <1>4, <2>4 DEF Frame
    <3>2. LastShown' = LastShown
      BY <3>1 DEF LastShown
    <3>3. PreviewHasNoHoles'
      BY <1>1, <3>1 DEF PreviewHasNoHoles
    <3>4. WireSteady'
      <4>1. \A i, j \in Typing(wire') : i < j => wire'[i].batch < wire'[j].batch
        BY <1>3, <2>1
      <4>2. \A b \in Batches(wire') : b <= work'.typed /\ (b < work'.typed => b + 1 \in Batches(wire'))
        BY <1>1, <1>3, <2>1
      <4>3. tab'.preview # <<>> =>
              /\ \A b \in Batches(wire') : LastShown' < b
              /\ ~skipped' /\ Batches(wire') # {} => LastShown' + 1 \in Batches(wire')
        BY <1>1, <2>1, <3>1, <3>2 DEF WireSteady
      <4> QED
        BY <2>1, <4>1, <4>2, <4>3 DEF WireSteady, Typing, Batches
    <3>5. CASE Over
      <4>1. Over'
        BY <1>1, <3>5 DEF Over, Batches, Typing
      <4> QED
        BY <1>1, <1>3, <2>1, <2>2, <3>1, <3>3, <3>4, <4>1
    <3>6. CASE Current
      <4>1. PICK count \in [0..Sent -> 0..work.typed] : Counted(count)
        BY <3>6 DEF Current
      <4>2. IsCount(count)' /\ Counts(count, channel.history)'
        BY <1>1, <2>1, <4>1 DEF Counted, IsCount, Counts, Typing
      <4>3. 1 \in DOMAIN wire
        <5>1. Len(wire) \in Nat /\ Len(wire) # 0 /\ DOMAIN wire = 1..Len(wire)
          BY <1>1, EmptySeq, FrameAt
        <5> QED
          BY <5>1
      <4>4. \A i \in DOMAIN wire : wire[i].id # 0 =>
              /\ wire[i].id > stream.lastId /\ wire[i].id <= Sent
              /\ \A j \in DOMAIN wire : i < j /\ wire[j].id # 0 => wire[i].id < wire[j].id
        BY <4>1 DEF Counted
      <4>5. /\ stream.lastId \in 0..Sent /\ id \in 0..Sent /\ stream.lastId <= id
            /\ e.id # 0 => id = e.id
        <5>1. stream.lastId <= Sent
          BY <4>1 DEF Counted
        <5>2. e.id # 0 => e.id > stream.lastId /\ e.id <= Sent
          BY <4>3, <4>4 DEF e
        <5> QED
          BY <1>1, <3>1, <5>1, <5>2
      <4>6. Counts(count, t)
        BY <1>3, <4>1 DEF Counted, Counts
      <4>7. \A i \in DOMAIN t : t[i].id # 0 =>
              /\ t[i].id > id /\ t[i].id <= Sent
              /\ \A j \in DOMAIN t : i < j /\ t[j].id # 0 => t[i].id < t[j].id
        <5> SUFFICES ASSUME NEW i \in DOMAIN t, t[i].id # 0
                     PROVE  /\ t[i].id > id /\ t[i].id <= Sent
                            /\ \A j \in DOMAIN t : i < j /\ t[j].id # 0 => t[i].id < t[j].id
          OBVIOUS
        <5>1. i + 1 \in DOMAIN wire /\ t[i] = wire[i + 1] /\ 1 < i + 1 /\ t[i] \in Frame /\ t[i].id \in Nat
          <6>1. i + 1 \in DOMAIN wire /\ t[i] = wire[i + 1]
            BY <1>3
          <6>2. i \in 1..Len(t) /\ Len(t) \in Nat /\ t[i] \in Frame
            BY <1>3, FrameAt
          <6> QED
            BY <6>1, <6>2 DEF Frame
        <5>2. stream.lastId < t[i].id /\ t[i].id <= Sent /\ (e.id # 0 => e.id < t[i].id)
          BY <1>1, <4>3, <4>4, <5>1 DEF e
        <5>3. ASSUME NEW j \in DOMAIN t, i < j, t[j].id # 0 PROVE t[i].id < t[j].id
          <6>1. j + 1 \in DOMAIN wire /\ t[j] = wire[j + 1] /\ i + 1 < j + 1
            BY <1>1, <1>3, <5>3, FrameAt
          <6> QED
            BY <4>4, <5>1, <5>3, <6>1
        <5> QED
          BY <1>1, <3>1, <4>5, <5>1, <5>2, <5>3
      <4>8. ASSUME tab.preview # <<>>
            PROVE  /\ LastShown <= count[id] /\ (~skipped => LastShown = count[id])
                   /\ ~skipped /\ Batches(t) = {} => LastShown = work.typed
        <5>1. /\ LastShown <= count[stream.lastId] /\ (~skipped => LastShown = count[stream.lastId])
              /\ ~skipped /\ Batches(wire) = {} => LastShown = work.typed
          BY <1>1, <4>1, <4>8 DEF Counted
        <5>2. /\ count[stream.lastId] \in Nat /\ count[id] \in Nat /\ LastShown \in Nat
              /\ count[stream.lastId] <= count[id] /\ count[id] <= work.typed
          <6>1. count[stream.lastId] \in 0..work.typed /\ count[id] \in 0..work.typed
            BY <4>1, <4>5
          <6>2. count[stream.lastId] <= count[id]
            BY <4>1, <4>5 DEF Counted, IsCount
          <6>3. LastShown \in Nat
            BY <1>1, <4>8, EmptySeq, LenProperties, ElementOfSeq DEF LastShown
          <6> QED
            BY <1>1, <6>1, <6>2, <6>3
        <5>3. ASSUME ~skipped PROVE count[id] <= LastShown
          <6>1. CASE Batches(wire) = {}
            BY <5>1, <5>2, <5>3, <6>1
          <6>2. CASE Batches(wire) # {}
            <7>1. LastShown + 1 \in Batches(wire)
              BY <1>1, <4>8, <5>3, <6>2 DEF WireSteady
            <7>2. PICK i \in Typing(t) : t[i].batch = LastShown + 1
              BY <3>1, <7>1 DEF Batches
            <7>3. t[i].id \in 1..Sent /\ t[i].batch = count[t[i].id - 1] + 1 /\ i \in DOMAIN t
              BY <4>6 DEF Counts, Typing
            <7>4. t[i].id - 1 \in 0..Sent /\ id <= t[i].id - 1
              <8>1. t[i].id # 0 /\ t[i].id > id
                BY <1>1, <4>7, <7>3
              <8>2. PICK x : x = t[i].id
                OBVIOUS
              <8>3. x \in 1..Sent /\ x > id /\ id \in Nat
                BY <1>1, <4>5, <7>3, <8>1, <8>2
              <8> QED
                <9>1. Sent \in Nat
                  BY <1>1
                <9>2. x - 1 \in 0..Sent /\ id <= x - 1
                  BY <8>3, <9>1
                <9> QED
                  BY <8>2, <9>2
            <7>5. count[id] <= count[t[i].id - 1] /\ count[t[i].id - 1] \in 0..work.typed
              BY <4>1, <4>5, <7>4 DEF Counted, IsCount
            <7> QED
              BY <5>2, <7>2, <7>3, <7>5
          <6> QED
            BY <6>1, <6>2
        <5> QED
          BY <3>1, <5>1, <5>2, <5>3
      <4>9. Counted(count)'
        <5>1. Counts(count, wire)'
          BY <1>1, <2>1, <4>6 DEF Counts, Typing, Sent
        <5>2. stream'.lastId <= Sent'
          BY <1>1, <2>1, <4>5
        <5>3. \A k \in (Sent' - Len(channel'.history))..Sent' :
                count[k] < work'.typed => count[k] + 1 \in Batches(channel'.history)
          BY <1>1, <2>1, <4>1 DEF Counted
        <5>4. \A i \in DOMAIN wire' : wire'[i].id # 0 =>
                /\ wire'[i].id > stream'.lastId /\ wire'[i].id <= Sent'
                /\ \A j \in DOMAIN wire' : i < j /\ wire'[j].id # 0 => wire'[i].id < wire'[j].id
          BY <2>1, <4>7
        <5>5. tab'.preview # <<>> =>
                /\ LastShown' <= count[stream'.lastId]
                /\ ~skipped' => LastShown' = count[stream'.lastId]
                /\ ~skipped' /\ Batches(wire') = {} => LastShown' = work'.typed
          BY <1>1, <2>1, <3>1, <3>2, <4>8
        <5> QED
          BY <4>2, <5>1, <5>2, <5>3, <5>4, <5>5 DEF Counted, Batches, Typing
      <4>10. Current'
        BY <1>1, <2>1, <4>1, <4>9 DEF Current
      <4> QED
        BY <1>1, <1>3, <2>1, <2>2, <3>1, <3>3, <3>4, <4>10
    <3> QED
      BY <3>5, <3>6 DEF PreviewInv
  <2> QED
    BY <2>3, <2>4
<1> QED
  BY <1>5, <1>6

-----------------------------------------------------------------------------
\* ---- Every step keeps the preview's invariant

StatusEvent(s) == Event("status", s, 0)

LEMMA StatusTold ==
  ASSUME PreviewInv, NEW s \in {"running", "paused"}, SetStatus(s), Going,
         tab'.preview = tab.preview, skipped' = skipped, misled' = misled,
         tab' \in [phase : Statuses \cup {"loading"}, preview : Seq(Nat), request : {None, "pause", "resume"}],
         tab'.phase = tab.phase
  PROVE  PreviewInv'
<1> DEFINE e == StatusEvent(s)
<1>1. /\ StreamTyped /\ EndsLast /\ PreviewFresh /\ work.outcome = None
      /\ work' = [work EXCEPT !.status = s] /\ lateWrite' = s /\ jobs' = jobs /\ stream' = stream
      /\ Emit(Event("status", s, 0), wire)
  BY DEF PreviewInv, SetStatus, Going
<1>2. e \in Frame /\ e.type = "status" /\ Emit(e, wire)
  BY <1>1 DEF StatusEvent, Event, Frame, Statuses
<1> HIDE DEF e
<1>3. work' \in [status : Statuses, typed : 0..Ops, outcome : Terminal \cup {None}]
      /\ work'.typed = work.typed /\ work'.typed \in Nat /\ work'.outcome = None /\ work'.status \notin Terminal
  <2>1. /\ work \in [status : Statuses, typed : 0..Ops, outcome : Terminal \cup {None}]
        /\ s \in Statuses \ Terminal /\ Ops \in Nat
    BY <1>1, StreamAssumption DEF StreamTyped, Statuses, Terminal
  <2> HIDE DEF e
  <2> QED
    BY <1>1, <2>1
<1>4. TypesBy(e)
  BY <1>2, <1>3 DEF TypesBy
<1>5. /\ Numbered' /\ WireSteady' /\ (Over \/ Current)' /\ PreviewHasNoHoles'
      /\ wire' \in Seq(Frame)
      /\ channel' \in [exists : BOOLEAN, history : Seq(Frame), nextId : Nat \ {0}, ended : BOOLEAN]
  BY <1>1, <1>2, <1>3, <1>4, TellingKeeps
<1>8. channel'.ended = channel.ended
  <2>1. e.type # "outcome" /\ Numbered
    BY <1>2, <1>3 DEF PreviewInv
  <2>2. channel'.ended = (channel.ended \/ e.type = "outcome")
    BY <1>1, <1>2, <1>3, <2>1, EmitHistory
  <2>3. channel.ended \in BOOLEAN
    BY <1>1 DEF StreamTyped
  <2> QED
    BY <2>1, <2>2, <2>3
<1>6. StreamTyped'
  BY <1>1, <1>3, <1>5 DEF StreamTyped, Statuses
<1>7. EndsLast' /\ PreviewFresh'
  BY <1>1, <1>3, <1>5, <1>8 DEF EndsLast, PreviewFresh
<1> QED
  BY <1>5, <1>6, <1>7 DEF PreviewInv

LEMMA BatchTold == ASSUME PreviewInv, TypeBatch PROVE PreviewInv'
<1> DEFINE e == Event("progress", work.status, work'.typed)
<1>1. /\ StreamTyped /\ EndsLast /\ PreviewFresh /\ work.outcome = None /\ work.typed < Ops
      /\ work' = [work EXCEPT !.typed = @ + 1] /\ Emit(e, wire)
      /\ UNCHANGED <<jobs, lateWrite, stream, tab, skipped, misled>>
  BY DEF PreviewInv, TypeBatch, Going, browser, marks
<1>2. /\ work' \in [status : Statuses, typed : 0..Ops, outcome : Terminal \cup {None}]
      /\ work'.typed = work.typed + 1 /\ work'.typed \in Nat /\ work'.outcome = work.outcome
      /\ work'.status = work.status
  <2>1. /\ work \in [status : Statuses, typed : 0..Ops, outcome : Terminal \cup {None}]
        /\ work.typed \in 0..Ops /\ Ops \in Nat
    BY <1>1, StreamAssumption DEF StreamTyped
  <2>2. work.typed + 1 \in 0..Ops /\ work.typed + 1 \in Nat
    BY <1>1, <2>1
  <2> QED
    BY <1>1, <2>1, <2>2
<1>3. e \in Frame /\ e.type = "progress" /\ e.batch = work.typed + 1
  BY <1>1, <1>2 DEF Event, Frame, StreamTyped
<1> HIDE DEF e
<1>4. TypesBy(e)
  BY <1>2, <1>3 DEF TypesBy
<1>5. /\ Numbered' /\ WireSteady' /\ (Over \/ Current)' /\ PreviewHasNoHoles'
      /\ wire' \in Seq(Frame)
      /\ channel' \in [exists : BOOLEAN, history : Seq(Frame), nextId : Nat \ {0}, ended : BOOLEAN]
  BY <1>1, <1>2, <1>3, <1>4, TellingKeeps
<1>8. channel'.ended = channel.ended
  <2>1. e.type # "outcome" /\ Numbered
    BY <1>2, <1>3 DEF PreviewInv
  <2>2. channel'.ended = (channel.ended \/ e.type = "outcome")
    BY <1>1, <1>2, <1>3, <2>1, EmitHistory
  <2>3. channel.ended \in BOOLEAN
    BY <1>1 DEF StreamTyped
  <2> QED
    BY <2>1, <2>2, <2>3
<1>6. StreamTyped'
  BY <1>1, <1>2, <1>5 DEF StreamTyped
<1>7. EndsLast' /\ PreviewFresh'
  BY <1>1, <1>2, <1>5, <1>8 DEF EndsLast, PreviewFresh
<1> QED
  BY <1>5, <1>6, <1>7 DEF PreviewInv

LEMMA OutcomeTold == ASSUME PreviewInv, AnnounceOutcome PROVE PreviewInv'
<1> DEFINE e == Event("outcome", work.outcome, 0)
<1>1. /\ StreamTyped /\ EndsLast /\ PreviewFresh /\ work.outcome # None
      /\ work' = [work EXCEPT !.status = work.outcome] /\ Emit(e, wire)
      /\ UNCHANGED <<jobs, lateWrite, stream, tab, skipped, misled>>
  BY DEF PreviewInv, AnnounceOutcome, browser, marks
<1>2. /\ work' \in [status : Statuses, typed : 0..Ops, outcome : Terminal \cup {None}]
      /\ work'.typed = work.typed /\ work'.typed \in Nat /\ work'.outcome = work.outcome
  <2>1. /\ work \in [status : Statuses, typed : 0..Ops, outcome : Terminal \cup {None}]
        /\ work.outcome \in Statuses
    BY <1>1 DEF StreamTyped, Statuses
  <2>2. work.typed \in Nat
    BY <2>1, StreamAssumption
  <2> QED
    BY <1>1, <2>1, <2>2
<1>3. e \in Frame /\ e.type = "outcome"
  BY <1>1 DEF Event, Frame, StreamTyped, Statuses
<1> HIDE DEF e
<1>4. TypesBy(e)
  BY <1>2, <1>3 DEF TypesBy
<1>5. /\ Numbered' /\ WireSteady' /\ (Over \/ Current)' /\ PreviewHasNoHoles'
      /\ wire' \in Seq(Frame)
      /\ channel' \in [exists : BOOLEAN, history : Seq(Frame), nextId : Nat \ {0}, ended : BOOLEAN]
  BY <1>1, <1>2, <1>3, <1>4, TellingKeeps
<1>6. StreamTyped'
  BY <1>1, <1>2, <1>5 DEF StreamTyped
<1>7. EndsLast' /\ PreviewFresh'
  BY <1>1, <1>2, <1>5 DEF EndsLast, PreviewFresh
<1> QED
  BY <1>5, <1>6, <1>7 DEF PreviewInv

\* The steps at which nothing is sent and nothing arrives
Still ==
  \/ RowCatchesUp \/ FinishJob \/ FindRow \/ Attach \/ Reconnect
  \/ ClickPause \/ ClickResume \/ PauseRefused \/ ResumeRefused
  \/ UNCHANGED streamvars

LEMMA StillKeeps == ASSUME PreviewInv, Still PROVE PreviewInv'
<1>1. StreamTyped /\ EndsLast /\ PreviewFresh
  BY DEF PreviewInv
<1>2. CASE RowCatchesUp
  <2>1. /\ jobs' = lateWrite /\ lateWrite' = None /\ lateWrite # None
        /\ UNCHANGED <<work, channel, stream, tab, wire, skipped, misled>>
    BY <1>2 DEF RowCatchesUp, browser, marks
  <2>2. StreamTyped'
    BY <1>1, <2>1 DEF StreamTyped, Statuses
  <2>3. EndsLast' /\ PreviewFresh'
    BY <1>1, <2>1 DEF StreamTyped, EndsLast, PreviewFresh, Terminal
  <2> QED
    BY <2>1, <2>2, <2>3, QuietKeeps DEF PreviewInv
<1>3. CASE FinishJob
  <2>1. PICK outcome \in Terminal : work' = [work EXCEPT !.outcome = outcome] /\ jobs' = outcome
    BY <1>3 DEF FinishJob
  <2>2. UNCHANGED <<lateWrite, channel, stream, tab, wire, skipped, misled>>
    BY <1>3 DEF FinishJob, browser, marks
  <2>3. /\ work' \in [status : Statuses, typed : 0..Ops, outcome : Terminal \cup {None}]
        /\ work'.typed = work.typed /\ work'.outcome = outcome /\ outcome # None
    BY <1>1, <2>1 DEF StreamTyped, Terminal, None
  <2>4. StreamTyped'
    BY <1>1, <2>1, <2>2, <2>3 DEF StreamTyped, Statuses
  <2>5. EndsLast' /\ PreviewFresh'
    BY <1>1, <2>2, <2>3 DEF EndsLast, PreviewFresh
  <2> QED
    BY <2>2, <2>3, <2>4, <2>5, QuietKeeps DEF PreviewInv
<1>4. CASE FindRow \/ Attach \/ Reconnect
  <2>1. UNCHANGED <<work, jobs, lateWrite, channel, wire, tab, skipped, misled>>
    BY <1>4 DEF FindRow, Attach, Reconnect, server, marks
  <2>2. /\ stream' \in [at : {"none", "new", "asking", "found", "open", "dropped"}, lastId : Nat,
                        row : Statuses \cup {None}]
        /\ stream'.at = "found" => stream'.row \in Statuses
        /\ stream'.lastId = stream.lastId /\ stream'.at \notin {"none", "new", "open"}
        /\ stream.at \notin {"none", "open"}
        /\ stream'.row \in {stream.row, jobs, None}
    <3>1. CASE FindRow
      BY <1>1, <3>1 DEF FindRow, StreamTyped
    <3>2. CASE Attach
      BY <1>1, <3>2 DEF Attach, Closed, StreamTyped, PreviewFresh
    <3>3. CASE Reconnect
      BY <1>1, <3>3 DEF Reconnect, StreamTyped
    <3> QED
      BY <1>4, <3>1, <3>2, <3>3
  <2>3. StreamTyped'
    BY <1>1, <2>1, <2>2 DEF StreamTyped
  <2>4. EndsLast'
    BY <1>1, <2>1, <2>2 DEF EndsLast, Terminal, None
  <2>5. PreviewFresh'
    BY <1>1, <2>1, <2>2 DEF PreviewFresh
  <2> QED
    BY <2>1, <2>2, <2>3, <2>4, <2>5, QuietKeeps DEF PreviewInv
<1>5. CASE ClickPause \/ ClickResume \/ PauseRefused \/ ResumeRefused
  <2>1. UNCHANGED <<work, jobs, lateWrite, channel, stream, wire, skipped, misled>>
    BY <1>5 DEF ClickPause, ClickResume, PauseRefused, ResumeRefused, server, marks
  <2>2. /\ tab' \in [phase : Statuses \cup {"loading"}, preview : Seq(Nat), request : {None, "pause", "resume"}]
        /\ tab'.preview = tab.preview /\ tab'.phase \in {"running", "paused"}
    <3>1. CASE ClickPause
      BY <1>1, <3>1 DEF ClickPause, StreamTyped, Statuses
    <3>2. CASE ClickResume
      BY <1>1, <3>2 DEF ClickResume, StreamTyped, Statuses
    <3>3. CASE PauseRefused
      BY <1>1, <3>3 DEF PauseRefused, StreamTyped, Statuses
    <3>4. CASE ResumeRefused
      BY <1>1, <3>4 DEF ResumeRefused, StreamTyped, Statuses
    <3> QED
      BY <1>5, <3>1, <3>2, <3>3, <3>4
  <2>3. StreamTyped'
    BY <1>1, <2>1, <2>2 DEF StreamTyped
  <2>4. EndsLast' /\ PreviewFresh'
    BY <1>1, <2>1, <2>2 DEF EndsLast, PreviewFresh
  <2> QED
    BY <2>1, <2>2, <2>3, <2>4, QuietKeeps DEF PreviewInv
<1>6. CASE UNCHANGED streamvars
  <2>1. UNCHANGED <<work, jobs, lateWrite, channel, stream, wire, tab, skipped, misled>>
    BY <1>6 DEF streamvars
  <2>2. StreamTyped' /\ EndsLast' /\ PreviewFresh'
    BY <1>1, <2>1 DEF StreamTyped, EndsLast, PreviewFresh
  <2> QED
    BY <2>1, <2>2, QuietKeeps DEF PreviewInv
<1> QED
  BY <1>2, <1>3, <1>4, <1>5, <1>6 DEF Still

\* The steps that cut the stream
LEMMA CutsKeep ==
  ASSUME PreviewInv, DropConnection \/ ReloadPage \/ CheckJob \/ RestartServer \/ ReapChannel
  PROVE  PreviewInv'
<1>1. StreamTyped /\ EndsLast /\ PreviewFresh /\ Numbered /\ WireSteady /\ PreviewHasNoHoles /\ work.typed \in Nat
  BY StreamAssumption DEF PreviewInv, StreamTyped
<1>2. <<>> \in Seq(Frame) /\ <<>> \in Seq(Nat)
  BY EmptySeq
<1>3. /\ Lost \in [at : {"none", "new", "asking", "found", "open", "dropped"}, lastId : Nat,
                   row : Statuses \cup {None}]
      /\ Lost.lastId = stream.lastId /\ Lost.row = None
      /\ Lost.at = IF stream.at \in {"none", "new"} THEN stream.at ELSE "dropped"
  BY <1>1 DEF Lost, StreamTyped
<1>4. CASE DropConnection
  <2>1. /\ UNCHANGED <<work, jobs, lateWrite, channel, tab, skipped, misled>>
        /\ stream' = Lost /\ wire' = <<>> /\ stream.at \in {"asking", "found", "open"}
    BY <1>4 DEF DropConnection, server, marks
  <2>2. StreamTyped'
    BY <1>1, <1>2, <1>3, <2>1 DEF StreamTyped
  <2>3. EndsLast' /\ PreviewFresh'
    BY <1>1, <1>3, <2>1 DEF EndsLast, PreviewFresh, Terminal, None
  <2>4. stream'.lastId = stream.lastId /\ stream'.at # "open" /\ stream.at # "none"
    BY <1>3, <2>1
  <2> QED
    BY <2>1, <2>2, <2>3, <2>4, CutKeeps DEF PreviewInv
<1>5. CASE ReloadPage
  <2>1. /\ UNCHANGED <<work, jobs, lateWrite, channel, skipped, misled>>
        /\ stream' = Closed /\ wire' = <<>>
        /\ tab' = [phase |-> "loading", preview |-> <<>>, request |-> None]
    BY <1>5 DEF ReloadPage, server, marks
  <2>2. StreamTyped'
    BY <1>1, <1>2, <2>1 DEF StreamTyped, Closed
  <2>3. EndsLast' /\ PreviewFresh'
    BY <1>1, <2>1 DEF EndsLast, PreviewFresh, Closed, Terminal, None
  <2>4. tab'.preview = <<>> /\ stream'.lastId = 0 /\ stream'.at # "open"
    BY <2>1 DEF Closed
  <2> QED
    BY <2>1, <2>2, <2>3, <2>4, CutKeeps DEF PreviewInv
<1>6. CASE CheckJob
  <2>1. /\ UNCHANGED <<work, jobs, lateWrite, channel, wire, skipped>> /\ misled' = (jobs # work.status)
        /\ tab' = [tab EXCEPT !.phase = jobs] /\ tab.phase = "loading"
        /\ stream' = IF jobs \in Terminal THEN Closed ELSE [Closed EXCEPT !.at = "new"]
    BY <1>6 DEF CheckJob, server
  <2>2. stream.at = "none" /\ wire = <<>> /\ tab.preview = <<>>
    BY <1>1, <2>1 DEF PreviewFresh, WireSteady
  <2>3. /\ stream' \in [at : {"none", "new", "asking", "found", "open", "dropped"}, lastId : Nat,
                        row : Statuses \cup {None}]
        /\ stream'.at \in {"none", "new"} /\ stream'.lastId = 0 /\ stream'.row = None
    BY <2>1 DEF Closed
  <2>4. /\ tab' \in [phase : Statuses \cup {"loading"}, preview : Seq(Nat), request : {None, "pause", "resume"}]
        /\ tab'.preview = <<>> /\ tab'.phase \in Statuses
    BY <1>1, <2>1, <2>2 DEF StreamTyped
  <2>5. StreamTyped'
    BY <1>1, <2>1, <2>3, <2>4 DEF StreamTyped
  <2>6. EndsLast' /\ PreviewFresh'
    BY <1>1, <2>1, <2>3, <2>4 DEF EndsLast, PreviewFresh, Terminal, None, Statuses
  <2> QED
    BY <2>1, <2>2, <2>3, <2>4, <2>5, <2>6, CutKeeps DEF PreviewInv
<1>7. CASE RestartServer \/ ReapChannel
  <2>1. /\ channel' = NoChannel /\ UNCHANGED <<tab, skipped, misled>>
        /\ work' \in [status : Statuses, typed : 0..Ops, outcome : Terminal \cup {None}]
        /\ work'.typed = work.typed /\ work'.outcome # None
        /\ jobs' \in Statuses /\ lateWrite' \in {None, lateWrite}
        /\ \/ stream' = Lost /\ wire' = <<>>
           \/ stream' = stream /\ wire' = wire
    <3>1. CASE RestartServer
      <4>1. jobs' \in Terminal /\ work' = [work EXCEPT !.status = jobs', !.outcome = jobs']
        BY <3>1 DEF RestartServer, Terminal
      <4> QED
        BY <1>1, <3>1, <4>1 DEF RestartServer, StreamTyped, Statuses, Terminal, None, marks
    <3>2. CASE ReapChannel
      BY <1>1, <3>2 DEF ReapChannel, StreamTyped, EndsLast, browser, marks
    <3> QED
      BY <1>7, <3>1, <3>2
  <2>2. /\ channel' \in [exists : BOOLEAN, history : Seq(Frame), nextId : Nat \ {0}, ended : BOOLEAN]
        /\ channel'.history = <<>> /\ Sent' = 0 /\ ~channel'.ended
    BY <1>2, <2>1 DEF NoChannel, Sent
  <2>3. StreamTyped'
    BY <1>1, <1>2, <1>3, <2>1, <2>2 DEF StreamTyped
  <2>4. Numbered'
    <3>1. Len(channel'.history) = 0 /\ DOMAIN channel'.history = {}
      BY <2>2, EmptySeq
    <3> QED
      BY <2>1, <2>2, <3>1, StreamAssumption DEF Numbered
  <2>5. EndsLast'
    BY <2>1 DEF EndsLast
  <2>6. PreviewFresh'
    BY <1>1, <1>3, <2>1 DEF PreviewFresh
  <2>7. LastShown' = LastShown /\ PreviewHasNoHoles'
    BY <1>1, <2>1 DEF LastShown, PreviewHasNoHoles
  <2>8. WireSteady'
    <3>1. CASE wire' = wire /\ stream' = stream
      BY <1>1, <2>1, <2>7, <3>1 DEF WireSteady, Batches, Typing
    <3>2. CASE wire' = <<>>
      <4>1. Batches(wire') = {} /\ Typing(wire') = {}
        BY <3>2 DEF Batches, Typing
      <4> QED
        BY <3>2, <4>1 DEF WireSteady, Batches, Typing
    <3> QED
      BY <2>1, <3>1, <3>2
  <2>9. Over'
    BY <2>1, <2>2 DEF Over, Batches, Typing
  <2> QED
    BY <2>3, <2>4, <2>5, <2>6, <2>7, <2>8, <2>9 DEF PreviewInv
<1> QED
  BY <1>4, <1>5, <1>6, <1>7

LEMMA DoneKeeps == ASSUME PreviewInv, PauseDone \/ ResumeDone PROVE PreviewInv'
<1>1. StreamTyped /\ EndsLast /\ PreviewFresh
  BY DEF PreviewInv
<1>2. /\ tab' = [tab EXCEPT !.request = None] /\ Going /\ skipped' = skipped /\ misled' = misled
      /\ \/ SetStatus("paused") \/ SetStatus("running")
         \/ UNCHANGED <<work, jobs, lateWrite, channel, stream, wire>>
  BY DEF PauseDone, ResumeDone, server, marks
<1>3. /\ tab' \in [phase : Statuses \cup {"loading"}, preview : Seq(Nat), request : {None, "pause", "resume"}]
      /\ tab'.preview = tab.preview /\ tab'.phase = tab.phase
  BY <1>1, <1>2 DEF StreamTyped
<1>4. CASE SetStatus("paused") \/ SetStatus("running")
  BY <1>2, <1>3, <1>4, StatusTold
<1>5. CASE UNCHANGED <<work, jobs, lateWrite, channel, stream, wire>>
  <2>1. StreamTyped' /\ EndsLast' /\ PreviewFresh'
    BY <1>1, <1>2, <1>3, <1>5 DEF StreamTyped, EndsLast, PreviewFresh
  <2> QED
    BY <1>2, <1>3, <1>5, <2>1, QuietKeeps DEF PreviewInv
<1> QED
  BY <1>2, <1>4, <1>5

LEMMA ArrivalKeeps == ASSUME PreviewInv, BatchesNumbered, Subscribe \/ Deliver PROVE PreviewInv'
<1>1. StreamTyped /\ EndsLast /\ PreviewFresh
  BY DEF PreviewInv
<1>2. CASE Subscribe
  <2>1. /\ UNCHANGED <<work, jobs, lateWrite, tab>> /\ stream.at = "found"
        /\ stream' = [stream EXCEPT !.at = "open", !.row = None]
        /\ misled' = Misleads
        /\ skipped' = (skipped \/ (stream.lastId # 0 /\ Replayed # <<>> /\ Head(Replayed).id > stream.lastId + 1))
    BY <1>2 DEF Subscribe
  <2>2. /\ Numbered' /\ WireSteady' /\ (Over \/ Current)' /\ PreviewHasNoHoles'
        /\ wire' \in Seq(Frame)
        /\ channel' \in [exists : BOOLEAN, history : Seq(Frame), nextId : Nat \ {0}, ended : BOOLEAN]
    BY <1>2, SubscribeKeeps
  <2>3. /\ stream' \in [at : {"none", "new", "asking", "found", "open", "dropped"}, lastId : Nat,
                        row : Statuses \cup {None}]
        /\ stream'.at = "open" /\ stream'.lastId = stream.lastId /\ stream'.row = None
    BY <1>1, <2>1 DEF StreamTyped
  <2>4. misled' \in BOOLEAN /\ skipped' \in BOOLEAN
    BY <1>1, <2>1 DEF Misleads, StreamTyped
  <2>5. StreamTyped'
    BY <1>1, <2>1, <2>2, <2>3, <2>4 DEF StreamTyped
  <2>6. channel'.ended => channel.ended \/ stream.row \in Terminal
    <3>1. CASE OutcomeOwed
      BY <3>1 DEF OutcomeOwed
    <3>2. CASE ~OutcomeOwed
      BY <1>1, <1>2, <3>2 DEF Subscribe, StreamTyped
    <3> QED
      BY <3>1, <3>2
  <2>7. EndsLast'
    BY <1>1, <2>1, <2>3, <2>6 DEF EndsLast, Terminal, None
  <2>8. PreviewFresh'
    BY <1>1, <2>1, <2>3 DEF PreviewFresh
  <2> QED
    BY <2>2, <2>5, <2>7, <2>8 DEF PreviewInv
<1>3. CASE Deliver
  <2> DEFINE e == Head(wire)
  <2>1. /\ UNCHANGED <<work, jobs, lateWrite, channel, skipped>> /\ stream.at = "open" /\ wire # <<>>
        /\ tab'.preview # tab.preview => e.type = "progress"
        /\ tab' = [tab EXCEPT !.phase = PhaseAfter(e),
                              !.preview = IF e.type = "progress" THEN Append(@, e.batch) ELSE @]
        /\ \/ stream' = Closed /\ e.type = "outcome"
           \/ /\ e.type # "outcome"
              /\ stream' = [stream EXCEPT !.lastId = IF e.id = 0 THEN stream.lastId ELSE e.id]
        /\ misled' = (misled /\ (PhaseAfter(e) # e.status
                                   \/ \E i \in DOMAIN wire : wire[i].type = "snapshot"))
    BY <1>1, <1>3 DEF Deliver, server, StreamTyped
  <2>2. /\ Numbered' /\ WireSteady' /\ (Over \/ Current)' /\ PreviewHasNoHoles'
        /\ wire' \in Seq(Frame) /\ tab'.preview \in Seq(Nat)
    BY <1>3, DeliverKeeps
  <2>3. e \in Frame
    BY <1>1, <2>1, TailFrames DEF StreamTyped
  <2> HIDE DEF e
  <2>4. PhaseAfter(e) \in Statuses
    <3>1. tab.phase # "loading"
      BY <1>1, <2>1 DEF PreviewFresh
    <3> QED
      BY <1>1, <2>3, <3>1 DEF PhaseAfter, StreamTyped, Frame
  <2>5. /\ tab' \in [phase : Statuses \cup {"loading"}, preview : Seq(Nat), request : {None, "pause", "resume"}]
        /\ tab'.phase \in Statuses
    BY <1>1, <2>1, <2>2, <2>4 DEF StreamTyped
  <2>6. /\ stream' \in [at : {"none", "new", "asking", "found", "open", "dropped"}, lastId : Nat,
                        row : Statuses \cup {None}]
        /\ stream'.at \in {"none", "open"} /\ stream'.row \in {None, stream.row}
    BY <1>1, <2>1, <2>3 DEF StreamTyped, Closed, Frame
  <2>7. stream'.at # "none" /\ stream'.lastId = 0 => tab'.preview = <<>>
    <3> SUFFICES ASSUME stream'.at # "none", stream'.lastId = 0 PROVE tab'.preview = <<>>
      OBVIOUS
    <3>1. stream' = [stream EXCEPT !.lastId = IF e.id = 0 THEN stream.lastId ELSE e.id]
      BY <2>1 DEF Closed
    <3>2. stream.lastId = 0 /\ e.id = 0
      BY <1>1, <2>3, <3>1 DEF StreamTyped, Frame
    <3>3. tab.preview = <<>>
      BY <1>1, <2>1, <3>2 DEF PreviewFresh
    <3>4. CASE e.type = "progress"
      <4>1. 1 \in Typing(wire) /\ wire[1] = e
        BY <1>1, <2>1, <3>4, TailFrames, FrameAt DEF Typing, e, StreamTyped
      <4>2. e.id # 0
        BY <4>1 DEF BatchesNumbered
      <4> QED
        BY <3>2, <4>2
    <3>5. CASE e.type # "progress"
      BY <1>1, <2>1, <3>3, <3>5 DEF StreamTyped
    <3> QED
      BY <3>4, <3>5
  <2>8. StreamTyped'
    BY <1>1, <2>1, <2>2, <2>5, <2>6 DEF StreamTyped
  <2>9. EndsLast'
    BY <1>1, <2>1, <2>6 DEF EndsLast, Terminal, None
  <2>10. PreviewFresh'
    BY <1>1, <2>5, <2>6, <2>7 DEF PreviewFresh, Statuses, Terminal
  <2> QED
    BY <2>2, <2>8, <2>9, <2>10 DEF PreviewInv
<1> QED
  BY <1>2, <1>3

\* What a step does to the wire: it is left alone or cut, or one event is sent on it,
\* or the tab takes a frame, or the tab is let in.
LEMMA WhatIsSent ==
  ASSUME StreamTyped, [StreamNext]_streamvars
  PROVE  wire' = wire \/ wire' = <<>> \/ Deliver \/ Subscribe \/ \E e \in Frame : Emit(e, wire)
<1>1. ASSUME NEW s \in {"running", "paused"}, SetStatus(s) PROVE \E e \in Frame : Emit(e, wire)
  <2>1. Event("status", s, 0) \in Frame
    BY DEF Event, Frame, Statuses
  <2> QED
    BY <1>1, <2>1 DEF SetStatus
<1>2. CASE Pause \/ Resume \/ PauseDone \/ ResumeDone
  <2>1. SetStatus("paused") \/ SetStatus("running") \/ wire' = wire
    BY <1>2 DEF Pause, Resume, PauseDone, ResumeDone
  <2> QED
    BY <1>1, <2>1
<1>3. CASE TypeBatch
  <2>1. Emit(Event("progress", work.status, work'.typed), wire) /\ work' = [work EXCEPT !.typed = @ + 1]
    BY <1>3 DEF TypeBatch
  <2>2. work'.typed \in Nat /\ work.status \in Statuses
    <3>1. work.typed \in Nat
      BY StreamAssumption DEF StreamTyped
    <3> QED
      BY <2>1, <3>1 DEF StreamTyped
  <2>3. Event("progress", work.status, work'.typed) \in Frame
    BY <2>2 DEF Event, Frame
  <2> QED
    BY <2>1, <2>3
<1>4. CASE AnnounceOutcome
  <2>1. Emit(Event("outcome", work.outcome, 0), wire) /\ work.outcome # None
    BY <1>4 DEF AnnounceOutcome
  <2>2. Event("outcome", work.outcome, 0) \in Frame
    BY <2>1 DEF Event, Frame, StreamTyped, Statuses
  <2> QED
    BY <2>1, <2>2
<1>5. CASE RowCatchesUp \/ FinishJob \/ FindRow \/ Attach \/ Reconnect \/ CheckJob \/ PauseRefused
             \/ ResumeRefused \/ ReapChannel \/ RestartServer \/ DropConnection \/ ReloadPage
             \/ ClickPause \/ ClickResume
  BY <1>5 DEF RowCatchesUp, FinishJob, FindRow, Attach, Reconnect, CheckJob, PauseRefused,
     ResumeRefused, ReapChannel, RestartServer, DropConnection, ReloadPage, ClickPause, ClickResume
<1>6. CASE UNCHANGED streamvars
  BY <1>6 DEF streamvars
<1> QED
  BY <1>2, <1>3, <1>4, <1>5, <1>6 DEF StreamNext, ServerStep, TabStep

LEMMA NumberedAppended ==
  ASSUME NEW s \in Seq(Frame), NEW e \in Frame, e.type = "progress" => e.id # 0,
         \A i \in Typing(s) : s[i].id # 0, NEW t, t = Append(s, e)
  PROVE  \A i \in Typing(t) : t[i].id # 0
<1>1. /\ t \in Seq(Frame) /\ Len(t) = Len(s) + 1 /\ t[Len(s) + 1] = e
      /\ \A i \in 1..Len(s) : t[i] = s[i]
  BY FrameAppended
<1>2. Typing(t) = Typing(s) \cup (IF e.type = "progress" THEN {Len(s) + 1} ELSE {})
  BY BatchesAppended
<1>3. Typing(s) \subseteq 1..Len(s)
  BY FrameAt
<1> QED
  BY <1>1, <1>2, <1>3

LEMMA BatchesStayNumbered == ASSUME PreviewInv, BatchesNumbered, [StreamNext]_streamvars PROVE BatchesNumbered'
<1>1. StreamTyped /\ Numbered /\ wire \in Seq(Frame) /\ channel.history \in Seq(Frame) /\ Sent \in Nat
  BY DEF PreviewInv, StreamTyped, Sent
<1>2. \/ wire' = wire \/ wire' = <<>> \/ Deliver \/ Subscribe
      \/ \E e \in Frame : Emit(e, wire)
  BY <1>1, WhatIsSent
<1>3. CASE wire' = wire \/ wire' = <<>>
  BY <1>3 DEF BatchesNumbered, Typing
<1>4. CASE Deliver
  <2>1. wire # <<>> /\ (wire' = <<>> \/ wire' = Tail(wire))
    BY <1>4 DEF Deliver
  <2>2. \A i \in Typing(Tail(wire)) : i + 1 \in Typing(wire) /\ Tail(wire)[i] = wire[i + 1]
    BY <2>1, RestSteady
  <2> QED
    BY <2>1, <2>2 DEF BatchesNumbered, Typing
<1>5. CASE \E e \in Frame : Emit(e, wire)
  <2>1. PICK e \in Frame : Emit(e, wire)
    BY <1>5
  <2>2. PICK s : s = Stored(e)
    OBVIOUS
  <2>3. s \in Frame /\ s.id = Sent + 1
    BY <1>1, <2>1, <2>2, EmitHistory
  <2>4. s.id # 0
    BY <1>1, <2>3
  <2>5. wire' = Append(wire, s) \/ wire' = wire
    BY <2>1, <2>2 DEF Emit, Stored
  <2>6. CASE wire' = Append(wire, s)
    BY <1>1, <2>3, <2>4, <2>6, NumberedAppended DEF BatchesNumbered
  <2>7. CASE wire' = wire
    BY <2>7 DEF BatchesNumbered, Typing
  <2> QED
    BY <2>5, <2>6, <2>7
<1>6. CASE Subscribe
  <2>1. Replayed \in Seq(Frame) /\ \A i \in Typing(Replayed) : Replayed[i].id # 0
    <3>1. Replayed \in Seq(Frame) /\ (Replayed = <<>> \/ Replayed = Missed)
      BY <1>1, ReplayedFrames
    <3>2. PICK g \in 0..Len(channel.history) :
             /\ Missed \in Seq(Frame) /\ Len(Missed) = Len(channel.history) - g
             /\ \A i \in 1..(Len(channel.history) - g) : Missed[i] = channel.history[i + g]
      BY <1>1, MissedIsEnd
    <3>3. ASSUME NEW i \in Typing(Missed) PROVE Missed[i].id # 0
      <4>1. /\ Len(channel.history) \in Nat /\ DOMAIN channel.history = 1..Len(channel.history)
            /\ i \in 1..Len(Missed)
        BY <1>1, <3>2, FrameAt
      <4>2. i + g \in 1..Len(channel.history)
        BY <3>2, <4>1
      <4>3. Len(channel.history) <= Sent /\ channel.history[i + g].id = Sent - Len(channel.history) + (i + g)
        BY <1>1, <4>1, <4>2 DEF Numbered
      <4>4. PICK n, x : n = Len(channel.history) /\ x = channel.history[i + g].id
        OBVIOUS
      <4>5. x # 0
        BY <1>1, <4>1, <4>2, <4>3, <4>4
      <4> QED
        BY <3>2, <4>1, <4>4, <4>5
    <3>4. Typing(<<>>) = {}
      BY DEF Typing
    <3> QED
      BY <3>1, <3>3, <3>4
  <2>2. CASE OutcomeOwed
    <3> DEFINE e == Event("outcome", stream.row, 0)
    <3>1. e \in Frame /\ e.type = "outcome" /\ Emit(e, Replayed)
      BY <1>1, <1>6, <2>2 DEF Subscribe, OutcomeOwed, Event, Frame, StreamTyped
    <3> HIDE DEF e
    <3>2. PICK s : s = Stored(e)
      OBVIOUS
    <3>3. s \in Frame /\ s.type = "outcome"
      BY <1>1, <3>1, <3>2, EmitHistory
    <3>4. wire' = Append(Replayed, s) \/ wire' = Replayed
      BY <3>1, <3>2 DEF Emit, Stored
    <3>5. CASE wire' = Append(Replayed, s)
      BY <2>1, <3>3, <3>5, NumberedAppended DEF BatchesNumbered
    <3>6. CASE wire' = Replayed
      BY <2>1, <3>6 DEF BatchesNumbered, Typing
    <3> QED
      BY <3>4, <3>5, <3>6
  <2>3. CASE ~OutcomeOwed
    <3>1. /\ Typing(wire') = Typing(Replayed)
          /\ \A i \in 1..Len(Replayed) : wire'[i] = Replayed[i]
      BY <1>1, <1>6, <2>3, FirstFrames
    <3>2. Typing(Replayed) \subseteq 1..Len(Replayed)
      BY <2>1, FrameAt
    <3> QED
      BY <2>1, <3>1, <3>2 DEF BatchesNumbered, Typing
  <2> QED
    BY <2>2, <2>3
<1> QED
  BY <1>2, <1>3, <1>4, <1>5, <1>6

LEMMA PreviewStep == ASSUME PreviewInv, BatchesNumbered, [StreamNext]_streamvars PROVE PreviewInv'
<1>1. CASE Pause \/ Resume
  <2>1. /\ tab' = tab /\ skipped' = skipped /\ misled' = misled /\ Going
        /\ SetStatus("paused") \/ SetStatus("running")
    BY <1>1 DEF Pause, Resume, marks
  <2>2. tab' \in [phase : Statuses \cup {"loading"}, preview : Seq(Nat), request : {None, "pause", "resume"}]
    BY <2>1 DEF PreviewInv, StreamTyped
  <2> QED
    BY <2>1, <2>2, StatusTold
<1> QED
  BY <1>1, BatchTold, OutcomeTold, StillKeeps, CutsKeep, DoneKeeps, ArrivalKeeps
     DEF StreamNext, ServerStep, TabStep, Still

LEMMA PreviewBegins == StreamInit => PreviewInv
<1> SUFFICES ASSUME StreamInit PROVE PreviewInv
  OBVIOUS
<1>1. <<>> \in Seq(Frame) /\ <<>> \in Seq(Nat) /\ Len(<<>>) = 0
  BY EmptySeq
<1>2. Batches(<<>>) = {} /\ Typing(<<>>) = {} /\ DOMAIN <<>> = {}
  BY DEF Batches, Typing
<1>3. StreamTyped
  <2>1. Ops \in Nat /\ 0 \in 0..Ops
    BY StreamAssumption
  <2>2. "running" \in Statuses /\ None \in Statuses \cup {None} /\ None \in Terminal \cup {None}
    BY DEF Statuses
  <2>3. /\ work \in [status : Statuses, typed : 0..Ops, outcome : Terminal \cup {None}]
        /\ jobs \in Statuses /\ lateWrite \in {None, "running", "paused"}
    BY <2>1, <2>2 DEF StreamInit
  <2>4. channel \in [exists : BOOLEAN, history : Seq(Frame), nextId : Nat \ {0}, ended : BOOLEAN]
    BY <1>1 DEF StreamInit, NoChannel
  <2>5. /\ stream \in [at : {"none", "new", "asking", "found", "open", "dropped"}, lastId : Nat,
                       row : Statuses \cup {None}]
        /\ stream.at = "found" => stream.row \in Statuses
    BY <2>2 DEF StreamInit
  <2>6. tab \in [phase : Statuses \cup {"loading"}, preview : Seq(Nat), request : {None, "pause", "resume"}]
    BY <1>1, <2>2 DEF StreamInit
  <2> QED
    BY <1>1, <2>3, <2>4, <2>5, <2>6 DEF StreamInit, StreamTyped
<1>4. Numbered /\ Sent = 0
  BY <1>1, <1>2, StreamAssumption DEF StreamInit, Numbered, Sent, NoChannel
<1>5. EndsLast /\ WireSteady /\ PreviewFresh
  BY <1>2 DEF StreamInit, EndsLast, WireSteady, PreviewFresh, Terminal, None, NoChannel
<1>6. PreviewHasNoHoles
  BY <1>1 DEF StreamInit, PreviewHasNoHoles
<1>7. Current
  <2> DEFINE count == [k \in 0..0 |-> 0]
  <2>1. count \in [0..Sent -> 0..work.typed] /\ count[0] = 0
    BY <1>4 DEF StreamInit
  <2>2. IsCount(count)
    BY <1>4, <2>1 DEF IsCount, StreamInit
  <2>3. Counts(count, <<>>)
    BY <1>2 DEF Counts
  <2>4. Counted(count)
    BY <1>1, <1>2, <1>4, <2>1, <2>2, <2>3 DEF Counted, StreamInit, NoChannel
  <2> QED
    BY <2>1, <2>4 DEF Current
<1> QED
  BY <1>3, <1>4, <1>5, <1>6, <1>7 DEF PreviewInv

LEMMA PreviewHeld == StreamSpec => [](PreviewInv /\ BatchesNumbered)
<1>1. PreviewInv /\ BatchesNumbered /\ [StreamNext]_streamvars => PreviewInv' /\ BatchesNumbered'
  BY PreviewStep, BatchesStayNumbered
<1>2. StreamInit => BatchesNumbered
  BY DEF StreamInit, BatchesNumbered, Typing
<1> QED
  BY <1>1, <1>2, PreviewBegins, PTL DEF StreamSpec

\* The tab's stream stays what its variables say: a history never longer than
\* REPLAY_BUFFER (events.ts:92-96), a tab in a phase the store has.
THEOREM StreamWellTyped == StreamSpec => []StreamTypeOK
<1>1. PreviewInv => StreamTypeOK
  <2> SUFFICES ASSUME PreviewInv PROVE StreamTypeOK
    OBVIOUS
  <2>1. StreamTyped /\ Len(channel.history) <= ReplayBuffer
    BY DEF PreviewInv, Numbered
  <2> QED
    BY <2>1 DEF StreamTyped, StreamTypeOK
<1> QED
  BY <1>1, PreviewHeld, PTL

\* events.ts:45, 92-96 and routes/jobs.ts:250: for every number of batches, every
\* buffer and any drops, reloads and restarts, no batch reaches the preview twice or
\* out of order, and none is missing that the buffer had not let go.
THEOREM NoHolesInPreview == StreamSpec => []PreviewHasNoHoles
<1>1. PreviewInv => PreviewHasNoHoles
  BY DEF PreviewInv
<1> QED
  BY <1>1, PreviewHeld, PTL

-----------------------------------------------------------------------------
\* ---- What the tab shows is how the job stands

LEMMA AppendedTrails ==
  ASSUME NEW s \in Seq(Frame), NEW e \in Frame, NEW t, t = Append(s, e)
  PROVE  /\ DOMAIN t = DOMAIN s \cup {Len(s) + 1} /\ t[Len(s) + 1] = e
         /\ \A i \in DOMAIN s : t[i] = s[i] /\ (Trails(t, i) => e.type = "progress" /\ Trails(s, i))
<1>1. /\ t \in Seq(Frame) /\ Len(t) = Len(s) + 1 /\ t[Len(s) + 1] = e
      /\ \A i \in 1..Len(s) : t[i] = s[i]
  BY FrameAppended
<1>2. Len(s) \in Nat /\ DOMAIN s = 1..Len(s) /\ DOMAIN t = 1..Len(t)
  BY <1>1, FrameAt
<1>3. DOMAIN t = DOMAIN s \cup {Len(s) + 1}
  BY <1>1, <1>2
<1>4. ASSUME NEW i \in DOMAIN s, Trails(t, i) PROVE e.type = "progress" /\ Trails(s, i)
  <2>1. i < Len(s) + 1 /\ Len(s) + 1 \in DOMAIN t
    BY <1>2, <1>3
  <2>2. e.type = "progress"
    BY <1>1, <1>4, <2>1 DEF Trails
  <2>3. Trails(s, i)
    BY <1>1, <1>2, <1>3, <1>4 DEF Trails
  <2> QED
    BY <2>2, <2>3
<1> QED
  BY <1>1, <1>2, <1>3, <1>4

LEMMA EndTrails ==
  ASSUME NEW s \in Seq(Frame), NEW t \in Seq(Frame), NEW d \in 0..Len(s), Len(t) = Len(s) - d,
         \A i \in 1..(Len(s) - d) : t[i] = s[i + d]
  PROVE  \A i \in DOMAIN t : i + d \in DOMAIN s /\ t[i] = s[i + d] /\ (Trails(t, i) => Trails(s, i + d))
<1>1. Len(s) \in Nat /\ DOMAIN s = 1..Len(s) /\ DOMAIN t = 1..(Len(s) - d)
  BY FrameAt
<1> TAKE i \in DOMAIN t
<1>2. i \in 1..(Len(s) - d) /\ i + d \in DOMAIN s /\ t[i] = s[i + d]
  BY <1>1
<1>3. ASSUME Trails(t, i), NEW j \in DOMAIN s, i + d < j PROVE s[j].type = "progress"
  <2>1. j - d \in 1..(Len(s) - d) /\ i < j - d /\ (j - d) + d = j
    BY <1>1, <1>2, <1>3
  <2>2. t[j - d] = s[j] /\ j - d \in DOMAIN t
    BY <1>1, <2>1
  <2> QED
    BY <1>3, <2>1, <2>2 DEF Trails
<1> QED
  BY <1>2, <1>3 DEF Trails

LEMMA HeldTrails ==
  ASSUME StreamTyped, Numbered, NEW h \in Seq(Frame), NEW d \in 0..Len(channel.history),
         NEW s \in Frame, Holds(h, d, s)
  PROVE  /\ h[Len(h)] = s /\ DOMAIN h = 1..Len(h) /\ Len(h) \in Nat \ {0}
         /\ \A i \in DOMAIN h :
              i = Len(h) \/ /\ i + d \in DOMAIN channel.history /\ h[i] = channel.history[i + d]
                            /\ Trails(h, i) => s.type = "progress" /\ Trails(channel.history, i + d)
<1>0. PICK old : old = channel.history
  OBVIOUS
<1>1. /\ old \in Seq(Frame) /\ Len(old) \in Nat /\ DOMAIN old = 1..Len(old)
      /\ DOMAIN h = 1..Len(h) /\ Len(h) = Len(old) + 1 - d /\ d \in 0..Len(old)
      /\ \A i \in 1..(Len(old) - d) : h[i] = old[i + d]
      /\ h[Len(old) + 1 - d] = s
  BY <1>0, FrameAt DEF StreamTyped, Holds
<1>2. h[Len(h)] = s /\ Len(h) \in Nat \ {0} /\ Len(h) \in DOMAIN h
  BY <1>1
<1>3. ASSUME NEW i \in DOMAIN h, i # Len(h)
      PROVE  /\ i + d \in DOMAIN old /\ h[i] = old[i + d]
             /\ Trails(h, i) => s.type = "progress" /\ Trails(old, i + d)
  <2>1. i \in 1..(Len(old) - d) /\ i + d \in DOMAIN old /\ h[i] = old[i + d] /\ i < Len(h)
    BY <1>1, <1>3
  <2>2. Trails(h, i) => s.type = "progress"
    BY <1>2, <2>1 DEF Trails
  <2>3. ASSUME Trails(h, i), NEW j \in DOMAIN old, i + d < j PROVE old[j].type = "progress"
    <3>1. j - d \in 1..(Len(old) - d) /\ i < j - d /\ (j - d) + d = j /\ j - d \in DOMAIN h
      BY <1>1, <2>1, <2>3
    <3>2. h[j - d] = old[j]
      BY <1>1, <3>1
    <3> QED
      BY <2>3, <3>1, <3>2 DEF Trails
  <2> QED
    BY <2>1, <2>2, <2>3 DEF Trails
<1> QED
  BY <1>0, <1>1, <1>2, <1>3

\* An event is told: the history and the wire end with it.
LEMMA StatusIsTold ==
  ASSUME PreviewInv, StatusInv, NEW e \in Frame, Emit(e, wire), stream' = stream, misled' = misled,
         e.type \in {"progress", "status", "outcome"},
         e.type = "progress" => work'.status = work.status /\ e.status = work.status,
         e.type = "status" => e.status = work'.status
  PROVE  /\ Says(channel.history, work.status)' /\ Says(wire, work.status)' /\ SnapshotTrue' /\ Kinds'
         /\ channel'.history # <<>> /\ channel'.history[Len(channel'.history)].type = e.type
         /\ channel'.ended = (channel.ended \/ e.type = "outcome") /\ channel'.exists
         /\ stream.at = "open" /\ e.type = "outcome" => HasOutcome(wire')
         /\ stream.at = "open" /\ AllTyping(wire') => e.type = "progress" /\ AllTyping(wire)
<1>1. /\ StreamTyped /\ Numbered /\ wire \in Seq(Frame) /\ channel.history \in Seq(Frame)
      /\ stream.at # "open" => wire = <<>>
      /\ Says(channel.history, work.status) /\ Says(wire, work.status) /\ SnapshotTrue /\ Kinds
  BY DEF PreviewInv, StreamTyped, StatusInv, WireSteady
<1>2. PICK s, h, x : s = Stored(e) /\ h = channel'.history /\ x = work'.status
  OBVIOUS
<1>3. /\ s \in Frame /\ s.type = e.type /\ s.status = e.status
      /\ h \in Seq(Frame) /\ h # <<>>
      /\ channel'.ended = (channel.ended \/ e.type = "outcome") /\ channel'.exists
      /\ \E d \in 0..Len(channel.history) : Holds(h, d, s)
  BY <1>1, <1>2, EmitHistory
<1>4. PICK d \in 0..Len(channel.history) : Holds(h, d, s)
  BY <1>3
<1>5. /\ h[Len(h)] = s /\ DOMAIN h = 1..Len(h) /\ Len(h) \in Nat \ {0}
      /\ \A i \in DOMAIN h :
           i = Len(h) \/ /\ i + d \in DOMAIN channel.history /\ h[i] = channel.history[i + d]
                         /\ Trails(h, i) => s.type = "progress" /\ Trails(channel.history, i + d)
  BY <1>1, <1>3, <1>4, HeldTrails
<1>6. s.type \in {"progress", "status"} => s.status = x
  BY <1>2, <1>3
<1>7. s.type = "progress" => x = work.status
  BY <1>2, <1>3
<1>8. Says(h, x)
  <2> SUFFICES ASSUME NEW i \in DOMAIN h, h[i].type \in {"progress", "status"}, Trails(h, i)
               PROVE  h[i].status = x
    BY DEF Says
  <2>1. CASE i = Len(h)
    BY <1>5, <1>6, <2>1
  <2>2. CASE i # Len(h)
    <3>1. /\ i + d \in DOMAIN channel.history /\ h[i] = channel.history[i + d]
          /\ s.type = "progress" /\ Trails(channel.history, i + d)
      BY <1>5, <2>2
    <3> QED
      BY <1>1, <1>7, <3>1 DEF Says
  <2> QED
    BY <2>1, <2>2
<1>9. Kinds'
  <2>1. \A i \in DOMAIN h : h[i].type # "snapshot"
    <3> TAKE i \in DOMAIN h
    <3>1. CASE i = Len(h)
      BY <1>3, <1>5, <3>1
    <3>2. CASE i # Len(h)
      BY <1>1, <1>5, <3>2 DEF Kinds
    <3> QED
      BY <3>1, <3>2
  <2> QED
    BY <1>2, <2>1 DEF Kinds
<1>10. CASE stream.at # "open"
  <2>1. wire' = <<>> /\ DOMAIN wire' = {}
    BY <1>1, <1>10 DEF Emit
  <2> QED
    BY <1>2, <1>3, <1>5, <1>8, <1>9, <1>10, <2>1 DEF Says, SnapshotTrue
<1>11. CASE stream.at = "open"
  <2>1. PICK w : w = wire' /\ w = Append(wire, s)
    BY <1>2, <1>11 DEF Emit, Stored
  <2>2. /\ DOMAIN w = DOMAIN wire \cup {Len(wire) + 1} /\ w[Len(wire) + 1] = s
        /\ \A i \in DOMAIN wire : w[i] = wire[i] /\ (Trails(w, i) => s.type = "progress" /\ Trails(wire, i))
    BY <1>1, <1>3, <2>1, AppendedTrails
  <2>3. Says(w, x)
    <3> SUFFICES ASSUME NEW i \in DOMAIN w, w[i].type \in {"progress", "status"}, Trails(w, i)
                 PROVE  w[i].status = x
      BY DEF Says
    <3>1. CASE i \in DOMAIN wire
      BY <1>1, <1>7, <2>2, <3>1 DEF Says
    <3>2. CASE i = Len(wire) + 1
      BY <1>6, <2>2, <3>2
    <3> QED
      BY <2>2, <3>1, <3>2
  <2>4. ASSUME NEW i \in DOMAIN w, w[i].type = "snapshot", Trails(w, i) PROVE misled \/ w[i].status = x
    <3>1. i \in DOMAIN wire
      BY <1>3, <2>2, <2>4
    <3> QED
      BY <1>1, <1>7, <2>2, <2>4, <3>1 DEF SnapshotTrue
  <2>5. SnapshotTrue'
    BY <1>2, <2>1, <2>4 DEF SnapshotTrue
  <2>6. e.type = "outcome" => HasOutcome(w)
    BY <1>3, <2>2 DEF HasOutcome
  <2>7. AllTyping(w) => e.type = "progress" /\ AllTyping(wire)
    BY <1>3, <2>2 DEF AllTyping
  <2> QED
    BY <1>2, <1>3, <1>5, <1>8, <1>9, <2>1, <2>3, <2>5, <2>6, <2>7
<1> QED
  BY <1>10, <1>11

\* pause() and resume() of the runner, whoever asks: the stream hears of it.
LEMMA StatusSet ==
  ASSUME PreviewInv, StatusInv, Going, misled' = misled, \E s \in {"running", "paused"} : SetStatus(s)
  PROVE  StatusInv'
<1>1. PICK s \in {"running", "paused"} : SetStatus(s)
  OBVIOUS
<1> DEFINE e == Event("status", s, 0)
<1>2. /\ StreamTyped /\ EndsLast /\ work.outcome = None
      /\ work' = [work EXCEPT !.status = s] /\ stream' = stream /\ Emit(e, wire)
  BY <1>1 DEF PreviewInv, SetStatus, Going
<1>3. work'.status = s /\ s \notin Terminal
  BY <1>2 DEF StreamTyped, Terminal
<1>4. e \in Frame /\ e.type = "status" /\ e.status = s
  BY DEF Event, Frame, Statuses
<1> HIDE DEF e
<1>5. /\ Says(channel.history, work.status)' /\ Says(wire, work.status)' /\ SnapshotTrue' /\ Kinds'
      /\ channel'.ended = (channel.ended \/ e.type = "outcome")
      /\ stream.at = "open" /\ AllTyping(wire') => e.type = "progress"
  BY <1>2, <1>3, <1>4, StatusIsTold
<1>6. ~channel'.ended
  BY <1>2, <1>4, <1>5 DEF EndsLast
<1>7. EndInHistory' /\ EndOnWire'
  BY <1>3, <1>6 DEF EndInHistory, EndOnWire
<1>8. PhaseFollows'
  BY <1>2, <1>4, <1>5 DEF PhaseFollows
<1> QED
  BY <1>5, <1>7, <1>8 DEF StatusInv

\* The steps that tell the tab something keep all of it.
LEMMA TellingIsTrue ==
  ASSUME PreviewInv, StatusInv, TypeBatch \/ AnnounceOutcome \/ Pause \/ Resume
  PROVE  StatusInv'
<1>1. /\ StreamTyped /\ EndsLast /\ EndInHistory /\ EndOnWire /\ PhaseFollows
  BY DEF PreviewInv, StatusInv
<1>2. CASE TypeBatch
  <2> DEFINE e == Event("progress", work.status, work'.typed)
  <2>1. /\ work.outcome = None /\ work.status \notin Terminal /\ work' = [work EXCEPT !.typed = @ + 1]
        /\ stream' = stream /\ tab' = tab /\ misled' = misled /\ Emit(e, wire)
    BY <1>2 DEF TypeBatch, Going, browser, marks
  <2>2. work'.status = work.status /\ work'.outcome = None /\ work'.typed \in Nat
    <3>1. work.typed \in Nat
      BY <1>1, StreamAssumption DEF StreamTyped
    <3> QED
      BY <1>1, <2>1, <3>1 DEF StreamTyped
  <2>3. e \in Frame /\ e.type = "progress" /\ e.status = work.status
    BY <1>1, <2>2 DEF Event, Frame, StreamTyped
  <2> HIDE DEF e
  <2>4. /\ Says(channel.history, work.status)' /\ Says(wire, work.status)' /\ SnapshotTrue' /\ Kinds'
        /\ channel'.ended = (channel.ended \/ e.type = "outcome")
        /\ stream.at = "open" /\ AllTyping(wire') => AllTyping(wire)
    BY <2>1, <2>2, <2>3, StatusIsTold
  <2>5. ~channel'.ended
    BY <1>1, <2>1, <2>3, <2>4 DEF EndsLast
  <2>6. EndInHistory' /\ EndOnWire'
    BY <2>1, <2>2, <2>5 DEF EndInHistory, EndOnWire
  <2>7. PhaseFollows'
    BY <1>1, <2>1, <2>2, <2>4 DEF PhaseFollows, Announcing
  <2> QED
    BY <2>4, <2>6, <2>7 DEF StatusInv
<1>3. CASE AnnounceOutcome
  <2> DEFINE e == Event("outcome", work.outcome, 0)
  <2>1. /\ work.outcome # None /\ work' = [work EXCEPT !.status = work.outcome]
        /\ stream' = stream /\ tab' = tab /\ misled' = misled /\ Emit(e, wire)
    BY <1>3 DEF AnnounceOutcome, browser, marks
  <2>2. e \in Frame /\ e.type = "outcome"
    BY <1>1, <2>1 DEF Event, Frame, StreamTyped, Statuses
  <2> HIDE DEF e
  <2>3. /\ Says(channel.history, work.status)' /\ Says(wire, work.status)' /\ SnapshotTrue' /\ Kinds'
        /\ channel'.history # <<>> /\ channel'.history[Len(channel'.history)].type = e.type
        /\ channel'.ended = (channel.ended \/ e.type = "outcome")
        /\ stream.at = "open" /\ e.type = "outcome" => HasOutcome(wire')
        /\ stream.at = "open" /\ AllTyping(wire') => e.type = "progress"
    BY <2>1, <2>2, StatusIsTold
  <2>4. channel'.ended /\ channel'.history[Len(channel'.history)].type = "outcome"
    BY <2>2, <2>3
  <2>5. EndInHistory'
    BY <2>3, <2>4 DEF EndInHistory
  <2>6. EndOnWire' /\ PhaseFollows'
    BY <2>1, <2>2, <2>3 DEF EndOnWire, PhaseFollows, HasOutcome
  <2> QED
    BY <2>3, <2>5, <2>6 DEF StatusInv
<1>4. CASE Pause \/ Resume
  <2>1. /\ Going /\ misled' = misled
        /\ \E s \in {"running", "paused"} : SetStatus(s)
    BY <1>4 DEF Pause, Resume, marks
  <2> QED
    BY <2>1, StatusSet
<1> QED
  BY <1>2, <1>3, <1>4

\* Nothing is sent: what is on the wire and in the history stays true.
LEMMA NothingTold ==
  ASSUME StatusInv, UNCHANGED <<channel, wire, misled>>, work'.status = work.status
  PROVE  Says(channel.history, work.status)' /\ Says(wire, work.status)' /\ SnapshotTrue' /\ Kinds'
BY DEF StatusInv, Says, SnapshotTrue, Kinds

LEMMA QuietIsTrue ==
  ASSUME PreviewInv, StatusInv,
         RowCatchesUp \/ FinishJob \/ FindRow \/ Attach \/ Reconnect \/ UNCHANGED streamvars
  PROVE  StatusInv'
<1>1. StreamTyped /\ EndsLast /\ EndInHistory /\ EndOnWire /\ PhaseFollows
  BY DEF PreviewInv, StatusInv
<1>2. UNCHANGED <<channel, wire, misled>> /\ work'.status = work.status
  <2>1. CASE FinishJob
    BY <1>1, <2>1 DEF FinishJob, StreamTyped, browser, marks
  <2> QED
    BY <2>1 DEF RowCatchesUp, FindRow, Attach, Reconnect, streamvars, server, browser, marks
<1>3. Says(channel.history, work.status)' /\ Says(wire, work.status)' /\ SnapshotTrue' /\ Kinds'
  BY <1>2, NothingTold
<1>4. EndInHistory'
  <2>1. CASE RowCatchesUp
    <3>1. jobs' \notin Terminal /\ UNCHANGED <<work, channel, stream>>
      BY <1>1, <2>1 DEF RowCatchesUp, StreamTyped, Terminal, browser
    <3> QED
      BY <1>1, <3>1 DEF EndInHistory
  <2>2. CASE FinishJob
    <3>1. work.status \notin Terminal /\ stream' = stream
      BY <2>2 DEF FinishJob, Going, browser
    <3> QED
      BY <1>1, <1>2, <3>1 DEF EndInHistory
  <2>3. CASE FindRow
    <3>1. stream'.at = "found" /\ stream'.row = jobs /\ UNCHANGED <<work, jobs, channel>>
      BY <1>1, <2>3 DEF FindRow, StreamTyped, server
    <3> QED
      BY <1>1, <3>1 DEF EndInHistory
  <2>4. CASE Attach
    <3>1. stream'.at # "found" /\ stream'.row \notin Terminal /\ UNCHANGED <<work, jobs, channel>>
      BY <2>4 DEF Attach, Closed, server, None, Terminal
    <3> QED
      BY <1>1, <3>1 DEF EndInHistory
  <2>5. CASE Reconnect
    <3>1. stream'.at # "found" /\ stream'.row = stream.row /\ UNCHANGED <<work, jobs, channel>>
      BY <1>1, <2>5 DEF Reconnect, StreamTyped, server
    <3> QED
      BY <1>1, <3>1 DEF EndInHistory
  <2>6. CASE UNCHANGED streamvars
    BY <1>1, <2>6 DEF streamvars, EndInHistory
  <2> QED
    BY <2>1, <2>2, <2>3, <2>4, <2>5, <2>6
<1>5. stream'.at = "open" => stream' = stream
  BY <1>1 DEF RowCatchesUp, FinishJob, FindRow, Attach, Reconnect, streamvars, browser, Closed, StreamTyped
<1>6. EndOnWire'
  BY <1>1, <1>2, <1>5 DEF EndOnWire
<1>7. PhaseFollows'
  <2>1. CASE FinishJob
    <3>1. work'.outcome # None /\ work'.status \notin Terminal
      BY <1>1, <2>1 DEF FinishJob, Going, StreamTyped, Terminal, None
    <3> QED
      BY <3>1 DEF PhaseFollows, Announcing
  <2>2. CASE ~FinishJob
    <3>1. work' = work /\ tab' = tab
      BY <2>2 DEF RowCatchesUp, FindRow, Attach, Reconnect, streamvars, server, browser
    <3> QED
      BY <1>1, <1>2, <1>5, <3>1 DEF PhaseFollows, Announcing
  <2> QED
    BY <2>1, <2>2
<1> QED
  BY <1>3, <1>4, <1>6, <1>7 DEF StatusInv

\* A click, and its answer when there is nothing to do or it comes too late.
LEMMA ClickIsTrue ==
  ASSUME PreviewInv, StatusInv,
         ClickPause \/ ClickResume \/ PauseRefused \/ ResumeRefused \/ PauseDone \/ ResumeDone
  PROVE  StatusInv'
<1>1. StreamTyped /\ EndsLast /\ EndInHistory /\ EndOnWire /\ PhaseFollows
  BY DEF PreviewInv, StatusInv
<1>2. CASE UNCHANGED <<work, jobs, lateWrite, channel, stream, wire>>
  <2>1. misled' = misled
    BY DEF ClickPause, ClickResume, PauseRefused, ResumeRefused, PauseDone, ResumeDone, marks
  <2>2. Says(channel.history, work.status)' /\ Says(wire, work.status)' /\ SnapshotTrue' /\ Kinds'
    BY <1>2, <2>1, NothingTold
  <2>3. EndInHistory' /\ EndOnWire'
    BY <1>1, <1>2, <2>1 DEF EndInHistory, EndOnWire
  <2>4. PhaseFollows'
    <3> SUFFICES ASSUME stream.at = "open", ~misled, AllTyping(wire), ~Announcing
                 PROVE  \/ tab'.phase = work.status
                        \/ tab'.request = "pause" /\ tab'.phase = "paused" /\ work.status = "running"
                        \/ tab'.request = "resume" /\ tab'.phase = "running" /\ work.status = "paused"
      BY <1>2, <2>1 DEF PhaseFollows, Announcing
    <3>1. \/ tab.phase = work.status
          \/ tab.request = "pause" /\ tab.phase = "paused" /\ work.status = "running"
          \/ tab.request = "resume" /\ tab.phase = "running" /\ work.status = "paused"
      BY <1>1 DEF PhaseFollows
    <3>2. CASE ClickPause \/ ClickResume
      BY <1>1, <3>1, <3>2 DEF ClickPause, ClickResume, StreamTyped, None
    <3>3. CASE PauseRefused \/ ResumeRefused
      <4>1. work.status \in Terminal
        BY <3>3 DEF PauseRefused, ResumeRefused, Going, Announcing
      <4>2. HasOutcome(wire)
        BY <1>1, <4>1 DEF EndOnWire
      <4> QED
        BY <4>2 DEF HasOutcome, AllTyping
    <3>4. CASE PauseDone
      <4>1. /\ tab.request = "pause" /\ tab'.phase = tab.phase
            /\ work.status # "running"
        <5>1. tab.request = "pause" /\ tab' = [tab EXCEPT !.request = None]
          BY <3>4 DEF PauseDone
        <5>2. work.status # "running"
          <6> SUFFICES ASSUME work.status = "running" PROVE FALSE
            OBVIOUS
          <6>1. work' = [work EXCEPT !.status = "paused"]
            BY <3>4 DEF PauseDone, SetStatus
          <6>2. work'.status = "paused"
            BY <1>1, <6>1 DEF StreamTyped
          <6> QED
            BY <1>2, <6>2
        <5> QED
          BY <1>1, <5>1, <5>2 DEF StreamTyped
      <4> QED
        BY <3>1, <4>1
    <3>5. CASE ResumeDone
      <4>1. /\ tab.request = "resume" /\ tab'.phase = tab.phase
            /\ work.status # "paused"
        <5>1. tab.request = "resume" /\ tab' = [tab EXCEPT !.request = None]
          BY <3>5 DEF ResumeDone
        <5>2. work.status # "paused"
          <6> SUFFICES ASSUME work.status = "paused" PROVE FALSE
            OBVIOUS
          <6>1. work' = [work EXCEPT !.status = "running"]
            BY <3>5 DEF ResumeDone, SetStatus
          <6>2. work'.status = "running"
            BY <1>1, <6>1 DEF StreamTyped
          <6> QED
            BY <1>2, <6>2
        <5> QED
          BY <1>1, <5>1, <5>2 DEF StreamTyped
      <4> QED
        BY <3>1, <4>1
    <3> QED
      BY <3>2, <3>3, <3>4, <3>5
  <2> QED
    BY <2>2, <2>3, <2>4 DEF StatusInv
<1>3. CASE PauseDone \/ ResumeDone
  <2>1. Going /\ misled' = misled
    BY <1>3 DEF PauseDone, ResumeDone, marks
  <2>2. \/ \E s \in {"running", "paused"} : SetStatus(s)
        \/ UNCHANGED <<work, jobs, lateWrite, channel, stream, wire>>
    BY <1>3 DEF PauseDone, ResumeDone, server
  <2> QED
    BY <1>2, <2>1, <2>2, StatusSet
<1>4. CASE ClickPause \/ ClickResume \/ PauseRefused \/ ResumeRefused
  BY <1>2, <1>4 DEF ClickPause, ClickResume, PauseRefused, ResumeRefused, server
<1> QED
  BY <1>3, <1>4

\* The stream is cut, or the channel or the process is gone.
LEMMA CutIsTrue ==
  ASSUME PreviewInv, StatusInv, DropConnection \/ ReloadPage \/ CheckJob \/ RestartServer \/ ReapChannel
  PROVE  StatusInv'
<1>1. /\ StreamTyped /\ EndsLast /\ EndInHistory /\ EndOnWire /\ PhaseFollows
      /\ Says(channel.history, work.status) /\ Says(wire, work.status) /\ SnapshotTrue /\ Kinds
  BY DEF PreviewInv, StatusInv
<1>2. Lost.at \notin {"found", "open"} /\ Lost.row \notin Terminal
  BY <1>1 DEF Lost, StreamTyped, None, Terminal
<1>3. Closed.at \notin {"found", "open"} /\ Closed.row \notin Terminal
  BY DEF Closed, None, Terminal
<1>4. ASSUME stream'.at \notin {"found", "open"}, stream'.row \notin Terminal, wire' = <<>>,
             UNCHANGED <<work, jobs, channel>>
      PROVE  StatusInv'
  <2>1. Says(channel.history, work.status)' /\ Says(wire, work.status)' /\ SnapshotTrue' /\ Kinds'
    BY <1>1, <1>4 DEF Says, SnapshotTrue, Kinds
  <2>2. EndInHistory' /\ EndOnWire' /\ PhaseFollows'
    BY <1>1, <1>4 DEF EndInHistory, EndOnWire, PhaseFollows
  <2> QED
    BY <2>1, <2>2 DEF StatusInv
<1>5. CASE DropConnection \/ ReloadPage
  BY <1>2, <1>3, <1>4, <1>5 DEF DropConnection, ReloadPage, server
<1>6. CASE CheckJob
  <2>1. /\ UNCHANGED <<work, jobs, channel, wire>>
        /\ stream' = IF jobs \in Terminal THEN Closed ELSE [Closed EXCEPT !.at = "new"]
        /\ tab.phase = "loading"
    BY <1>6 DEF CheckJob, server
  <2>2. stream'.at \notin {"found", "open"} /\ stream'.row \notin Terminal
    BY <2>1 DEF Closed, None, Terminal
  <2>3. wire = <<>>
    BY <2>1 DEF PreviewInv, PreviewFresh, WireSteady
  <2> QED
    BY <1>4, <2>1, <2>2, <2>3
<1>7. CASE RestartServer
  <2>1. /\ channel' = NoChannel /\ wire' = <<>>
        /\ stream'.at \notin {"found", "open"} /\ stream'.row \notin Terminal
    BY <1>2, <1>7 DEF RestartServer
  <2>2. channel'.history = <<>> /\ ~channel'.ended /\ ~channel'.exists
    BY <2>1 DEF NoChannel
  <2>3. Says(channel.history, work.status)' /\ Says(wire, work.status)' /\ SnapshotTrue' /\ Kinds'
    BY <2>1, <2>2 DEF Says, SnapshotTrue, Kinds
  <2>4. EndInHistory' /\ EndOnWire' /\ PhaseFollows'
    BY <2>1, <2>2 DEF EndInHistory, EndOnWire, PhaseFollows
  <2> QED
    BY <2>3, <2>4 DEF StatusInv
<1>8. CASE ReapChannel
  <2>1. /\ channel' = NoChannel /\ stream.at # "found"
        /\ UNCHANGED <<work, jobs, wire, stream, tab, misled>>
    BY <1>8 DEF ReapChannel, browser, marks
  <2>2. channel'.history = <<>> /\ ~channel'.ended /\ ~channel'.exists
    BY <2>1 DEF NoChannel
  <2>3. Says(channel.history, work.status)' /\ Says(wire, work.status)' /\ SnapshotTrue' /\ Kinds'
    BY <1>1, <2>1, <2>2 DEF Says, SnapshotTrue, Kinds
  <2>4. EndInHistory'
    BY <2>1, <2>2 DEF EndInHistory
  <2>5. EndOnWire' /\ PhaseFollows'
    BY <1>1, <2>1 DEF EndOnWire, PhaseFollows, Announcing
  <2> QED
    BY <2>3, <2>4, <2>5 DEF StatusInv
<1> QED
  BY <1>5, <1>6, <1>7, <1>8

LEMMA LetInKeeps ==
  ASSUME PreviewInv, StatusInv, Subscribe, ~OutcomeOwed
  PROVE  Says(channel.history, work.status)' /\ Kinds' /\ EndInHistory'
<1>1. /\ StreamTyped /\ EndInHistory /\ Says(channel.history, work.status) /\ Kinds
      /\ stream.at = "found" /\ UNCHANGED <<work, jobs>>
      /\ stream' = [stream EXCEPT !.at = "open", !.row = None]
      /\ channel' = [channel EXCEPT !.exists = TRUE]
  BY DEF PreviewInv, StatusInv, Subscribe
<1>2. channel'.history = channel.history /\ channel'.ended = channel.ended /\ channel'.exists
  BY <1>1 DEF StreamTyped
<1>3. stream'.row \notin Terminal
  BY <1>1 DEF StreamTyped, None, Terminal
<1>4. EndInHistory'
  BY <1>1, <1>2, <1>3 DEF EndInHistory, OutcomeOwed
<1> QED
  BY <1>1, <1>2, <1>4 DEF Says, Kinds

\* The tab is let in: what it has missed, and how the row says the job stands.
LEMMA LettingInIsTrue ==
  ASSUME PreviewInv, StatusInv, Subscribe
  PROVE  StatusInv'
<1>1. /\ StreamTyped /\ Numbered /\ EndsLast /\ EndInHistory
      /\ Says(channel.history, work.status) /\ Kinds /\ channel.history \in Seq(Frame)
      /\ stream.at = "found" /\ stream.row \in Statuses /\ UNCHANGED <<work, jobs, tab>> /\ misled' = Misleads
      /\ stream' = [stream EXCEPT !.at = "open", !.row = None]
  BY DEF PreviewInv, StatusInv, StreamTyped, Subscribe
<1>2. stream'.at = "open" /\ stream'.row = None /\ None \notin Terminal
  BY <1>1 DEF StreamTyped, None, Terminal
<1>3. /\ Replayed \in Seq(Frame) /\ (Replayed = <<>> \/ Replayed = Missed)
      /\ channel.history = <<>> => Replayed = <<>>
  BY <1>1, ReplayedFrames
<1>4. CASE OutcomeOwed
  <2> DEFINE e == Event("outcome", stream.row, 0)
  <2>1. ~channel.exists /\ stream.row \in Terminal /\ channel.history = <<>> /\ Replayed = <<>>
    BY <1>1, <1>3, <1>4 DEF OutcomeOwed, Numbered, NoChannel
  <2>2. e \in Frame /\ e.type = "outcome"
    BY <1>1 DEF Event, Frame
  <2>3. Emit(e, <<>>)
    BY <1>4, <2>1 DEF Subscribe
  <2> HIDE DEF e
  <2>4. PICK s, h, w : s = Stored(e) /\ h = channel'.history /\ w = wire'
    OBVIOUS
  <2>5. /\ s \in Frame /\ s.type = "outcome" /\ h # <<>> /\ h \in Seq(Frame)
        /\ channel'.ended = (channel.ended \/ e.type = "outcome")
        /\ \E d \in 0..Len(channel.history) : Holds(h, d, s)
    BY <1>1, <2>2, <2>3, <2>4, EmitHistory
  <2>6. PICK d \in 0..Len(channel.history) : Holds(h, d, s)
    BY <2>5
  <2>7. /\ h[Len(h)] = s /\ \A i \in DOMAIN h : i = Len(h)
    BY <1>1, <2>1, <2>5, <2>6, HeldTrails
  <2>8. w = Append(<<>>, s) /\ <<>> \in Seq(Frame)
    BY <1>2, <2>3, <2>4, EmptySeq DEF Emit, Stored
  <2>9. \A i \in DOMAIN w : w[i] = s
    BY <2>5, <2>8, AppendedTrails
  <2>10. HasOutcome(w) /\ ~AllTyping(w)
    <3>1. Len(<<>>) + 1 \in DOMAIN w
      BY <2>5, <2>8, AppendedTrails
    <3> QED
      BY <2>5, <2>9, <3>1 DEF HasOutcome, AllTyping
  <2>11. Says(channel.history, work.status)' /\ Kinds'
    BY <2>4, <2>5, <2>7 DEF Says, Kinds
  <2>12. Says(wire, work.status)' /\ SnapshotTrue'
    BY <2>4, <2>5, <2>9 DEF Says, SnapshotTrue
  <2>13. EndInHistory'
    BY <2>2, <2>4, <2>5, <2>7 DEF EndInHistory
  <2>14. EndOnWire' /\ PhaseFollows'
    BY <2>4, <2>10 DEF EndOnWire, PhaseFollows
  <2> QED
    BY <2>11, <2>12, <2>13, <2>14 DEF StatusInv
<1>5. CASE ~OutcomeOwed
  <2>1. channel' = [channel EXCEPT !.exists = TRUE]
    BY <1>5 DEF Subscribe
  <2>2. channel'.history = channel.history /\ channel'.ended = channel.ended /\ channel'.exists
    BY <1>1, <2>1 DEF StreamTyped
  <2>3. PICK w, r : w = wire' /\ r = Replayed
    OBVIOUS
  <2>4. /\ w \in Seq(Frame) /\ r \in Seq(Frame)
        /\ \A i \in 1..Len(r) : w[i] = r[i]
        /\ \A i \in DOMAIN w : i \in 1..Len(r) \/ i = Len(r) + 1
        /\ stream.row \notin Terminal =>
             Len(w) = Len(r) + 1 /\ w[Len(r) + 1] = Event("snapshot", stream.row, 0)
        /\ stream.row \in Terminal => w = r
    BY <1>1, <1>3, <1>5, <2>3, FirstFrames
  <2>5. Len(r) \in Nat /\ DOMAIN r = 1..Len(r) /\ DOMAIN w = 1..Len(w) /\ Len(w) \in Nat
    BY <2>4, FrameAt
  \* What is replayed is the end of the history.
  <2>6. /\ Says(r, work.status) /\ \A i \in DOMAIN r : r[i].type # "snapshot"
        /\ r # <<>> => \E i \in DOMAIN r : r[i] = channel.history[Len(channel.history)]
    <3>1. CASE r = <<>>
      BY <3>1 DEF Says
    <3>2. CASE r = Missed
      <4>1. PICK g \in 0..Len(channel.history) :
               /\ Missed \in Seq(Frame) /\ Len(Missed) = Len(channel.history) - g
               /\ \A i \in 1..(Len(channel.history) - g) : Missed[i] = channel.history[i + g]
        BY <1>1, MissedIsEnd
      <4>2. PICK n : n = Len(channel.history)
        OBVIOUS
      <4>3. \A i \in DOMAIN r : /\ i + g \in DOMAIN channel.history /\ r[i] = channel.history[i + g]
                                /\ Trails(r, i) => Trails(channel.history, i + g)
        <5>1. /\ r \in Seq(Frame) /\ Len(r) = Len(channel.history) - g
              /\ \A i \in 1..(Len(channel.history) - g) : r[i] = channel.history[i + g]
          BY <2>4, <3>2, <4>1
        <5> QED
          BY <1>1, <5>1, EndTrails
      <4>4. Says(r, work.status) /\ \A i \in DOMAIN r : r[i].type # "snapshot"
        BY <1>1, <4>3 DEF Says, Kinds
      <4>5. ASSUME r # <<>> PROVE \E i \in DOMAIN r : r[i] = channel.history[Len(channel.history)]
        <5>1. Len(r) # 0 /\ Len(r) = n - g /\ n \in Nat /\ g \in Nat
          BY <1>1, <2>4, <2>5, <3>2, <4>1, <4>2, <4>5, FrameAt, EmptySeq
        <5>2. Len(r) \in DOMAIN r /\ Len(r) + g = n
          BY <2>5, <5>1
        <5> QED
          BY <4>2, <4>3, <5>2
      <4> QED
        BY <4>4, <4>5
    <3> QED
      BY <1>3, <2>3, <3>1, <3>2
  <2>7. ~misled' => stream.row = work.status /\ ~(channel.ended /\ r = <<>>)
    BY <1>1, <2>3 DEF Misleads
  <2>8. CASE stream.row \in Terminal
    <3>1. w = r
      BY <2>4, <2>8
    <3>2. Says(wire, work.status)' /\ SnapshotTrue'
      BY <1>1, <2>3, <2>6, <3>1 DEF SnapshotTrue
    <3>3. work.status \in Terminal => HasOutcome(w) \/ (misled' /\ \A i \in DOMAIN w : w[i].type = "snapshot")
      <4> SUFFICES ASSUME work.status \in Terminal
                   PROVE  HasOutcome(w) \/ (misled' /\ \A i \in DOMAIN w : w[i].type = "snapshot")
        OBVIOUS
      <4>1. channel.ended
        BY <1>1, <1>5, <2>8 DEF EndInHistory, OutcomeOwed
      <4>2. CASE r = <<>>
        BY <1>1, <2>3, <3>1, <4>1, <4>2 DEF Misleads
      <4>3. CASE r # <<>>
        BY <1>1, <2>6, <3>1, <4>1, <4>3 DEF EndInHistory, HasOutcome
      <4> QED
        BY <4>2, <4>3
    <3>4. EndOnWire'
      BY <1>1, <2>3, <3>3 DEF EndOnWire
    <3>5. PhaseFollows'
      <4> SUFFICES ASSUME ~misled', AllTyping(w) PROVE FALSE
        BY <2>3 DEF PhaseFollows
      <4>1. work.status \in Terminal
        BY <2>7, <2>8
      <4> QED
        BY <3>3, <4>1 DEF HasOutcome, AllTyping
    <3> QED
      <4>1. Says(channel.history, work.status)' /\ Kinds' /\ EndInHistory'
        BY <1>5, LetInKeeps
      <4> QED
        BY <3>2, <3>4, <3>5, <4>1 DEF StatusInv
  <2>9. CASE stream.row \notin Terminal
    <3> DEFINE e == Event("snapshot", stream.row, 0)
    <3>1. /\ e.type = "snapshot" /\ e.status = stream.row
          /\ w[Len(r) + 1] = e /\ Len(r) + 1 \in DOMAIN w
          /\ \A i \in DOMAIN w : i = Len(r) + 1 \/ (i \in DOMAIN r /\ w[i] = r[i] /\ i < Len(r) + 1)
      <4>1. e.type = "snapshot" /\ e.status = stream.row
        BY DEF Event
      <4>2. Len(w) = Len(r) + 1 /\ w[Len(r) + 1] = e
        BY <2>4, <2>9
      <4>3. PICK n : n = Len(r)
        OBVIOUS
      <4>4. n \in Nat /\ DOMAIN w = 1..(n + 1) /\ DOMAIN r = 1..n
        BY <2>5, <4>2, <4>3
      <4>5. n + 1 \in DOMAIN w /\ \A i \in DOMAIN w : i = n + 1 \/ (i \in DOMAIN r /\ i < n + 1)
        BY <4>4
      <4>6. \A i \in DOMAIN r : w[i] = r[i]
        BY <2>4, <2>5
      <4> QED
        BY <4>1, <4>2, <4>3, <4>5, <4>6
    <3> HIDE DEF e
    <3>2. \A i \in DOMAIN w : Trails(w, i) => i = Len(r) + 1
      BY <3>1 DEF Trails
    <3>3. Says(wire, work.status)'
      BY <1>1, <2>3, <3>1, <3>2 DEF Says
    <3>4. SnapshotTrue'
      BY <1>1, <2>3, <2>7, <3>1, <3>2 DEF SnapshotTrue
    <3>5. work.status \in Terminal => HasOutcome(w) \/ (misled' /\ \A i \in DOMAIN w : w[i].type = "snapshot")
      <4> SUFFICES ASSUME work.status \in Terminal
                   PROVE  HasOutcome(w) \/ (misled' /\ \A i \in DOMAIN w : w[i].type = "snapshot")
        OBVIOUS
      <4>1. misled'
        BY <2>7, <2>9
      <4>2. CASE r = <<>>
        <5>1. Len(r) = 0
          BY <4>2, EmptySeq
        <5>2. DOMAIN r = {}
          BY <2>5, <5>1
        <5> QED
          BY <3>1, <4>1, <5>2
      <4>3. CASE r # <<>>
        <5>1. channel.ended
          BY <1>1, <1>3, <2>3, <4>3 DEF EndInHistory
        <5>2. PICK i \in DOMAIN r : r[i].type = "outcome"
          BY <1>1, <2>6, <4>3, <5>1 DEF EndInHistory
        <5>3. i \in DOMAIN w /\ w[i] = r[i]
          <6>1. w[i] = r[i] /\ i \in 1..Len(r)
            BY <2>4, <2>5, <5>2
          <6>2. i \in 1..Len(w)
            <7>1. Len(w) = Len(r) + 1 /\ Len(r) \in Nat
              BY <2>4, <2>5, <2>9
            <7> QED
              BY <6>1, <7>1
          <6> QED
            BY <2>5, <6>1, <6>2
        <5> QED
          BY <5>2, <5>3 DEF HasOutcome
      <4> QED
        BY <4>2, <4>3
    <3>6. EndOnWire'
      BY <1>1, <2>3, <3>5 DEF EndOnWire
    <3>7. PhaseFollows'
      BY <2>3, <3>1 DEF PhaseFollows, AllTyping
    <3> QED
      <4>1. Says(channel.history, work.status)' /\ Kinds' /\ EndInHistory'
        BY <1>5, LetInKeeps
      <4> QED
        BY <3>3, <3>4, <3>6, <3>7, <4>1 DEF StatusInv
  <2> QED
    BY <2>8, <2>9
<1> QED
  BY <1>4, <1>5

\* A frame reaches the tab.
LEMMA ArrivalIsTrue ==
  ASSUME PreviewInv, StatusInv, Deliver
  PROVE  StatusInv'
<1>1. /\ StreamTyped /\ EndsLast /\ EndInHistory /\ EndOnWire /\ PhaseFollows
      /\ Says(channel.history, work.status) /\ Says(wire, work.status) /\ SnapshotTrue /\ Kinds
      /\ wire \in Seq(Frame)
  BY DEF PreviewInv, StatusInv, StreamTyped
<1> DEFINE e == Head(wire)
<1>2. /\ UNCHANGED <<work, jobs, channel>> /\ stream.at = "open" /\ wire # <<>>
      /\ tab'.phase = PhaseAfter(e) /\ tab'.request = tab.request
      /\ misled' = (misled /\ (PhaseAfter(e) # e.status \/ \E i \in DOMAIN wire : wire[i].type = "snapshot"))
      /\ \/ stream' = Closed /\ wire' = <<>>
         \/ stream'.at = "open" /\ stream'.row = stream.row /\ e.type # "outcome" /\ wire' = Tail(wire)
  BY <1>1 DEF Deliver, StreamTyped, server
<1>3. e = wire[1] /\ e \in Frame /\ Len(wire) \in Nat \ {0} /\ DOMAIN wire = 1..Len(wire)
  BY <1>1, <1>2, TailFrames, FrameAt
<1> HIDE DEF e
<1>4. Says(channel.history, work.status)' /\ Kinds'
  BY <1>1, <1>2 DEF Says, Kinds
<1>5. EndInHistory'
  BY <1>1, <1>2 DEF EndInHistory, Closed, None, Terminal
<1>6. CASE stream' = Closed /\ wire' = <<>>
  <2>1. stream'.at # "open" /\ DOMAIN wire' = {}
    BY <1>6 DEF Closed
  <2> QED
    BY <1>4, <1>5, <2>1 DEF StatusInv, Says, SnapshotTrue, EndOnWire, PhaseFollows
<1>7. CASE stream'.at = "open" /\ e.type # "outcome" /\ wire' = Tail(wire)
  <2>1. PICK t : t = wire'
    OBVIOUS
  <2>2. /\ t \in Seq(Frame) /\ Len(t) = Len(wire) - 1
        /\ \A i \in 1..(Len(wire) - 1) : t[i] = wire[i + 1]
    BY <1>1, <1>2, <1>7, <2>1, TailFrames
  <2>3. \A i \in DOMAIN t : /\ i + 1 \in DOMAIN wire /\ t[i] = wire[i + 1]
                            /\ Trails(t, i) => Trails(wire, i + 1)
    <3>1. 1 \in 0..Len(wire)
      BY <1>3
    <3> QED
      BY <1>1, <2>2, <3>1, EndTrails
  <2>4. \A j \in DOMAIN wire : j = 1 \/ (j - 1 \in DOMAIN t /\ t[j - 1] = wire[j])
    <3>1. DOMAIN t = 1..(Len(wire) - 1)
      BY <2>2, FrameAt
    <3>2. \A j \in DOMAIN wire : j = 1 \/ (j - 1 \in 1..(Len(wire) - 1) /\ (j - 1) + 1 = j)
      BY <1>3
    <3> QED
      BY <2>2, <3>1, <3>2
  <2>5. (\E i \in DOMAIN wire : wire[i].type = "snapshot") => misled' = misled
    BY <1>1, <1>2 DEF StreamTyped
  <2>6. Says(wire, work.status)'
    BY <1>1, <1>2, <2>1, <2>3 DEF Says
  <2>7. SnapshotTrue'
    <3> SUFFICES ASSUME NEW i \in DOMAIN t, t[i].type = "snapshot", Trails(t, i)
                 PROVE  misled' \/ t[i].status = work.status
      BY <1>2, <2>1 DEF SnapshotTrue
    <3> QED
      BY <1>1, <2>3, <2>5 DEF SnapshotTrue
  <2>8. EndOnWire'
    <3> SUFFICES ASSUME work.status \in Terminal
                 PROVE  HasOutcome(t) \/ (misled' /\ \A i \in DOMAIN t : t[i].type = "snapshot")
      BY <1>2, <2>1 DEF EndOnWire
    <3>1. CASE HasOutcome(wire)
      <4>1. PICK j \in DOMAIN wire : wire[j].type = "outcome"
        BY <3>1 DEF HasOutcome
      <4> QED
        BY <1>3, <1>7, <2>4, <4>1 DEF HasOutcome
    <3>2. CASE misled /\ \A i \in DOMAIN wire : wire[i].type = "snapshot"
      <4>1. 1 \in DOMAIN wire
        BY <1>3
      <4> QED
        BY <2>3, <2>5, <3>2, <4>1
    <3> QED
      BY <1>1, <1>2, <3>1, <3>2 DEF EndOnWire
  <2>9. PhaseFollows'
    <3> SUFFICES ASSUME ~misled', AllTyping(t), ~Announcing
                 PROVE  \/ PhaseAfter(e) = work.status
                        \/ tab.request = "pause" /\ PhaseAfter(e) = "paused" /\ work.status = "running"
                        \/ tab.request = "resume" /\ PhaseAfter(e) = "running" /\ work.status = "paused"
      BY <1>2, <2>1 DEF PhaseFollows, Announcing
    <3>1. 1 \in DOMAIN wire /\ Trails(wire, 1)
      <4>1. \A j \in DOMAIN wire : 1 < j => wire[j].type = "progress"
        BY <2>4 DEF AllTyping
      <4> QED
        BY <1>3, <4>1 DEF Trails
    <3>2. CASE e.type = "progress"
      <4>1. e.status = work.status
        BY <1>1, <1>3, <3>1, <3>2 DEF Says
      <4>2. AllTyping(wire)
        BY <1>3, <3>1, <3>2 DEF AllTyping, Trails
      <4>3. CASE misled
        BY <1>2, <4>1, <4>2, <4>3 DEF AllTyping
      <4>4. CASE ~misled
        <5>1. \/ tab.phase = work.status
              \/ tab.request = "pause" /\ tab.phase = "paused" /\ work.status = "running"
              \/ tab.request = "resume" /\ tab.phase = "running" /\ work.status = "paused"
          BY <1>1, <1>2, <4>2, <4>4 DEF PhaseFollows
        <5> QED
          BY <4>1, <5>1 DEF PhaseAfter
      <4> QED
        BY <4>3, <4>4
    <3>3. CASE e.type = "status"
      BY <1>1, <1>3, <3>1, <3>3 DEF Says, PhaseAfter
    <3>4. CASE e.type = "snapshot"
      <4>1. ~misled
        BY <1>3, <2>5, <3>1, <3>4
      <4> QED
        BY <1>1, <1>3, <3>1, <3>4, <4>1 DEF SnapshotTrue, PhaseAfter
    <3> QED
      BY <1>3, <1>7, <3>2, <3>3, <3>4 DEF Frame
  <2> QED
    BY <1>4, <1>5, <2>6, <2>7, <2>8, <2>9 DEF StatusInv
<1> QED
  BY <1>2, <1>6, <1>7

LEMMA StatusHeld == StreamSpec => []StatusInv
<1>1. StreamInit => StatusInv
  <2> SUFFICES ASSUME StreamInit PROVE StatusInv
    OBVIOUS
  <2>1. /\ wire = <<>> /\ channel.history = <<>> /\ ~channel.ended /\ work.status = "running"
        /\ stream.at # "open" /\ "running" \notin Terminal
    BY DEF StreamInit, NoChannel, Terminal
  <2> QED
    BY <2>1 DEF StatusInv, Says, SnapshotTrue, EndInHistory, EndOnWire, PhaseFollows, Kinds
<1>2. PreviewInv /\ StatusInv /\ [StreamNext]_streamvars => StatusInv'
  BY TellingIsTrue, QuietIsTrue, ClickIsTrue, CutIsTrue, LettingInIsTrue, ArrivalIsTrue
     DEF StreamNext, ServerStep, TabStep
<1> QED
  BY <1>1, <1>2, PreviewHeld, PTL DEF StreamSpec

\* useJobStore.ts:569-664: a tab that has been told everything shows how its job
\* stands, whatever was dropped, paused at another tab, refused or restarted, unless
\* the row its stream was opened on was out of date.
THEOREM ToldTabAgrees == StreamSpec => []TabAgrees
<1>1. StatusInv => TabAgrees
  <2> SUFFICES ASSUME StatusInv, Settled, ~misled
               PROVE  tab.phase = work.status \/ (work.outcome # None /\ work.status \notin Terminal)
    BY DEF TabAgrees
  <2>1. AllTyping(wire) /\ tab.request = None /\ stream.at = "open"
    BY DEF Settled, AllTyping
  <2> QED
    BY <2>1 DEF StatusInv, PhaseFollows, Announcing, None
<1> QED
  BY <1>1, StatusHeld, PTL
=============================================================================
