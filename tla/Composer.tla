------------------------------ MODULE Composer ------------------------------
(***************************************************************************)
(* The composer of the browser: the debounced estimate that prices a text  *)
(* (refreshEstimate of store/useJobStore.ts, POST /estimate), the start    *)
(* button of components/Controls.tsx, and startJob with its answers.  A    *)
(* text is its version, the empty one 0; a price is the text it is of, or  *)
(* the undefined one that an answer without a body leaves.                 *)
(***************************************************************************)
EXTENDS Integers, FiniteSets

CONSTANTS
  MaxEdits,
  MaxStarts

ASSUME ComposerAssumption == {MaxEdits, MaxStarts} \subseteq Nat

VARIABLES
  text,
  armed,       \* estimateTimer
  estimates,   \* requests whose answer is not back: id and text
  requestId,   \* estimateRequestId
  priced,      \* jobCost, minDurationMs, bursts
  measuring,   \* estimating
  priceFailed, \* the latest request failed
  button,      \* whether the start button was enabled when last rendered
  progress,    \* phase
  creating,    \* createJob requests out
  edits, starts

estimation == <<armed, estimates, requestId, priced, measuring, priceFailed>>
composervars == <<text, estimation, button, progress, creating, edits, starts>>

ComposerInit ==
  /\ text = 0 /\ armed = FALSE /\ estimates = {} /\ requestId = 0
  /\ priced = 0 /\ measuring = FALSE /\ priceFailed = FALSE
  /\ button = FALSE /\ progress = "idle" /\ creating = 0
  /\ edits = 0 /\ starts = 0

NoPrice == -1   \* undefined

Locked == progress \in {"starting", "running"}

\* estimateController.abort(): no answer of these comes whole any more.
Aborted == {[e EXCEPT !.aborted = TRUE] : e \in estimates}

\* Mutant: a request already out will do.
ArmUnlessAsked == armed' = (text' # 0 /\ estimates = {})

Arm == armed' = (text' # 0)

\* setText and refreshEstimate
SetText(version) ==
  /\ edits < MaxEdits /\ edits' = edits + 1
  /\ text' = version
  /\ Arm
  /\ estimates' = Aborted
  /\ IF version = 0
       THEN priced' = 0 /\ measuring' = FALSE
       ELSE measuring' = TRUE /\ UNCHANGED priced
  /\ UNCHANGED <<requestId, priceFailed, button, progress, creating, starts>>

\* The debounce is over: the text as it is now is measured.
TimerFires ==
  /\ armed /\ armed' = FALSE
  /\ requestId' = requestId + 1
  /\ estimates' = estimates \cup {[id |-> requestId', text |-> text, aborted |-> FALSE]}
  /\ UNCHANGED <<text, priced, measuring, priceFailed, button, progress, creating, edits, starts>>

Estimated ==
  \E e \in estimates :
    /\ ~e.aborted /\ estimates' = estimates \ {e}
    /\ IF e.id = requestId
         THEN priced' = e.text /\ measuring' = FALSE /\ priceFailed' = FALSE
         ELSE UNCHANGED <<priced, measuring, priceFailed>>
    /\ UNCHANGED <<text, armed, requestId, button, progress, creating, edits, starts>>

\* The connection ends, or is aborted, while the body is read: request (lib/api.ts)
\* takes the body for {}, and what is stored is undefined.
EmptyAnswer ==
  \E e \in estimates :
    /\ estimates' = estimates \ {e}
    /\ IF e.id = requestId
         THEN priced' = NoPrice /\ measuring' = FALSE /\ priceFailed' = FALSE
         ELSE UNCHANGED <<priced, measuring, priceFailed>>
    /\ UNCHANGED <<text, armed, requestId, button, progress, creating, edits, starts>>

\* A failure or an abort before the body, or an answer that is not ok
EstimateFails ==
  \E e \in estimates :
    /\ estimates' = estimates \ {e}
    /\ IF e.id = requestId THEN measuring' = FALSE /\ priceFailed' = ~e.aborted
       ELSE UNCHANGED <<measuring, priceFailed>>
    /\ UNCHANGED <<text, armed, requestId, priced, button, progress, creating, edits, starts>>

-----------------------------------------------------------------------------
CanStart == ~Locked /\ text # 0 /\ priced > 0

Render ==
  /\ button' = CanStart
  /\ UNCHANGED <<text, estimation, progress, creating, edits, starts>>

MayStart == text # 0 /\ progress # "starting"

\* A click on the button as it was last drawn
StartJob ==
  /\ button /\ starts < MaxStarts /\ starts' = starts + 1
  /\ IF MayStart
       THEN progress' = "starting" /\ creating' = creating + 1
       ELSE UNCHANGED <<progress, creating>>
  /\ UNCHANGED <<text, estimation, button, edits>>

\* The server's answer: a job, no credits (the composer stays as it is), an error.
JobCreated ==
  /\ creating > 0 /\ creating' = creating - 1
  /\ progress' \in {"running", "idle", "failed"}
  /\ UNCHANGED <<text, estimation, button, edits, starts>>

\* The job ends, or the panel is reset.
JobOver ==
  /\ progress \in {"running", "failed"} /\ progress' = "idle"
  /\ UNCHANGED <<text, estimation, button, creating, edits, starts>>

ComposerNext ==
  \/ \E version \in 0..MaxEdits : SetText(version)
  \/ TimerFires \/ Estimated \/ EmptyAnswer \/ EstimateFails
  \/ Render \/ StartJob \/ JobCreated \/ JobOver

ComposerSpec == ComposerInit /\ [][ComposerNext]_composervars

-----------------------------------------------------------------------------
ComposerTypeOK ==
  /\ text \in 0..MaxEdits /\ priced \in 0..MaxEdits \cup {NoPrice}
  /\ {armed, measuring, button, priceFailed} \subseteq BOOLEAN
  /\ progress \in {"idle", "starting", "running", "failed"}
  /\ creating \in 0..1    \* one createJob at a time, however late the button is redrawn

\* useJobStore.ts:371-373: once nothing is out, a price that is shown is that of the text
\* in the composer, in whatever order the answers, their cut-off halves and the aborts
\* came, unless measuring it failed.  After an answer without a body none is shown.
PriceIsOfText ==
  ~armed /\ estimates = {} /\ ~priceFailed => priced \in {text, NoPrice}
=============================================================================
