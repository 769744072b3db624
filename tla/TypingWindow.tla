---------------------------- MODULE TypingWindow ----------------------------
(***************************************************************************)
(* One window of typing, key by key: what jobs/buffer.ts makes of the keys *)
(* against the batch docs/documents.ts would send at any moment.           *)
(***************************************************************************)
EXTENDS DocRequests

CONSTANTS
  Sent,       \* what earlier windows of the job left in the document
  Keys,       \* the ops one event of the replay loop pushes
  MaxWindow   \* events in one window

ASSUME WindowAssumption ==
  /\ Sent \in Seq(Characters) /\ MaxWindow \in Nat
  /\ Keys \subseteq [kind : {"insert"}, text : Seq(Characters) \ {<<>>}] \cup [kind : {"delete"}, count : Nat]

VARIABLES
  window,     \* TypingBuffer.ops
  pressed,    \* events in the window so far
  typed       \* the text as the typist sees it

windowvars == <<window, pressed, typed>>

WindowInit ==
  /\ typed = Sent
  /\ window = <<>> /\ pressed = 0

\* TypingBuffer.push
Press(key) ==
  /\ pressed < MaxWindow /\ pressed' = pressed + 1
  /\ window' = Pushed(window, key)
  /\ typed' = ApplyOp(typed, key)

WindowNext == \E key \in Keys : Press(key)

WindowSpec == WindowInit /\ [][WindowNext]_windowvars

\* documents.ts:94-108 and buffer.ts:7-9: coalescing keys, merging inserts and
\* trimming them changes nothing a reader sees; the cursor ends where the text
\* does, backspaces past the job's own text leave what was there before, and a
\* batch never has more requests than keys were pressed.
BatchIsExact ==
  LET doc == Before \o Sent
      p == PlanRequests(window, Len(doc))
      after == ApplyRequests(doc, p.requests)
  IN /\ after = Before \o typed
     /\ p.cursor = Len(after)
     /\ Len(p.requests) <= pressed
=============================================================================
