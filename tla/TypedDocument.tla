---------------------------- MODULE TypedDocument ----------------------------
(***************************************************************************)
(* What a typing job promises about the document: at any moment it shows   *)
(* what a person following the plan would have on the page after some of   *)
(* its events, it only moves forward through them, and a job cut short may *)
(* once put the mistake that is still on the page right.  A page that is   *)
(* Spoilt is beyond the promise; JobTyping says what spoils one.           *)
(***************************************************************************)
EXTENDS Integers, SequencesExt

CONSTANT Spoilt

VARIABLES
  plan,   \* the events of the job: keystrokes, gaps, repairs
  page    \* what the job has put in the document

\* A repair replaces `remove` characters after the first `offset` of the page.
Repaired(text, e) ==
  SubSeq(text, 1, e.offset) \o e.insert \o SubSeq(text, e.offset + e.remove + 1, Len(text))

Written(text, e) ==
  CASE e.kind = "type" -> Append(text, e.char)
    [] e.kind = "repair" -> Repaired(text, e)
    [] OTHER -> text

\* The page after the first n events.
Draft(p, n) == FoldLeft(Written, <<>>, SubSeq(p, 1, n))

\* The page at the end: the text the job was charged for.
Text(p) == Draft(p, Len(p))

\* At most one mistake is ever outstanding, and it refers to text already written:
\* a repair is of text that is there, all of it typed after the repair before.
OneOutstanding(p) ==
  \A i \in 1..Len(p) : p[i].kind = "repair" =>
    /\ p[i].offset + p[i].remove <= Len(Draft(p, i - 1))
    /\ \A h \in 1..(i - 1) : p[h].kind = "repair" => Len(Draft(p, h)) <= p[i].offset

Events == 1..Len(plan)

Init == page = <<>>

GoOn ==
  /\ \E m, n \in Events : m <= n /\ page = Draft(plan, m - 1) /\ page' = Draft(plan, n)
  /\ UNCHANGED plan

\* The correction nobody would come back to make, made ahead of its turn.
Tidy ==
  /\ \E m, n \in Events :
       /\ m <= n /\ plan[n].kind = "repair"
       /\ \A i \in m..(n - 1) : plan[i].kind # "repair"
       /\ page = Draft(plan, m - 1)
       /\ plan[n].offset + plan[n].remove <= Len(page)
       /\ page' = Repaired(page, plan[n])
  /\ UNCHANGED plan

Spoil == page' = Spoilt /\ UNCHANGED plan

Next == page # Spoilt /\ (GoOn \/ Tidy \/ Spoil)

Spec == Init /\ [][Next]_<<plan, page>>
=============================================================================
