----------------------------- MODULE DocRequests -----------------------------
(***************************************************************************)
(* From keystrokes to a batch: jobs/buffer.ts coalesces them into ops,     *)
(* planRequests of docs/documents.ts folds the ops of one window into      *)
(* requests, walking a local cursor, and Google applies the requests in    *)
(* order.  An index is the number of characters before it (the API counts  *)
(* from 1).                                                                *)
(***************************************************************************)
EXTENDS Integers, SequencesExt

CONSTANTS
  Characters,
  Before      \* what the document held when the job started, below its floor

ASSUME BeforeAssumption == Before \in Seq(Characters)

InsertOp(text) == [kind |-> "insert", text |-> text]
DeleteOp(count) == [kind |-> "delete", count |-> count]
InsertReq(at, text) == [kind |-> "insert", at |-> at, text |-> text]
DeleteReq(from, to) == [kind |-> "delete", from |-> from, to |-> to]

Floor == Len(Before)

\* TypingBuffer.push: runs of the same kind coalesce.
Pushed(ops, op) ==
  IF ops = <<>> \/ Last(ops).kind # op.kind THEN Append(ops, op)
  ELSE Append(Front(ops),
              IF op.kind = "insert" THEN InsertOp(Last(ops).text \o op.text)
              ELSE DeleteOp(Last(ops).count + op.count))

\* The plan of a batch so far: its requests, and the cursor after them.
EndsInInsert(p) == p.requests # <<>> /\ Last(p.requests).kind = "insert"

PlanInsert(p, text) ==
  [cursor |-> p.cursor + Len(text),
   requests |->
     IF EndsInInsert(p)
     THEN LET last == Last(p.requests)
          IN Append(Front(p.requests), InsertReq(last.at, last.text \o text))
     ELSE Append(p.requests, InsertReq(p.cursor, text))]

\* Mutant: a range is not clamped to the floor.
PlanRangeAnywhere(p, count) ==
  LET from == Max({0, p.cursor - count})
  IN IF from >= p.cursor THEN p
     ELSE [requests |-> Append(p.requests, DeleteReq(from, p.cursor)), cursor |-> from]

\* A deletion of text Google already has, never below the floor.
PlanRange(p, count) ==
  LET from == Max({Floor, p.cursor - count})
  IN IF from >= p.cursor THEN p
     ELSE [requests |-> Append(p.requests, DeleteReq(from, p.cursor)), cursor |-> from]

\* A backspace first trims the insert it follows; only the rest is a deletion.
PlanDelete(p, count) ==
  IF ~EndsInInsert(p) \/ p.cursor <= Floor THEN PlanRange(p, count)
  ELSE LET last == Last(p.requests)
           text == last.text
           trim == Min({Len(text), count, p.cursor - Floor})
           kept == SubSeq(text, 1, Len(text) - trim)
           left == [cursor |-> p.cursor - trim,
                    requests |->
                      IF kept = <<>> THEN Front(p.requests)
                      ELSE Append(Front(p.requests), InsertReq(last.at, kept))]
       IN IF count > trim THEN PlanRange(left, count - trim) ELSE left

PlanOp(p, op) == IF op.kind = "insert" THEN PlanInsert(p, op.text) ELSE PlanDelete(p, op.count)

PlanRequests(ops, cursor) == FoldLeft(PlanOp, [requests |-> <<>>, cursor |-> cursor], ops)

-----------------------------------------------------------------------------
(* Google's side, and what a reader of the ops expects. *)

Spliced(doc, from, to, text) ==
  SubSeq(doc, 1, from) \o text \o SubSeq(doc, to + 1, Len(doc))

\* A range outside the document is answered 400 and nothing is applied.
InRange(doc, r) ==
  IF r.kind = "insert" THEN r.at \in 0..Len(doc) ELSE r.from < r.to /\ r.to <= Len(doc)

ApplyRequest(doc, r) ==
  IF r.kind = "insert" THEN Spliced(doc, r.at, r.at, r.text) ELSE Spliced(doc, r.from, r.to, <<>>)

ApplyRequests(doc, requests) == FoldLeft(ApplyRequest, doc, requests)

\* The preview of the browser (applyOps), typing at the end of its text.
ApplyOp(shown, op) ==
  IF op.kind = "insert" THEN shown \o op.text
  ELSE SubSeq(shown, 1, Max({0, Len(shown) - op.count}))

ApplyOps(shown, ops) == FoldLeft(ApplyOp, shown, ops)
=============================================================================
