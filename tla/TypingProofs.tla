---------------------------- MODULE TypingProofs ----------------------------
(***************************************************************************)
(* What a job sends to Google, and what becomes of the page, proved for    *)
(* any document, plan, window of keys and number of refusals and lost      *)
(* answers.                                                                *)
(*                                                                         *)
(* A window: the requests planned for a batch leave the document the       *)
(* typist sees.  Its last insert is not sent yet, so a backspace may still *)
(* trim it: Fits says that without it the plan ends where it stands.       *)
(*                                                                         *)
(* A job: the chain holds at most one call of the replay and one of the    *)
(* flush loop, each waited for by who made it (Queued), so that the        *)
(* cursor a call is planned from is the one the call before it left.       *)
(* Until an answer is lost that is the end of the document (Believed).     *)
(*                                                                         *)
(* A job, once more: what it has typed and not written is in a batch or in *)
(* the buffer, in order, so page, chain and buffer are stretches of the    *)
(* plan, one after the other (Via).  Once a batch has been dropped the     *)
(* page lacks its text, and since a repair is of text typed after the one  *)
(* before it, at most one repair can still be made (Short).                *)
(*                                                                         *)
(* FoldSteps says of a fold what an induction would: its value on a longer *)
(* sequence is one more step.                                              *)
(***************************************************************************)

EXTENDS TypingWindow, JobTyping, TLAPS, SequenceTheorems

\* What the folds of DocRequests compute, step by step
Google == INSTANCE FoldSteps WITH Op <- ApplyRequest
Planner == INSTANCE FoldSteps WITH Op <- PlanOp
Browser == INSTANCE FoldSteps WITH Op <- ApplyOp

-----------------------------------------------------------------------------
\* ---- The sequences the proofs are about

\* Math.max of two lengths, as documents.ts:131 clamps a deletion to the floor
LEMMA MaxOfTwo == \A a, b \in Int : Max({a, b}) = IF a >= b THEN a ELSE b
<1> TAKE a, b \in Int
<1> DEFINE m == IF a >= b THEN a ELSE b
<1>1. m \in {a, b} /\ \A y \in {a, b} : m >= y
  OBVIOUS
<1> HIDE DEF m
<1>2. Max({a, b}) \in {a, b} /\ \A y \in {a, b} : Max({a, b}) >= y
  BY <1>1, Zenon DEF Max
<1>3. m \in Int /\ Max({a, b}) \in Int
  BY <1>1, <1>2
<1>4. Max({a, b}) >= m /\ m >= Max({a, b})
  BY <1>1, <1>2
<1> QED
  BY <1>3, <1>4 DEF m

\* Math.min of three lengths, as documents.ts:137 trims an insert
LEMMA MinOfThree ==
  \A a, b, c \in Int : Min({a, b, c}) = IF a <= b /\ a <= c THEN a ELSE IF b <= c THEN b ELSE c
<1> TAKE a, b, c \in Int
<1> DEFINE m == IF a <= b /\ a <= c THEN a ELSE IF b <= c THEN b ELSE c
           S == {a, b, c}
<1>1. m \in S /\ \A y \in S : m =< y
  OBVIOUS
<1>2. S \subseteq Int
  OBVIOUS
<1> HIDE DEF m, S
<1>3. Min(S) \in S /\ \A y \in S : Min(S) =< y
  BY <1>1, Zenon DEF Min
<1>4. m \in Int /\ Min(S) \in Int
  BY <1>1, <1>2, <1>3
<1>5. Min(S) <= m /\ m <= Min(S)
  BY <1>1, <1>3
<1> QED
  BY <1>4, <1>5 DEF m, S

\* The first n elements of a sequence
LEMMA PrefixIs ==
  ASSUME NEW C, NEW s \in Seq(C), NEW n \in 0..Len(s)
  PROVE  /\ SubSeq(s, 1, n) \in Seq(C) /\ Len(SubSeq(s, 1, n)) = n
         /\ \A i \in 1..n : SubSeq(s, 1, n)[i] = s[i]
<1>1. \A i \in 1..n : s[i] \in C
  OBVIOUS
<1> QED
  BY <1>1, SubSeqProperties

\* A prefix of a prefix is a prefix.
LEMMA PrefixOfPrefix ==
  ASSUME NEW C, NEW s \in Seq(C), NEW n \in 0..Len(s), NEW m \in 0..n
  PROVE  SubSeq(SubSeq(s, 1, n), 1, m) = SubSeq(s, 1, m)
<1> DEFINE p == SubSeq(s, 1, n)
<1>1. p \in Seq(C) /\ Len(p) = n /\ \A i \in 1..n : p[i] = s[i]
  BY PrefixIs
<1> HIDE DEF p
<1>2. /\ SubSeq(p, 1, m) \in Seq(C) /\ Len(SubSeq(p, 1, m)) = m
      /\ \A i \in 1..m : SubSeq(p, 1, m)[i] = p[i]
  BY <1>1, PrefixIs
<1>3. /\ SubSeq(s, 1, m) \in Seq(C) /\ Len(SubSeq(s, 1, m)) = m
      /\ \A i \in 1..m : SubSeq(s, 1, m)[i] = s[i]
  <2>1. m \in 0..Len(s)
    OBVIOUS
  <2> QED
    BY <2>1, PrefixIs
<1> QED
  BY <1>1, <1>2, <1>3, SeqEqual DEF p

\* A prefix of a text and what was typed after it ends in the one or in the other.
LEMMA PrefixOfConcat ==
  ASSUME NEW C, NEW s \in Seq(C), NEW t \in Seq(C)
  PROVE  /\ \A n \in 0..Len(s) : SubSeq(s \o t, 1, n) = SubSeq(s, 1, n)
         /\ \A n \in 0..Len(t) : SubSeq(s \o t, 1, Len(s) + n) = s \o SubSeq(t, 1, n)
<1> DEFINE c == s \o t
<1>1. /\ c \in Seq(C) /\ Len(c) = Len(s) + Len(t)
      /\ \A i \in 1..(Len(s) + Len(t)) : c[i] = IF i <= Len(s) THEN s[i] ELSE t[i - Len(s)]
  BY ConcatProperties
<1>2. Len(s) \in Nat /\ Len(t) \in Nat
  OBVIOUS
<1> HIDE DEF c
<1>3. ASSUME NEW n \in 0..Len(s) PROVE SubSeq(c, 1, n) = SubSeq(s, 1, n)
  <2>1. n \in 0..Len(c)
    BY <1>1, <1>2
  <2>2. /\ SubSeq(c, 1, n) \in Seq(C) /\ Len(SubSeq(c, 1, n)) = n
        /\ \A i \in 1..n : SubSeq(c, 1, n)[i] = c[i]
    BY <1>1, <2>1, PrefixIs
  <2>3. /\ SubSeq(s, 1, n) \in Seq(C) /\ Len(SubSeq(s, 1, n)) = n
        /\ \A i \in 1..n : SubSeq(s, 1, n)[i] = s[i]
    BY PrefixIs
  <2>4. \A i \in 1..n : c[i] = s[i]
    BY <1>1, <1>2
  <2> QED
    BY <2>2, <2>3, <2>4, SeqEqual
<1>4. ASSUME NEW n \in 0..Len(t) PROVE SubSeq(c, 1, Len(s) + n) = s \o SubSeq(t, 1, n)
  <2> DEFINE m == Len(s) + n
             p == SubSeq(t, 1, n)
  <2>1. m \in 0..Len(c)
    BY <1>1, <1>2
  <2>2. /\ SubSeq(c, 1, m) \in Seq(C) /\ Len(SubSeq(c, 1, m)) = m
        /\ \A i \in 1..m : SubSeq(c, 1, m)[i] = c[i]
    BY <1>1, <2>1, PrefixIs
  <2>3. p \in Seq(C) /\ Len(p) = n /\ \A i \in 1..n : p[i] = t[i]
    BY PrefixIs
  <2> HIDE DEF p
  <2>4. /\ s \o p \in Seq(C) /\ Len(s \o p) = m
        /\ \A i \in 1..m : (s \o p)[i] = IF i <= Len(s) THEN s[i] ELSE p[i - Len(s)]
    BY <2>3, ConcatProperties
  <2>5. ASSUME NEW i \in 1..m PROVE SubSeq(c, 1, m)[i] = (s \o p)[i]
    <3>1. i \in 1..(Len(s) + Len(t)) /\ (i > Len(s) => i - Len(s) \in 1..n)
      BY <1>2
    <3>2. SubSeq(c, 1, m)[i] = IF i <= Len(s) THEN s[i] ELSE t[i - Len(s)]
      BY <1>1, <2>2, <3>1
    <3>3. (s \o p)[i] = IF i <= Len(s) THEN s[i] ELSE t[i - Len(s)]
      BY <1>2, <2>3, <2>4, <3>1
    <3> QED
      BY <3>2, <3>3
  <2> HIDE DEF m
  <2>6. SubSeq(c, 1, m) = s \o p
    BY <2>2, <2>4, <2>5, SeqEqual
  <2> QED
    BY <2>6 DEF m, p
<1> QED
  BY <1>3, <1>4 DEF c

\* A sequence that does not end is what precedes its last element, and that.
LEMMA FrontAndLast ==
  ASSUME NEW C, NEW s \in Seq(C), s # <<>>
  PROVE  /\ Front(s) \in Seq(C) /\ Len(Front(s)) = Len(s) - 1 /\ Last(s) \in C
         /\ s = Append(Front(s), Last(s)) /\ Last(s) = s[Len(s)]
<1>1. Len(s) \in Nat \ {0} /\ s[Len(s)] \in C
  OBVIOUS
<1>2. Len(s) - 1 \in 0..Len(s)
  BY <1>1
<1> DEFINE f == SubSeq(s, 1, Len(s) - 1)
<1>3. f \in Seq(C) /\ Len(f) = Len(s) - 1 /\ \A i \in 1..(Len(s) - 1) : f[i] = s[i]
  BY <1>2, PrefixIs
<1> HIDE DEF f
<1>4. s = Append(f, s[Len(s)])
  <2> DEFINE a == Append(f, s[Len(s)])
  <2>1. a \in Seq(C) /\ Len(a) = Len(s) /\ \A i \in 1..Len(s) : a[i] = s[i]
    BY <1>1, <1>3
  <2> HIDE DEF a
  <2>2. a = s
    BY <2>1, SeqEqual
  <2> QED
    BY <2>2 DEF a
<1> QED
  BY <1>1, <1>3, <1>4 DEF f, Front, Last

\* What was appended is taken off again.
LEMMA AppendFront ==
  ASSUME NEW C, NEW s \in Seq(C), NEW e
  PROVE  Front(Append(s, e)) = s /\ Last(Append(s, e)) = e /\ Append(s, e) # <<>>
BY DEF Front, Last

-----------------------------------------------------------------------------
\* ---- A window of keys

\* docs/documents.ts: Google applies the requests of a batch one after the other.
LEMMA RequestsInTurn ==
  /\ \A page : ApplyRequests(page, <<>>) = page
  /\ \A E, page, r : \A s \in Seq(E) :
       ApplyRequests(page, Append(s, r)) = ApplyRequest(ApplyRequests(page, s), r)
<1>1. \A page, s : ApplyRequests(page, s) = Google!Fold(page, s)
  BY DEF ApplyRequests, Google!Fold, Google!FoldLeft, Google!MapThenFoldSet, Google!Max,
         FoldLeft, MapThenFoldSet, Max
<1> QED
  BY <1>1, Google!FoldEmpty, Google!FoldAppend

\* docs/documents.ts:118-155: the requests of a batch come from its ops one after the other.
LEMMA OpsInTurn ==
  /\ \A at : PlanRequests(<<>>, at) = [requests |-> <<>>, cursor |-> at]
  /\ \A E, at, op : \A s \in Seq(E) :
       PlanRequests(Append(s, op), at) = PlanOp(PlanRequests(s, at), op)
<1> DEFINE base(at) == [requests |-> <<>>, cursor |-> at]
<1>1. \A at, s : PlanRequests(s, at) = Planner!Fold(base(at), s)
  BY DEF PlanRequests, Planner!Fold, Planner!FoldLeft, Planner!MapThenFoldSet, Planner!Max,
         FoldLeft, MapThenFoldSet, Max
<1>2. \A at : base(at) = [requests |-> <<>>, cursor |-> at]
  OBVIOUS
<1> HIDE DEF base
<1>3. \A at : PlanRequests(<<>>, at) = base(at)
  BY <1>1, Planner!FoldEmpty
<1>4. \A E, at, op : \A s \in Seq(E) :
       PlanRequests(Append(s, op), at) = PlanOp(PlanRequests(s, at), op)
  BY <1>1, Planner!FoldAppend
<1> QED
  BY <1>2, <1>3, <1>4

-----------------------------------------------------------------------------
RequestSet(C) == [kind : {"insert"}, at : Nat, text : Seq(C)] \cup [kind : {"delete"}, from : Nat, to : Nat]
OpSet(C) == [kind : {"insert"}, text : Seq(C)] \cup [kind : {"delete"}, count : Nat]

\* A document that begins with what was there before
Keeps(C, text) == text \in Seq(C) /\ Floor <= Len(text) /\ SubSeq(text, 1, Floor) = Before

\* What a backspace leaves of a text, which it never shortens below the floor
Cut(text, n) == SubSeq(text, 1, Max({Floor, Len(text) - n}))

\* What an op means at the end of a document
Keyed(text, op) == IF op.kind = "insert" THEN text \o op.text ELSE Cut(text, op.count)

After(page, p) == ApplyRequests(page, p.requests)

\* The plan p of a batch for page leaves a document whose end the cursor is.
Aims(C, page, p) ==
  /\ p \in [cursor : Nat, requests : Seq(RequestSet(C))]
  /\ Keeps(C, After(page, p)) /\ p.cursor = Len(After(page, p))

\* The plan q and one more request, an insert
Inserting(q, text) ==
  [cursor |-> q.cursor + Len(text), requests |-> Append(q.requests, InsertReq(q.cursor, text))]

\* The plan without its last request
WithoutLast(page, p) ==
  [cursor |-> Len(ApplyRequests(page, Front(p.requests))), requests |-> Front(p.requests)]

\* An insert at the end of a plan stands at the end of the document, alone.
Fits(C, page, p) ==
  /\ Aims(C, page, p)
  /\ EndsInInsert(p) =>
       /\ Aims(C, page, WithoutLast(page, p)) /\ ~EndsInInsert(WithoutLast(page, p))
       /\ Last(p.requests).at = WithoutLast(page, p).cursor

\* The floor is a place in the document.
LEMMA FloorIs == ASSUME NEW C, Before \in Seq(C) PROVE Floor \in Nat
BY DEF Floor

\* documents.ts:131: a backspace shortens a document to the floor at most.
LEMMA CutIs ==
  ASSUME NEW C, Before \in Seq(C), NEW text, Keeps(C, text), NEW n \in Nat
  PROVE  /\ Keeps(C, Cut(text, n))
         /\ Len(Cut(text, n)) = IF Floor >= Len(text) - n THEN Floor ELSE Len(text) - n
         /\ Cut(text, n) = SubSeq(text, 1, Len(Cut(text, n)))
         /\ Len(Cut(text, n)) \in 0..Len(text)
<1> DEFINE m == Max({Floor, Len(text) - n})
<1>1. Floor \in Nat /\ text \in Seq(C) /\ Len(text) \in Nat /\ Floor <= Len(text)
      /\ SubSeq(text, 1, Floor) = Before
  BY FloorIs DEF Keeps
<1>2. m = IF Floor >= Len(text) - n THEN Floor ELSE Len(text) - n
  <2>1. Floor \in Int /\ Len(text) - n \in Int
    BY <1>1
  <2> QED
    BY <2>1, MaxOfTwo
<1> HIDE DEF m
<1>3. m \in 0..Len(text) /\ Floor \in 0..m
  BY <1>1, <1>2
<1>4. SubSeq(text, 1, m) \in Seq(C) /\ Len(SubSeq(text, 1, m)) = m
  BY <1>1, <1>3, PrefixIs
<1>5. SubSeq(SubSeq(text, 1, m), 1, Floor) = Before
  BY <1>1, <1>3, PrefixOfPrefix
<1>6. Cut(text, n) = SubSeq(text, 1, m)
  BY DEF Cut, m
<1>7. Floor <= m
  BY <1>3
<1> QED
  BY <1>2, <1>3, <1>4, <1>5, <1>6, <1>7 DEF Keeps

\* buffer.ts:7-9: backspaces add up, the floor notwithstanding.
LEMMA CutTwice ==
  ASSUME NEW C, Before \in Seq(C), NEW text, Keeps(C, text), NEW m \in Nat, NEW n \in Nat
  PROVE  Cut(Cut(text, m), n) = Cut(text, m + n)
<1>1. m + n \in Nat /\ Floor \in Nat /\ Len(text) \in Nat /\ text \in Seq(C)
  BY FloorIs DEF Keeps
<1> DEFINE c == Cut(text, m)
           d == Cut(c, n)
           e == Cut(text, m + n)
<1>2. Keeps(C, c) /\ c = SubSeq(text, 1, Len(c)) /\ Len(c) \in 0..Len(text)
      /\ Len(c) = IF Floor >= Len(text) - m THEN Floor ELSE Len(text) - m
  BY CutIs
<1>3. e = SubSeq(text, 1, Len(e))
      /\ Len(e) = IF Floor >= Len(text) - (m + n) THEN Floor ELSE Len(text) - (m + n)
  BY <1>1, CutIs
<1> HIDE DEF c, e
<1>4. d = SubSeq(c, 1, Len(d)) /\ Len(d) \in 0..Len(c)
      /\ Len(d) = IF Floor >= Len(c) - n THEN Floor ELSE Len(c) - n
  BY <1>2, CutIs
<1> HIDE DEF d
<1>5. Len(d) = Len(e)
  BY <1>1, <1>2, <1>3, <1>4
<1>6. d = SubSeq(text, 1, Len(d))
  BY <1>1, <1>2, <1>4, PrefixOfPrefix
<1> QED
  BY <1>3, <1>5, <1>6 DEF c, d, e

\* No op takes away what was in the document before the job.
LEMMA KeyedKeeps ==
  ASSUME NEW C, Before \in Seq(C), NEW text, Keeps(C, text), NEW op \in OpSet(C)
  PROVE  Keeps(C, Keyed(text, op))
<1>1. text \in Seq(C) /\ Len(text) \in Nat /\ Floor \in 0..Len(text) /\ SubSeq(text, 1, Floor) = Before
  BY FloorIs DEF Keeps
<1>2. CASE op.kind = "insert"
  <2>1. op.text \in Seq(C)
    BY <1>2 DEF OpSet
  <2>2. text \o op.text \in Seq(C) /\ Floor <= Len(text \o op.text)
    BY <1>1, <2>1
  <2>3. SubSeq(text \o op.text, 1, Floor) = SubSeq(text, 1, Floor)
    BY <1>1, <2>1, PrefixOfConcat
  <2> QED
    BY <1>1, <1>2, <2>2, <2>3 DEF Keeps, Keyed
<1>3. CASE op.kind # "insert"
  <2>1. op.count \in Nat
    BY <1>3 DEF OpSet
  <2> QED
    BY <1>3, <2>1, CutIs DEF Keyed
<1> QED
  BY <1>2, <1>3

\* An insert at the end of the document
LEMMA InsertAtEnd ==
  ASSUME NEW C, NEW page \in Seq(C), NEW text \in Seq(C)
  PROVE  ApplyRequest(page, InsertReq(Len(page), text)) = page \o text
<1>1. SubSeq(page, 1, Len(page)) = page
  BY SubSeqFull
<1>2. SubSeq(page, Len(page) + 1, Len(page)) = <<>>
  BY SubSeqEmpty
<1>3. page \o text \in Seq(C) /\ (page \o text) \o <<>> = page \o text
  BY ConcatEmptySeq
<1> QED
  BY <1>1, <1>2, <1>3 DEF ApplyRequest, InsertReq, Spliced

\* A deletion up to the end of the document
LEMMA DeleteToEnd ==
  ASSUME NEW C, NEW page \in Seq(C), NEW from \in 0..Len(page)
  PROVE  ApplyRequest(page, DeleteReq(from, Len(page))) = SubSeq(page, 1, from)
<1>1. SubSeq(page, Len(page) + 1, Len(page)) = <<>>
  BY SubSeqEmpty
<1>2. SubSeq(page, 1, from) \in Seq(C)
  BY PrefixIs
<1>3. (SubSeq(page, 1, from) \o <<>>) \o <<>> = SubSeq(page, 1, from)
  BY <1>2, ConcatEmptySeq
<1> QED
  BY <1>1, <1>3 DEF ApplyRequest, DeleteReq, Spliced

-----------------------------------------------------------------------------
\* A plan that gets an insert does what typing its text at the end does.
LEMMA InsertingFits ==
  ASSUME NEW C, Before \in Seq(C), NEW page, NEW q, Aims(C, page, q), ~EndsInInsert(q), NEW text \in Seq(C)
  PROVE  /\ Fits(C, page, Inserting(q, text)) /\ EndsInInsert(Inserting(q, text))
         /\ After(page, Inserting(q, text)) = After(page, q) \o text
         /\ Len(Inserting(q, text).requests) = Len(q.requests) + 1
<1> DEFINE p == Inserting(q, text)
           r == InsertReq(q.cursor, text)
<1>1. q.cursor \in Nat /\ q.requests \in Seq(RequestSet(C)) /\ After(page, q) \in Seq(C)
      /\ q.cursor = Len(After(page, q)) /\ q = [cursor |-> q.cursor, requests |-> q.requests]
      /\ Floor \in Nat /\ Floor <= Len(After(page, q)) /\ SubSeq(After(page, q), 1, Floor) = Before
  BY FloorIs DEF Aims, Keeps
<1>2. r \in RequestSet(C) /\ r.kind = "insert" /\ r.at = q.cursor
  BY <1>1 DEF RequestSet, InsertReq
<1>3. p.requests = Append(q.requests, r) /\ p.cursor = q.cursor + Len(text) /\ Len(text) \in Nat
      /\ p = [cursor |-> p.cursor, requests |-> p.requests]
  BY DEF Inserting
<1> HIDE DEF p, r
<1>4. p \in [cursor : Nat, requests : Seq(RequestSet(C))] /\ Len(p.requests) = Len(q.requests) + 1
  <2>1. p.requests \in Seq(RequestSet(C)) /\ Len(p.requests) = Len(q.requests) + 1
    BY <1>1, <1>2, <1>3
  <2>2. p.cursor \in Nat
    BY <1>1, <1>3
  <2> QED
    BY <1>3, <2>1, <2>2
<1>5. Front(p.requests) = q.requests /\ Last(p.requests) = r /\ p.requests # <<>>
  BY <1>1, <1>3, AppendFront
<1>6. After(page, p) = After(page, q) \o text
  <2>1. After(page, p) = ApplyRequest(After(page, q), r)
    BY <1>1, <1>3, RequestsInTurn DEF After
  <2> QED
    BY <1>1, <2>1, InsertAtEnd DEF r
<1>7. Keeps(C, After(page, p)) /\ p.cursor = Len(After(page, p))
  <2>1. SubSeq(After(page, q) \o text, 1, Floor) = SubSeq(After(page, q), 1, Floor)
    BY <1>1, PrefixOfConcat
  <2>2. After(page, q) \o text \in Seq(C) /\ Len(After(page, q) \o text) = Len(After(page, q)) + Len(text)
    BY <1>1
  <2> QED
    BY <1>1, <1>3, <1>6, <2>1, <2>2 DEF Keeps
<1>8. WithoutLast(page, p) = q
  <2>1. WithoutLast(page, p) = [cursor |-> Len(After(page, q)), requests |-> q.requests]
    BY <1>5 DEF WithoutLast, After
  <2> QED
    BY <1>1, <2>1
<1> QED
  BY <1>2, <1>4, <1>5, <1>6, <1>7, <1>8 DEF Fits, Aims, EndsInInsert, p

\* A plan that ends in an insert is the one without it and that insert.
LEMMA LastInsert ==
  ASSUME NEW C, Before \in Seq(C), NEW page, NEW p, Fits(C, page, p), EndsInInsert(p)
  PROVE  LET q == WithoutLast(page, p)
             text == Last(p.requests).text
         IN /\ Aims(C, page, q) /\ ~EndsInInsert(q) /\ text \in Seq(C)
            /\ p = Inserting(q, text) /\ Last(p.requests) = InsertReq(q.cursor, text)
            /\ q.requests = Front(p.requests)
<1> DEFINE q == WithoutLast(page, p)
           r == Last(p.requests)
<1>1. p.cursor \in Nat /\ p.requests \in Seq(RequestSet(C)) /\ p.requests # <<>> /\ r.kind = "insert"
      /\ p = [cursor |-> p.cursor, requests |-> p.requests] /\ p.cursor = Len(After(page, p))
  BY DEF Fits, Aims, EndsInInsert
<1>2. Aims(C, page, q) /\ ~EndsInInsert(q) /\ r.at = q.cursor
  BY DEF Fits
<1>3. q.requests = Front(p.requests)
  BY DEF WithoutLast
<1>4. q.cursor \in Nat /\ q.requests \in Seq(RequestSet(C)) /\ After(page, q) \in Seq(C)
      /\ q.cursor = Len(After(page, q))
  BY <1>2 DEF Aims, Keeps
<1> HIDE DEF q, r
<1>5. r \in RequestSet(C) /\ p.requests = Append(q.requests, r)
  BY <1>1, <1>3, FrontAndLast DEF r
<1>6. r.text \in Seq(C) /\ r = InsertReq(q.cursor, r.text)
  BY <1>1, <1>2, <1>5 DEF RequestSet, InsertReq
<1>7. After(page, p) = After(page, q) \o r.text
  <2>1. After(page, p) = ApplyRequest(After(page, q), r)
    BY <1>4, <1>5, RequestsInTurn DEF After
  <2> QED
    BY <1>4, <1>6, <2>1, InsertAtEnd
<1>8. p.cursor = q.cursor + Len(r.text)
  BY <1>1, <1>4, <1>6, <1>7
<1>9. p = Inserting(q, r.text)
  BY <1>1, <1>5, <1>6, <1>8 DEF Inserting
<1> QED
  BY <1>2, <1>3, <1>6, <1>9 DEF q, r

\* documents.ts:145-154: a deletion of text that is not the last insert of its batch, which
\* does what the backspaces mean
LEMMA RangeFits ==
  ASSUME NEW C, Before \in Seq(C), NEW page, NEW p, Aims(C, page, p), ~EndsInInsert(p), NEW n \in Nat
  PROVE  /\ Fits(C, page, PlanRange(p, n))
         /\ After(page, PlanRange(p, n)) = Cut(After(page, p), n)
         /\ Len(PlanRange(p, n).requests) <= Len(p.requests) + 1
<1> DEFINE a == After(page, p)
           from == Max({Floor, p.cursor - n})
           d == DeleteReq(from, p.cursor)
           r == PlanRange(p, n)
<1>1. p.cursor \in Nat /\ p.requests \in Seq(RequestSet(C)) /\ a \in Seq(C) /\ p.cursor = Len(a) /\ Keeps(C, a)
      /\ Floor \in Nat /\ Floor <= Len(a) /\ Len(p.requests) \in Nat
  BY FloorIs DEF Aims, Keeps
<1>2. Cut(a, n) = SubSeq(a, 1, from) /\ Keeps(C, Cut(a, n)) /\ from = Len(Cut(a, n)) /\ from \in 0..Len(a)
  <2>1. Cut(a, n) = SubSeq(a, 1, from)
    BY <1>1 DEF Cut
  <2>2. Keeps(C, Cut(a, n)) /\ Len(Cut(a, n)) \in 0..Len(a)
        /\ Len(Cut(a, n)) = IF Floor >= Len(a) - n THEN Floor ELSE Len(a) - n
    BY <1>1, CutIs
  <2>3. from = IF Floor >= p.cursor - n THEN Floor ELSE p.cursor - n
    <3>1. Floor \in Int /\ p.cursor - n \in Int
      BY <1>1
    <3> QED
      BY <3>1, MaxOfTwo
  <2> QED
    BY <1>1, <2>1, <2>2, <2>3
<1> HIDE DEF a, from
<1>3. CASE from >= p.cursor
  <2>1. r = p
    BY <1>3 DEF PlanRange, from
  <2>2. from = Len(a)
    BY <1>1, <1>2, <1>3
  <2>3. Cut(a, n) = a
    BY <1>1, <1>2, <2>2, SubSeqFull
  <2> QED
    BY <1>1, <2>1, <2>3 DEF Fits, a
<1>4. CASE ~(from >= p.cursor)
  <2>1. r = [requests |-> Append(p.requests, d), cursor |-> from]
    BY <1>4 DEF PlanRange, from
  <2>2. d \in RequestSet(C) /\ d.kind = "delete" /\ d = DeleteReq(from, Len(a))
    <3>1. from \in Nat /\ p.cursor \in Nat
      BY <1>1, <1>2
    <3> QED
      BY <1>1, <3>1 DEF RequestSet, DeleteReq
  <2> HIDE DEF d
  <2>3. r.requests = Append(p.requests, d) /\ r.cursor = from
        /\ r \in [cursor : Nat, requests : Seq(RequestSet(C))] /\ Len(r.requests) = Len(p.requests) + 1
    BY <1>1, <1>2, <2>1, <2>2
  <2> HIDE DEF r
  <2>4. After(page, r) = SubSeq(a, 1, from)
    <3>1. After(page, r) = ApplyRequest(a, d)
      BY <1>1, <2>3, RequestsInTurn DEF After, a
    <3> QED
      BY <1>1, <1>2, <2>2, <3>1, DeleteToEnd
  <2>5. ~EndsInInsert(r)
    BY <1>1, <2>2, <2>3, AppendFront DEF EndsInInsert
  <2> QED
    BY <1>1, <1>2, <2>3, <2>4, <2>5 DEF Fits, Aims, a, r
<1> QED
  BY <1>3, <1>4

\* documents.ts:94-108: backspaces trim the insert they follow, and only the rest
\* is a deletion.
LEMMA DeleteFits ==
  ASSUME NEW C, Before \in Seq(C), NEW page, NEW p, Fits(C, page, p), NEW n \in Nat
  PROVE  /\ Fits(C, page, PlanDelete(p, n))
         /\ After(page, PlanDelete(p, n)) = Cut(After(page, p), n)
         /\ Len(PlanDelete(p, n).requests) <= Len(p.requests) + 1
<1> DEFINE a == After(page, p)
           result == PlanDelete(p, n)
<1>1. p.cursor \in Nat /\ p.requests \in Seq(RequestSet(C)) /\ a \in Seq(C) /\ p.cursor = Len(a) /\ Keeps(C, a)
      /\ Floor \in Nat /\ Floor <= Len(a) /\ Len(p.requests) \in Nat /\ Aims(C, page, p)
  BY FloorIs DEF Fits, Aims, Keeps
<1>2. CASE ~EndsInInsert(p)
  <2>1. result = PlanRange(p, n)
    BY <1>2 DEF PlanDelete
  <2> QED
    BY <1>1, <1>2, <2>1, RangeFits
<1>3. CASE EndsInInsert(p) /\ p.cursor <= Floor
  <2>1. result = PlanRange(p, n)
    BY <1>3 DEF PlanDelete
  <2>2. Max({Floor, p.cursor - n}) = Floor
    <3>1. Floor \in Int /\ p.cursor - n \in Int
      BY <1>1
    <3>2. p.cursor - n <= Floor
      BY <1>1, <1>3
    <3> QED
      BY <3>1, <3>2, MaxOfTwo
  <2>3. result = p
    BY <1>3, <2>1, <2>2 DEF PlanRange
  <2>4. Cut(a, n) = a
    BY <1>1, <1>3, <2>2, SubSeqFull DEF Cut
  <2> QED
    BY <1>1, <2>3, <2>4
<1>4. CASE EndsInInsert(p) /\ p.cursor > Floor
  <2> DEFINE q == WithoutLast(page, p)
             text == Last(p.requests).text
             trim == Min({Len(text), n, p.cursor - Floor})
             kept == SubSeq(text, 1, Len(text) - trim)
             left == [cursor |-> p.cursor - trim,
                      requests |->
                        IF kept = <<>> THEN Front(p.requests)
                        ELSE Append(Front(p.requests), InsertReq(Last(p.requests).at, kept))]
             b == After(page, q)
  <2>1. /\ Aims(C, page, q) /\ ~EndsInInsert(q) /\ text \in Seq(C)
        /\ p = Inserting(q, text) /\ Last(p.requests) = InsertReq(q.cursor, text)
        /\ q.requests = Front(p.requests)
    BY <1>4, LastInsert
  <2>2. result = IF n > trim THEN PlanRange(left, n - trim) ELSE left
    <3>1. ~(~EndsInInsert(p) \/ p.cursor <= Floor)
      BY <1>1, <1>4
    <3> QED
      BY <3>1, Zenon DEF PlanDelete
  <2> HIDE DEF q, text, a, result
  <2>3. q.cursor \in Nat /\ q.requests \in Seq(RequestSet(C)) /\ b \in Seq(C) /\ q.cursor = Len(b) /\ Keeps(C, b)
        /\ Floor <= Len(b) /\ Len(q.requests) \in Nat /\ q = [cursor |-> q.cursor, requests |-> q.requests]
    BY <1>1, <2>1 DEF Aims, Keeps
  <2>4. a = b \o text /\ p.cursor = q.cursor + Len(text) /\ Len(p.requests) = Len(q.requests) + 1 /\ Len(text) \in Nat
    <3>1. a = b \o text /\ Len(p.requests) = Len(q.requests) + 1
      <4>1. After(page, Inserting(q, text)) = b \o text /\ Len(Inserting(q, text).requests) = Len(q.requests) + 1
        <5>1. Aims(C, page, q) /\ ~EndsInInsert(q) /\ text \in Seq(C)
          BY <2>1
        <5> QED
          BY <5>1, InsertingFits DEF b
      <4> QED
        BY <2>1, <4>1 DEF a
    <3>2. p.cursor = q.cursor + Len(text)
      BY <2>1 DEF Inserting
    <3> QED
      BY <2>1, <3>1, <3>2
  <2>5. trim \in Nat /\ trim <= Len(text) /\ trim <= n /\ trim <= p.cursor - Floor
        /\ (trim = Len(text) \/ trim = n \/ trim = p.cursor - Floor)
    <3>1. Len(text) \in Int /\ n \in Int /\ p.cursor - Floor \in Int
      BY <1>1, <2>4
    <3>2. trim = IF Len(text) <= n /\ Len(text) <= p.cursor - Floor THEN Len(text)
                 ELSE IF n <= p.cursor - Floor THEN n ELSE p.cursor - Floor
      BY <3>1, MinOfThree
    <3> HIDE DEF trim
    <3> QED
      BY <1>1, <1>4, <2>4, <3>2
  <2> HIDE DEF trim
  <2>6. Len(text) - trim \in 0..Len(text)
    BY <2>4, <2>5
  <2>7. kept \in Seq(C) /\ Len(kept) = Len(text) - trim /\ (kept = <<>> <=> Len(kept) = 0)
    <3>1. kept \in Seq(C) /\ Len(kept) = Len(text) - trim
      BY <2>1, <2>6, PrefixIs
    <3> HIDE DEF kept
    <3> QED
      BY <3>1
  <2>8. SubSeq(a, 1, Len(a) - trim) = b \o kept
    <3>1. SubSeq(b \o text, 1, Len(b) + (Len(text) - trim)) = b \o kept
      <4>1. b \in Seq(C) /\ text \in Seq(C)
        BY <2>1, <2>3
      <4> HIDE DEF b
      <4>2. \A m \in 0..Len(text) : SubSeq(b \o text, 1, Len(b) + m) = b \o SubSeq(text, 1, m)
        BY <4>1, PrefixOfConcat
      <4> QED
        BY <2>6, <4>2
    <3>2. Len(a) - trim = Len(b) + (Len(text) - trim)
      BY <1>1, <2>3, <2>4, <2>5
    <3> QED
      BY <2>4, <3>1, <3>2
  <2>9. Cut(a, trim) = SubSeq(a, 1, Len(a) - trim)
    <3>1. Floor \in Int /\ Len(a) - trim \in Int /\ (Floor >= Len(a) - trim => Floor = Len(a) - trim)
      BY <1>1, <2>5
    <3>2. Max({Floor, Len(a) - trim}) = Len(a) - trim
      BY <3>1, MaxOfTwo
    <3> QED
      BY <3>2 DEF Cut
  <2> HIDE DEF kept
  <2>10. CASE kept = <<>>
    <3>1. left = [cursor |-> p.cursor - trim, requests |-> q.requests]
      BY <2>1, <2>10
    <3>2. p.cursor - trim = q.cursor
      BY <2>3, <2>4, <2>5, <2>7, <2>10
    <3>3. left = q
      BY <2>3, <3>1, <3>2
    <3>4. b = Cut(a, trim)
      BY <2>3, <2>8, <2>9, <2>10, ConcatEmptySeq
    <3> HIDE DEF left, b
    <3>5. CASE n > trim
      <4>1. n - trim \in Nat /\ trim + (n - trim) = n
        BY <2>5, <3>5
      <4>2. result = PlanRange(q, n - trim)
        BY <2>2, <3>3, <3>5
      <4>3. Fits(C, page, result) /\ After(page, result) = Cut(b, n - trim) /\ Len(result.requests) <= Len(q.requests) + 1
        BY <2>1, <4>1, <4>2, RangeFits DEF b
      <4>4. Cut(b, n - trim) = Cut(a, n)
        BY <1>1, <2>5, <3>4, <4>1, CutTwice
      <4> QED
        BY <1>1, <2>3, <2>4, <4>3, <4>4 DEF a, result
    <3>6. CASE ~(n > trim)
      <4>1. result = q /\ n = trim
        BY <2>2, <2>5, <3>3, <3>6
      <4>2. Fits(C, page, q)
        BY <2>1 DEF Fits
      <4>3. Len(q.requests) <= Len(p.requests) + 1
        BY <1>1, <2>3, <2>4
      <4> QED
        BY <3>4, <4>1, <4>2, <4>3 DEF a, b, result
    <3> QED
      BY <3>5, <3>6
  <2>11. CASE kept # <<>>
    <3>1. left = Inserting(q, kept)
      <4>1. InsertReq(Last(p.requests).at, kept) = InsertReq(q.cursor, kept)
        BY <2>1 DEF InsertReq
      <4>2. p.cursor - trim = q.cursor + Len(kept)
        BY <2>3, <2>4, <2>5, <2>7
      <4> QED
        BY <2>1, <2>11, <4>1, <4>2 DEF Inserting
    <3>2. Fits(C, page, left) /\ After(page, left) = b \o kept /\ Len(left.requests) = Len(q.requests) + 1
      <4> HIDE DEF left
      <4> QED
        <5>1. Aims(C, page, q) /\ ~EndsInInsert(q) /\ kept \in Seq(C)
          BY <2>1, <2>7
        <5>2. /\ Fits(C, page, Inserting(q, kept)) /\ After(page, Inserting(q, kept)) = After(page, q) \o kept
              /\ Len(Inserting(q, kept).requests) = Len(q.requests) + 1
          BY <5>1, InsertingFits
        <5> QED
          BY <3>1, <5>2 DEF b
    <3>3. After(page, left) = Cut(a, trim)
      BY <2>8, <2>9, <3>2
    <3>4. left.cursor = p.cursor - trim
      OBVIOUS
    <3> HIDE DEF left, b
    <3>5. CASE n > trim
      <4>1. trim = p.cursor - Floor
        BY <2>4, <2>5, <2>7, <2>11, <3>5
      <4>2. left.cursor = Floor
        BY <1>1, <3>4, <4>1
      <4>3. Max({Floor, left.cursor - (n - trim)}) = Floor
        <5>1. Floor \in Int /\ left.cursor - (n - trim) \in Int /\ left.cursor - (n - trim) <= Floor
          BY <1>1, <2>5, <3>5, <4>2
        <5> QED
          BY <5>1, MaxOfTwo
      <4>4. PlanRange(left, n - trim) = left
        BY <1>1, <4>2, <4>3 DEF PlanRange
      <4>5. result = left
        BY <2>2, <3>5, <4>4
      <4>6. Cut(a, trim) = Cut(a, n)
        <5>1. Max({Floor, Len(a) - n}) = Floor /\ Max({Floor, Len(a) - trim}) = Floor
          <6>1. Floor \in Int /\ Len(a) - n \in Int /\ Len(a) - n <= Floor
                /\ Len(a) - trim \in Int /\ Len(a) - trim <= Floor
            BY <1>1, <2>5, <3>5, <4>1
          <6> QED
            BY <6>1, MaxOfTwo
        <5> QED
          BY <5>1 DEF Cut
      <4> QED
        BY <1>1, <2>3, <2>4, <3>2, <3>3, <4>5, <4>6 DEF a, result
    <3>6. CASE ~(n > trim)
      <4>1. result = left /\ n = trim
        BY <2>2, <2>5, <3>6
      <4> QED
        BY <1>1, <2>3, <2>4, <3>2, <3>3, <4>1 DEF a, result
    <3> QED
      BY <3>5, <3>6
  <2> QED
    BY <2>10, <2>11
<1> QED
  BY <1>1, <1>2, <1>3, <1>4

\* An op added to a plan does to the document what it means at its end.
LEMMA PlanOpFits ==
  ASSUME NEW C, Before \in Seq(C), NEW page, NEW p, Fits(C, page, p), NEW op \in OpSet(C)
  PROVE  /\ Fits(C, page, PlanOp(p, op))
         /\ After(page, PlanOp(p, op)) = Keyed(After(page, p), op)
         /\ Len(PlanOp(p, op).requests) <= Len(p.requests) + 1
<1>1. CASE op.kind # "insert"
  <2>1. op.count \in Nat /\ PlanOp(p, op) = PlanDelete(p, op.count)
    BY <1>1 DEF OpSet, PlanOp
  <2> QED
    BY <1>1, <2>1, DeleteFits DEF Keyed
<1>2. CASE op.kind = "insert" /\ ~EndsInInsert(p)
  <2>1. op.text \in Seq(C)
    BY <1>2 DEF OpSet
  <2>2. PlanOp(p, op) = Inserting(p, op.text)
    BY <1>2 DEF PlanOp, PlanInsert, Inserting
  <2>3. Aims(C, page, p) /\ Len(p.requests) \in Nat
    BY DEF Fits, Aims
  <2>4. /\ Fits(C, page, PlanOp(p, op)) /\ After(page, PlanOp(p, op)) = After(page, p) \o op.text
        /\ Len(PlanOp(p, op).requests) = Len(p.requests) + 1
    <3> DEFINE r == Inserting(p, op.text)
    <3>0. PICK text \in Seq(C) : text = op.text
      BY <2>1
    <3>1. /\ Fits(C, page, r) /\ After(page, r) = After(page, p) \o op.text
          /\ Len(r.requests) = Len(p.requests) + 1
      <4>1. /\ Fits(C, page, Inserting(p, text)) /\ After(page, Inserting(p, text)) = After(page, p) \o text
            /\ Len(Inserting(p, text).requests) = Len(p.requests) + 1
        BY <1>2, <2>3, InsertingFits
      <4> QED
        BY <3>0, <4>1
    <3> HIDE DEF r
    <3> QED
      BY <2>2, <3>1 DEF r
  <2> QED
    BY <1>2, <2>3, <2>4 DEF Keyed
<1>3. CASE op.kind = "insert" /\ EndsInInsert(p)
  <2> DEFINE q == WithoutLast(page, p)
             text == Last(p.requests).text
  <2>1. op.text \in Seq(C)
    BY <1>3 DEF OpSet
  <2>2. /\ Aims(C, page, q) /\ ~EndsInInsert(q) /\ text \in Seq(C)
        /\ p = Inserting(q, text) /\ Last(p.requests) = InsertReq(q.cursor, text)
        /\ q.requests = Front(p.requests)
    BY <1>3, LastInsert
  <2> HIDE DEF q, text
  <2>3. text \o op.text \in Seq(C) /\ Len(text \o op.text) = Len(text) + Len(op.text)
        /\ Len(text) \in Nat /\ Len(op.text) \in Nat
    BY <2>1, <2>2
  <2>4. PlanOp(p, op) = Inserting(q, text \o op.text)
    <3>1. Last(p.requests).at = q.cursor /\ Last(p.requests).text = text
      BY <2>2 DEF InsertReq, text
    <3>2. p.cursor + Len(op.text) = q.cursor + Len(text \o op.text)
      <4>1. p.cursor = q.cursor + Len(text) /\ q.cursor \in Nat
        BY <2>2 DEF Inserting, Aims
      <4> QED
        BY <2>3, <4>1
    <3> QED
      BY <1>3, <2>2, <3>1, <3>2 DEF PlanOp, PlanInsert, Inserting
  <2>5. /\ Fits(C, page, PlanOp(p, op)) /\ After(page, PlanOp(p, op)) = After(page, q) \o (text \o op.text)
        /\ Len(PlanOp(p, op).requests) = Len(q.requests) + 1
    <3> DEFINE longer == text \o op.text
               r == Inserting(q, longer)
    <3>1. longer \in Seq(C)
      BY <2>3
    <3> HIDE DEF longer
    <3>2. /\ Fits(C, page, r) /\ After(page, r) = After(page, q) \o longer
          /\ Len(r.requests) = Len(q.requests) + 1
      <4>1. Aims(C, page, q) /\ ~EndsInInsert(q)
        BY <2>2
      <4> HIDE DEF q
      <4> QED
        BY <3>1, <4>1, InsertingFits
    <3> HIDE DEF r
    <3> QED
      BY <2>4, <3>2 DEF r, longer
  <2>6. After(page, p) = After(page, q) \o text /\ Len(p.requests) = Len(q.requests) + 1 /\ Len(q.requests) \in Nat
    <3>1. Len(q.requests) \in Nat
      BY <2>2 DEF Aims
    <3> QED
      BY <2>2, <3>1, InsertingFits
  <2>7. After(page, q) \o (text \o op.text) = (After(page, q) \o text) \o op.text
    <3> DEFINE a == After(page, q)
               t == op.text
    <3>1. a \in Seq(C) /\ text \in Seq(C) /\ t \in Seq(C)
      BY <2>1, <2>2 DEF Aims, Keeps
    <3> HIDE DEF a, t
    <3>2. a \o (text \o t) = (a \o text) \o t
      BY <3>1, ConcatAssociative
    <3> QED
      BY <3>2 DEF a, t
  <2> QED
    BY <1>3, <2>5, <2>6, <2>7 DEF Keyed
<1> QED
  BY <1>1, <1>2, <1>3

-----------------------------------------------------------------------------
Typist == INSTANCE FoldSteps WITH Op <- Keyed

\* What is left of text when all the ops have been typed at its end
KeyedAll(text, ops) == Typist!Fold(text, ops)

\* A whole batch: its requests do what its ops mean, and are no more than these.
LEMMA BatchFits ==
  ASSUME NEW C, Before \in Seq(C), NEW page, Keeps(C, page)
  PROVE  \A ops \in Seq(OpSet(C)) :
           LET p == PlanRequests(ops, Len(page))
           IN Fits(C, page, p) /\ After(page, p) = KeyedAll(page, ops) /\ Len(p.requests) <= Len(ops)
<1> DEFINE made(ops) == PlanRequests(ops, Len(page))
           Good(ops) == /\ Fits(C, page, made(ops)) /\ After(page, made(ops)) = KeyedAll(page, ops)
                        /\ Len(made(ops).requests) <= Len(ops)
           S == {ops \in Seq(OpSet(C)) : Good(ops)}
<1>1. <<>> \in S
  <2>1. made(<<>>).requests = <<>> /\ made(<<>>).cursor = Len(page)
        /\ made(<<>>) = [requests |-> <<>>, cursor |-> Len(page)]
    BY OpsInTurn
  <2>2. After(page, made(<<>>)) = page
    BY <2>1, RequestsInTurn DEF After
  <2>3. KeyedAll(page, <<>>) = page
    BY Typist!FoldEmpty DEF KeyedAll
  <2> HIDE DEF made
  <2>4. Len(page) \in Nat
    BY DEF Keeps
  <2>5. made(<<>>) \in [cursor : Nat, requests : Seq(RequestSet(C))]
    <3>1. \A r \in Seq(RequestSet(C)), c \in Nat :
            [requests |-> r, cursor |-> c] \in [cursor : Nat, requests : Seq(RequestSet(C))]
      OBVIOUS
    <3>2. <<>> \in Seq(RequestSet(C))
      OBVIOUS
    <3> QED
      BY <2>1, <2>4, <3>1, <3>2
  <2>6. Fits(C, page, made(<<>>))
    BY <2>1, <2>2, <2>4, <2>5 DEF Fits, Aims, EndsInInsert
  <2>7. Len(made(<<>>).requests) <= Len(<<>>)
    BY <2>1
  <2> QED
    BY <2>2, <2>3, <2>6, <2>7
<1>2. ASSUME NEW ops \in Seq(OpSet(C)), NEW op \in OpSet(C), ops \in S
      PROVE  Append(ops, op) \in S
  <2>1. made(Append(ops, op)) = PlanOp(made(ops), op)
    BY OpsInTurn
  <2>2. KeyedAll(page, Append(ops, op)) = Keyed(KeyedAll(page, ops), op)
    BY Typist!FoldAppend DEF KeyedAll
  <2>3. Good(ops)
    BY <1>2
  <2> HIDE DEF made
  <2>4. /\ Fits(C, page, PlanOp(made(ops), op))
        /\ After(page, PlanOp(made(ops), op)) = Keyed(After(page, made(ops)), op)
        /\ Len(PlanOp(made(ops), op).requests) <= Len(made(ops).requests) + 1
    BY <2>3, PlanOpFits
  <2>5. Append(ops, op) \in Seq(OpSet(C)) /\ Len(Append(ops, op)) = Len(ops) + 1 /\ Len(ops) \in Nat
    OBVIOUS
  <2>6. Len(made(ops).requests) \in Nat /\ Len(made(Append(ops, op)).requests) \in Nat
    BY <2>1, <2>3, <2>4 DEF Fits, Aims
  <2>7. Good(Append(ops, op))
    BY <2>1, <2>2, <2>3, <2>4, <2>5, <2>6
  <2> HIDE DEF Good
  <2> QED
    BY <2>5, <2>7
<1>3. Seq(OpSet(C)) \subseteq S
  <2> HIDE DEF S
  <2> QED
    BY <1>1, <1>2, Planner!SequenceInduction
<1> QED
  BY <1>3

\* No batch takes away what was in the document before the job.
LEMMA KeyedAllKeeps ==
  ASSUME NEW C, Before \in Seq(C), NEW page, Keeps(C, page), NEW ops \in Seq(OpSet(C))
  PROVE  Keeps(C, KeyedAll(page, ops))
BY BatchFits DEF Fits, Aims

\* Two ops of one kind mean what the op they coalesce into means.
LEMMA Coalesced ==
  ASSUME NEW C, Before \in Seq(C), NEW text, Keeps(C, text)
  PROVE  /\ \A s, t \in Seq(C) : Keyed(Keyed(text, InsertOp(s)), InsertOp(t)) = Keyed(text, InsertOp(s \o t))
         /\ \A m, n \in Nat : Keyed(Keyed(text, DeleteOp(m)), DeleteOp(n)) = Keyed(text, DeleteOp(m + n))
<1>1. text \in Seq(C)
  BY DEF Keeps
<1>2. ASSUME NEW s \in Seq(C), NEW t \in Seq(C)
      PROVE  Keyed(Keyed(text, InsertOp(s)), InsertOp(t)) = Keyed(text, InsertOp(s \o t))
  <2>1. (text \o s) \o t = text \o (s \o t)
    BY <1>1, ConcatAssociative
  <2> QED
    BY <2>1 DEF Keyed, InsertOp
<1>3. ASSUME NEW m \in Nat, NEW n \in Nat
      PROVE  Keyed(Keyed(text, DeleteOp(m)), DeleteOp(n)) = Keyed(text, DeleteOp(m + n))
  <2>1. Cut(Cut(text, m), n) = Cut(text, m + n)
    BY CutTwice
  <2> QED
    BY <2>1 DEF Keyed, DeleteOp
<1> QED
  BY <1>2, <1>3

\* buffer.ts:7-9: what the buffer makes of one more key
LEMMA PushedMeans ==
  ASSUME NEW C, Before \in Seq(C), NEW page, Keeps(C, page), NEW ops \in Seq(OpSet(C)), NEW key \in OpSet(C)
  PROVE  /\ Pushed(ops, key) \in Seq(OpSet(C)) /\ Len(Pushed(ops, key)) <= Len(ops) + 1
         /\ KeyedAll(page, Pushed(ops, key)) = Keyed(KeyedAll(page, ops), key)
<1>1. CASE ops = <<>> \/ Last(ops).kind # key.kind
  <2>1. Pushed(ops, key) = Append(ops, key)
    BY <1>1 DEF Pushed
  <2>2. KeyedAll(page, Append(ops, key)) = Keyed(KeyedAll(page, ops), key)
    BY Typist!FoldAppend DEF KeyedAll
  <2> QED
    BY <2>1, <2>2
<1>2. CASE ~(ops = <<>> \/ Last(ops).kind # key.kind)
  <2> DEFINE front == Front(ops)
             last == Last(ops)
             merged == IF key.kind = "insert" THEN InsertOp(last.text \o key.text)
                       ELSE DeleteOp(last.count + key.count)
             text == KeyedAll(page, front)
  <2>1. front \in Seq(OpSet(C)) /\ Len(front) = Len(ops) - 1 /\ last \in OpSet(C)
        /\ ops = Append(front, last) /\ last.kind = key.kind
    BY <1>2, FrontAndLast
  <2>2. Pushed(ops, key) = Append(front, merged)
    BY <1>2 DEF Pushed
  <2> HIDE DEF front, last
  <2>3. Keeps(C, text)
    BY <2>1, KeyedAllKeeps
  <2>4. KeyedAll(page, ops) = Keyed(text, last)
    BY <2>1, Typist!FoldAppend DEF KeyedAll
  <2>5. KeyedAll(page, Append(front, merged)) = Keyed(text, merged)
    <3> HIDE DEF merged
    <3> QED
      BY <2>1, Typist!FoldAppend DEF KeyedAll
  <2> HIDE DEF text
  <2>6. merged \in OpSet(C) /\ Keyed(text, merged) = Keyed(Keyed(text, last), key)
    <3>1. CASE key.kind = "insert"
      <4>1. last.text \in Seq(C) /\ last = InsertOp(last.text) /\ key.text \in Seq(C) /\ key = InsertOp(key.text)
        BY <2>1, <3>1 DEF OpSet, InsertOp
      <4>2. merged = InsertOp(last.text \o key.text)
        BY <3>1
      <4>3. last.text \o key.text \in Seq(C)
        BY <4>1
      <4> HIDE DEF merged
      <4>4. merged \in OpSet(C)
        <5>1. \A t \in Seq(C) : InsertOp(t) \in OpSet(C)
          BY DEF OpSet, InsertOp
        <5> QED
          BY <4>2, <4>3, <5>1
      <4>5. Keyed(Keyed(text, InsertOp(last.text)), InsertOp(key.text)) = Keyed(text, merged)
        <5> DEFINE s == last.text
                   t == key.text
        <5>1. s \in Seq(C) /\ t \in Seq(C)
          BY <4>1
        <5> HIDE DEF s, t
        <5>2. Keyed(Keyed(text, InsertOp(s)), InsertOp(t)) = Keyed(text, InsertOp(s \o t))
          BY <2>3, <5>1, Coalesced
        <5> QED
          BY <4>2, <5>2 DEF s, t
      <4> QED
        BY <4>1, <4>4, <4>5
    <3>2. CASE key.kind # "insert"
      <4>1. last.count \in Nat /\ last = DeleteOp(last.count) /\ key.count \in Nat /\ key = DeleteOp(key.count)
        BY <2>1, <3>2 DEF OpSet, DeleteOp
      <4>2. merged = DeleteOp(last.count + key.count)
        BY <3>2
      <4>3. last.count + key.count \in Nat
        BY <4>1
      <4>4. merged \in OpSet(C)
        BY <4>2, <4>3 DEF OpSet, DeleteOp
      <4> HIDE DEF merged
      <4>5. Keyed(Keyed(text, DeleteOp(last.count)), DeleteOp(key.count)) = Keyed(text, merged)
        <5> DEFINE m == last.count
                   n == key.count
        <5>1. m \in Nat /\ n \in Nat
          BY <4>1
        <5> HIDE DEF m, n
        <5>2. Keyed(Keyed(text, DeleteOp(m)), DeleteOp(n)) = Keyed(text, DeleteOp(m + n))
          BY <2>3, <5>1, Coalesced
        <5> QED
          BY <4>2, <5>2 DEF m, n
      <4> QED
        BY <4>1, <4>4, <4>5
    <3> QED
      BY <3>1, <3>2
  <2> HIDE DEF merged
  <2>7. Append(front, merged) \in Seq(OpSet(C)) /\ Len(Append(front, merged)) <= Len(ops) + 1
    <3>1. Append(front, merged) \in Seq(OpSet(C)) /\ Len(Append(front, merged)) = Len(front) + 1
      BY <2>1, <2>6
    <3> QED
      BY <2>1, <3>1
  <2> QED
    BY <2>2, <2>4, <2>5, <2>6, <2>7
<1> QED
  BY <1>1, <1>2

\* The document is what was there before and, after its floor, the text of the job.
LEMMA BeforeIsKept ==
  ASSUME NEW C, Before \in Seq(C), NEW text \in Seq(C)
  PROVE  /\ Keeps(C, Before \o text)
         /\ Len(Before \o text) = Floor + Len(text) /\ Len(text) \in Nat /\ Floor \in Nat
<1>1. Len(text) \in Nat /\ Floor \in Nat /\ Floor = Len(Before)
      /\ Before \o text \in Seq(C) /\ Len(Before \o text) = Floor + Len(text)
  BY FloorIs DEF Floor
<1>2. SubSeq(Before \o text, 1, Floor) = SubSeq(Before, 1, Floor) /\ SubSeq(Before, 1, Floor) = Before
  BY <1>1, PrefixOfConcat, SubSeqFull
<1> QED
  BY <1>1, <1>2 DEF Keeps

\* What the typist sees is the job's part of the document.
LEMMA KeyedIsApplied ==
  ASSUME NEW C, Before \in Seq(C), NEW text \in Seq(C), NEW op \in OpSet(C)
  PROVE  /\ Keyed(Before \o text, op) = Before \o ApplyOp(text, op)
         /\ ApplyOp(text, op) \in Seq(C)
<1>1. Len(text) \in Nat /\ Floor \in Nat /\ Len(Before \o text) = Floor + Len(text)
      /\ Floor = Len(Before)
  BY BeforeIsKept DEF Floor
<1>3. CASE op.kind = "insert"
  <2>1. op.text \in Seq(C)
    BY <1>3 DEF OpSet
  <2>2. (Before \o text) \o op.text = Before \o (text \o op.text)
    <3> DEFINE t == op.text
    <3>1. t \in Seq(C)
      BY <2>1
    <3> HIDE DEF t
    <3>2. (Before \o text) \o t = Before \o (text \o t)
      BY <3>1, ConcatAssociative
    <3> QED
      BY <3>2 DEF t
  <2> QED
    BY <1>3, <2>1, <2>2 DEF Keyed, ApplyOp
<1>4. CASE op.kind # "insert"
  <2>1. op.count \in Nat
    BY <1>4 DEF OpSet
  <2> DEFINE m == Max({0, Len(text) - op.count})
  <2>2. m \in 0..Len(text) /\ Max({Floor, Len(Before \o text) - op.count}) = Floor + m
    <3>1. m = IF 0 >= Len(text) - op.count THEN 0 ELSE Len(text) - op.count
      <4>1. 0 \in Int /\ Len(text) - op.count \in Int
        BY <1>1, <2>1
      <4> QED
        BY <4>1, MaxOfTwo
    <3>2. Max({Floor, Len(Before \o text) - op.count})
            = IF Floor >= Len(Before \o text) - op.count THEN Floor ELSE Len(Before \o text) - op.count
      <4>1. Floor \in Int /\ Len(Before \o text) - op.count \in Int
        BY <1>1, <2>1
      <4> QED
        BY <4>1, MaxOfTwo
    <3> HIDE DEF m
    <3> QED
      BY <1>1, <2>1, <3>1, <3>2
  <2> HIDE DEF m
  <2>3. SubSeq(Before \o text, 1, Floor + m) = Before \o SubSeq(text, 1, m)
    BY <1>1, <2>2, PrefixOfConcat
  <2>4. SubSeq(text, 1, m) \in Seq(C)
    BY <2>2, PrefixIs
  <2>5. Keyed(Before \o text, op) = SubSeq(Before \o text, 1, Floor + m)
    BY <1>4, <2>2 DEF Keyed, Cut
  <2>6. ApplyOp(text, op) = SubSeq(text, 1, m)
    BY <1>4 DEF ApplyOp, m
  <2> QED
    BY <2>3, <2>4, <2>5, <2>6
<1> QED
  BY <1>3, <1>4

-----------------------------------------------------------------------------
WindowInv ==
  /\ pressed \in Nat /\ window \in Seq(OpSet(Characters)) /\ Len(window) <= pressed
  /\ typed \in Seq(Characters)
  /\ KeyedAll(Before \o Sent, window) = Before \o typed

\* buffer.ts:7-9: at every key of a window the ops the buffer has coalesced mean
\* what the typist has typed, and are no more than the keys.
THEOREM WindowInvariant == WindowSpec => []WindowInv
<1>1. WindowInit => WindowInv
  <2> SUFFICES ASSUME WindowInit PROVE WindowInv
    OBVIOUS
  <2>1. KeyedAll(Before \o Sent, <<>>) = Before \o Sent
    BY Typist!FoldEmpty DEF KeyedAll
  <2>2. Sent \in Seq(Characters)
    BY WindowAssumption
  <2>3. <<>> \in Seq(OpSet(Characters)) /\ Len(<<>>) <= 0
    OBVIOUS
  <2> QED
    BY <2>1, <2>2, <2>3 DEF WindowInit, WindowInv
<1>2. WindowInv /\ [WindowNext]_windowvars => WindowInv'
  <2> SUFFICES ASSUME WindowInv, [WindowNext]_windowvars PROVE WindowInv'
    OBVIOUS
  <2>1. ASSUME NEW key \in Keys, Press(key) PROVE WindowInv'
    <3>1. key \in OpSet(Characters) /\ Before \in Seq(Characters)
      BY WindowAssumption, BeforeAssumption DEF OpSet
    <3>2. pressed \in Nat /\ window \in Seq(OpSet(Characters)) /\ Len(window) <= pressed /\ Len(window) \in Nat
          /\ typed \in Seq(Characters)
          /\ KeyedAll(Before \o Sent, window) = Before \o typed
      BY WindowAssumption DEF WindowInv
    <3>3. pressed' = pressed + 1 /\ window' = Pushed(window, key) /\ typed' = ApplyOp(typed, key)
      BY <2>1 DEF Press
    <3>4. Keeps(Characters, Before \o Sent)
      BY BeforeAssumption, WindowAssumption, BeforeIsKept
    <3>5. /\ Pushed(window, key) \in Seq(OpSet(Characters)) /\ Len(Pushed(window, key)) <= Len(window) + 1
          /\ KeyedAll(Before \o Sent, Pushed(window, key)) = Keyed(KeyedAll(Before \o Sent, window), key)
      <4> DEFINE page == Before \o Sent
      <4>1. Keeps(Characters, page)
        BY <3>4
      <4> HIDE DEF page
      <4>2. /\ Pushed(window, key) \in Seq(OpSet(Characters)) /\ Len(Pushed(window, key)) <= Len(window) + 1
            /\ KeyedAll(page, Pushed(window, key)) = Keyed(KeyedAll(page, window), key)
        BY <3>1, <3>2, <4>1, PushedMeans
      <4> QED
        BY <4>2 DEF page
    <3>6. Keyed(Before \o typed, key) = Before \o ApplyOp(typed, key) /\ ApplyOp(typed, key) \in Seq(Characters)
      BY <3>1, <3>2, KeyedIsApplied
    <3>7. Len(Pushed(window, key)) \in Nat /\ Len(Pushed(window, key)) <= pressed + 1
      BY <3>2, <3>5
    <3> QED
      BY <3>2, <3>3, <3>5, <3>6, <3>7 DEF WindowInv
  <2>2. CASE UNCHANGED windowvars
    BY <2>2 DEF WindowInv, windowvars
  <2> QED
    BY <2>1, <2>2 DEF WindowNext
<1> QED
  BY <1>1, <1>2, PTL DEF WindowSpec

\* documents.ts:94-106 and buffer.ts:7-9: a batch sent at any moment of any window leaves the
\* document the typist sees, with the cursor at its end, what was there before the
\* job untouched, in no more requests than keys were pressed.
THEOREM BatchesAreExact == WindowSpec => []BatchIsExact
<1>1. WindowInv => BatchIsExact
  <2> SUFFICES ASSUME WindowInv PROVE BatchIsExact
    OBVIOUS
  <2> DEFINE page == Before \o Sent
             p == PlanRequests(window, Len(page))
             after == ApplyRequests(page, p.requests)
  <2>1. Before \in Seq(Characters) /\ pressed \in Nat /\ window \in Seq(OpSet(Characters)) /\ Len(window) <= pressed
        /\ Sent \in Seq(Characters) /\ KeyedAll(page, window) = Before \o typed /\ Len(window) \in Nat
    BY BeforeAssumption, WindowAssumption DEF WindowInv
  <2>2. Keeps(Characters, page)
    BY <2>1, BeforeIsKept
  <2> HIDE DEF page
  <2>3. Fits(Characters, page, p) /\ After(page, p) = KeyedAll(page, window) /\ Len(p.requests) <= Len(window)
    BY <2>1, <2>2, BatchFits
  <2>4. after = Before \o typed /\ p.cursor = Len(after)
    <3> HIDE DEF p
    <3> QED
      BY <2>1, <2>3 DEF After, Fits, Aims
  <2>5. Len(p.requests) <= pressed
    <3>1. Len(p.requests) \in Nat
      <4> HIDE DEF p
      <4> QED
        BY <2>3 DEF Fits, Aims
    <3> QED
      BY <2>1, <2>3, <3>1
  <2> QED
    BY <2>4, <2>5, Zenon DEF BatchIsExact, page, p, after
<1> QED
  BY <1>1, WindowInvariant, PTL

-----------------------------------------------------------------------------
\* ---- The chain of calls

\* What a batch of one op, or of the requests of a repair, comes to
LEMMA OneByOne ==
  /\ \A d, r : ApplyRequests(d, <<r>>) = ApplyRequest(d, r)
  /\ \A d, r, s : ApplyRequests(d, <<r, s>>) = ApplyRequest(ApplyRequest(d, r), s)
  /\ \A c, op : PlanRequests(<<op>>, c) = PlanOp([requests |-> <<>>, cursor |-> c], op)
  /\ \A s, op : ApplyOps(s, <<op>>) = ApplyOp(s, op)
<1>1. \A d, s : ApplyRequests(d, s) = Google!Fold(d, s)
  BY DEF ApplyRequests, Google!Fold, Google!FoldLeft, Google!MapThenFoldSet, Google!Max,
         FoldLeft, MapThenFoldSet, Max
<1>2. \A d, s : ApplyOps(d, s) = Browser!Fold(d, s)
  BY DEF ApplyOps, Browser!Fold, Browser!FoldLeft, Browser!MapThenFoldSet, Browser!Max,
         FoldLeft, MapThenFoldSet, Max
<1> DEFINE base(c) == [requests |-> <<>>, cursor |-> c]
<1>3. \A c, s : PlanRequests(s, c) = Planner!Fold(base(c), s)
  BY DEF PlanRequests, Planner!Fold, Planner!FoldLeft, Planner!MapThenFoldSet, Planner!Max,
         FoldLeft, MapThenFoldSet, Max
<1> HIDE DEF base
<1>4. \A c, op : PlanRequests(<<op>>, c) = PlanOp(base(c), op)
  BY <1>3, Planner!FoldFew
<1> QED
  BY <1>1, <1>2, <1>4, Google!FoldFew, Browser!FoldFew DEF base

\* a is s with t for its elements i+1 to j.
IsSpliced(a, s, i, j, t) ==
  LET n == i + Len(t) + (Len(s) - j)
  IN Len(a) = n /\ \A k \in 1..n :
       a[k] = IF k <= i THEN s[k] ELSE IF k <= i + Len(t) THEN t[k - i] ELSE s[k - i - Len(t) + j]

\* documents.ts:243-270: a repair is a splice, element by element
LEMMA SplicedIs ==
  ASSUME NEW C, NEW s \in Seq(C), NEW i \in 0..Len(s), NEW j \in i..Len(s), NEW t \in Seq(C)
  PROVE  Spliced(s, i, j, t) \in Seq(C) /\ IsSpliced(Spliced(s, i, j, t), s, i, j, t)
<1> DEFINE a == SubSeq(s, 1, i)
           b == SubSeq(s, j + 1, Len(s))
           c == a \o t
           d == c \o b
<1>1. Len(s) \in Nat /\ Len(t) \in Nat
  OBVIOUS
<1>2. a \in Seq(C) /\ Len(a) = i /\ \A k \in 1..i : a[k] = s[k]
  BY PrefixIs
<1>3. b \in Seq(C) /\ Len(b) = Len(s) - j /\ \A k \in 1..(Len(s) - j) : b[k] = s[j + k]
  <2>1. \A k \in (j + 1)..Len(s) : s[k] \in C
    OBVIOUS
  <2>2. j + 1 \in Int /\ Len(s) \in Int
    OBVIOUS
  <2>3. Len(b) = IF j + 1 <= Len(s) THEN Len(s) - (j + 1) + 1 ELSE 0
    BY <2>1, <2>2, SubSeqProperties
  <2>4. b \in Seq(C) /\ \A k \in 1..(Len(s) - (j + 1) + 1) : b[k] = s[j + 1 + k - 1]
    BY <2>1, <2>2, SubSeqProperties
  <2> HIDE DEF b
  <2>5. Len(b) = Len(s) - j
    BY <1>1, <2>3
  <2>6. \A k \in 1..(Len(s) - j) : k \in 1..(Len(s) - (j + 1) + 1) /\ j + 1 + k - 1 = j + k
    BY <1>1
  <2> QED
    BY <2>4, <2>5, <2>6
<1> HIDE DEF a, b
<1>4. c \in Seq(C) /\ Len(c) = i + Len(t) /\ \A k \in 1..(i + Len(t)) : c[k] = IF k <= i THEN a[k] ELSE t[k - i]
  BY <1>2, ConcatProperties
<1> HIDE DEF c
<1>5. d \in Seq(C) /\ Len(d) = i + Len(t) + (Len(s) - j)
      /\ \A k \in 1..(i + Len(t) + (Len(s) - j)) :
           d[k] = IF k <= i + Len(t) THEN c[k] ELSE b[k - (i + Len(t))]
  <2>1. d \in Seq(C) /\ Len(d) = Len(c) + Len(b)
        /\ \A k \in 1..(Len(c) + Len(b)) : d[k] = IF k <= Len(c) THEN c[k] ELSE b[k - Len(c)]
    BY <1>3, <1>4, ConcatProperties
  <2> HIDE DEF d
  <2>2. Len(c) + Len(b) = i + Len(t) + (Len(s) - j)
    BY <1>1, <1>3, <1>4
  <2> QED
    BY <1>4, <2>1, <2>2
<1> HIDE DEF d
<1>6. ASSUME NEW k \in 1..(i + Len(t) + (Len(s) - j))
      PROVE  d[k] = IF k <= i THEN s[k] ELSE IF k <= i + Len(t) THEN t[k - i] ELSE s[k - i - Len(t) + j]
  <2>1. CASE k <= i
    <3>1. k \in 1..i /\ k \in 1..(i + Len(t)) /\ k <= i + Len(t)
      BY <1>1, <2>1
    <3> QED
      BY <1>2, <1>4, <1>5, <2>1, <3>1
  <2>2. CASE k > i /\ k <= i + Len(t)
    <3>1. k \in 1..(i + Len(t)) /\ ~(k <= i)
      BY <1>1, <2>2
    <3> QED
      BY <1>4, <1>5, <2>2, <3>1
  <2>3. CASE k > i + Len(t)
    <3>1. k - (i + Len(t)) \in 1..(Len(s) - j) /\ ~(k <= i) /\ ~(k <= i + Len(t))
          /\ j + (k - (i + Len(t))) = k - i - Len(t) + j
      BY <1>1, <2>3
    <3> QED
      BY <1>3, <1>5, <3>1
  <2> QED
    BY <1>1, <2>1, <2>2, <2>3
<1> QED
  BY <1>5, <1>6 DEF Spliced, IsSpliced, a, b, c, d

\* The length of a splice
LEMMA SplicedLen ==
  ASSUME NEW C, NEW s \in Seq(C), NEW i \in 0..Len(s), NEW j \in i..Len(s), NEW t \in Seq(C)
  PROVE  Spliced(s, i, j, t) \in Seq(C) /\ Len(Spliced(s, i, j, t)) = i + Len(t) + (Len(s) - j)
<1>1. Spliced(s, i, j, t) \in Seq(C) /\ IsSpliced(Spliced(s, i, j, t), s, i, j, t)
  BY SplicedIs
<1> QED
  BY <1>1 DEF IsSpliced

\* What splicing the job's part of the document does to the whole
LEMMA SplicedAfterBefore ==
  ASSUME NEW C, Before \in Seq(C), NEW s \in Seq(C), NEW i \in 0..Len(s), NEW j \in i..Len(s), NEW t \in Seq(C)
  PROVE  Spliced(Before \o s, Floor + i, Floor + j, t) = Before \o Spliced(s, i, j, t)
<1> DEFINE whole == Before \o s
           a == Spliced(whole, Floor + i, Floor + j, t)
           p == Spliced(s, i, j, t)
           b == Before \o p
           n == i + Len(t) + (Len(s) - j)
<1>1. Floor \in Nat /\ Floor = Len(Before) /\ Len(s) \in Nat /\ Len(t) \in Nat
  BY DEF Floor
<1>2. whole \in Seq(C) /\ Len(whole) = Floor + Len(s)
      /\ \A k \in 1..(Floor + Len(s)) : whole[k] = IF k <= Floor THEN Before[k] ELSE s[k - Floor]
  BY <1>1, ConcatProperties
<1> HIDE DEF whole
<1>3. Floor + i \in 0..Len(whole) /\ Floor + j \in (Floor + i)..Len(whole)
  BY <1>1, <1>2
<1>4. Floor + i + Len(t) + (Len(whole) - (Floor + j)) = Floor + n
  BY <1>1, <1>2
<1>5. /\ a \in Seq(C) /\ Len(a) = Floor + n
      /\ \A k \in 1..(Floor + n) :
           a[k] = IF k <= Floor + i THEN whole[k] ELSE IF k <= Floor + i + Len(t) THEN t[k - (Floor + i)]
                  ELSE whole[k - (Floor + i) - Len(t) + (Floor + j)]
  <2> DEFINE f == Floor + i
             g == Floor + j
  <2>1. f \in 0..Len(whole) /\ g \in f..Len(whole)
    BY <1>3
  <2> HIDE DEF f, g
  <2>2. Spliced(whole, f, g, t) \in Seq(C) /\ IsSpliced(Spliced(whole, f, g, t), whole, f, g, t)
    BY <1>2, <2>1, SplicedIs
  <2> QED
    BY <1>4, <2>2 DEF f, g, IsSpliced
<1>6. /\ p \in Seq(C) /\ Len(p) = n
      /\ \A k \in 1..n : p[k] = IF k <= i THEN s[k] ELSE IF k <= i + Len(t) THEN t[k - i] ELSE s[k - i - Len(t) + j]
  BY SplicedIs DEF IsSpliced
<1> HIDE DEF a, p
<1>7. /\ b \in Seq(C) /\ Len(b) = Floor + n
      /\ \A k \in 1..(Floor + n) : b[k] = IF k <= Floor THEN Before[k] ELSE p[k - Floor]
  <2>1. b \in Seq(C) /\ Len(b) = Len(Before) + Len(p)
        /\ \A k \in 1..(Len(Before) + Len(p)) : b[k] = IF k <= Len(Before) THEN Before[k] ELSE p[k - Len(Before)]
    BY <1>6, ConcatProperties
  <2> HIDE DEF b
  <2> QED
    BY <1>1, <1>6, <2>1
<1> HIDE DEF b
<1>8. n \in Nat
  BY <1>1
<1>9. ASSUME NEW k \in 1..(Floor + n) PROVE a[k] = b[k]
  <2>1. CASE k <= Floor
    <3>1. k \in 1..(Floor + Len(s)) /\ k <= Floor + i
      BY <1>1, <2>1
    <3> QED
      BY <1>2, <1>5, <1>7, <2>1, <3>1
  <2>2. CASE k > Floor
    <3> DEFINE m == k - Floor
    <3>1. m \in 1..n /\ ~(k <= Floor)
      BY <1>1, <1>8, <2>2
    <3>2. b[k] = IF m <= i THEN s[m] ELSE IF m <= i + Len(t) THEN t[m - i] ELSE s[m - i - Len(t) + j]
      BY <1>6, <1>7, <3>1
    <3>3. CASE m <= i
      <4>1. k <= Floor + i /\ k \in 1..(Floor + Len(s))
        BY <1>1, <3>3
      <4> QED
        BY <1>2, <1>5, <3>1, <3>2, <3>3, <4>1
    <3>4. CASE ~(m <= i) /\ m <= i + Len(t)
      <4>1. ~(k <= Floor + i) /\ k <= Floor + i + Len(t) /\ k - (Floor + i) = m - i
        BY <1>1, <3>4
      <4> QED
        BY <1>5, <3>2, <3>4, <4>1
    <3>5. CASE ~(m <= i) /\ ~(m <= i + Len(t))
      <4> DEFINE h == k - (Floor + i) - Len(t) + (Floor + j)
      <4>1. ~(k <= Floor + i) /\ ~(k <= Floor + i + Len(t)) /\ h - Floor = m - i - Len(t) + j
            /\ h \in 1..(Floor + Len(s)) /\ ~(h <= Floor)
        BY <1>1, <3>1, <3>5
      <4>2. a[k] = whole[h]
        BY <1>5, <4>1
      <4>3. whole[h] = s[h - Floor]
        <5> HIDE DEF h
        <5> QED
          BY <1>2, <4>1
      <4> QED
        BY <3>2, <3>5, <4>1, <4>2, <4>3
    <3> QED
      BY <3>3, <3>4, <3>5
  <2> QED
    BY <1>1, <2>1, <2>2
<1> QED
  BY <1>5, <1>7, <1>9, SeqEqual DEF a, b, p, whole

\* To delete and then insert at the same place is to splice once.
LEMMA SplicedTwice ==
  ASSUME NEW C, NEW s \in Seq(C), NEW i \in 0..Len(s), NEW j \in i..Len(s), NEW t \in Seq(C)
  PROVE  Spliced(Spliced(s, i, j, <<>>), i, i, t) = Spliced(s, i, j, t)
<1> DEFINE none == <<>>
           a == Spliced(s, i, j, none)
           b == Spliced(a, i, i, t)
           c == Spliced(s, i, j, t)
           n == i + Len(t) + (Len(s) - j)
<1>1. Len(s) \in Nat /\ Len(t) \in Nat /\ none \in Seq(C) /\ Len(none) = 0
  OBVIOUS
<1> HIDE DEF none
<1>2. a \in Seq(C) /\ Len(a) = i + (Len(s) - j)
      /\ \A k \in 1..(i + (Len(s) - j)) : a[k] = IF k <= i THEN s[k] ELSE s[k - i + j]
  <2>1. a \in Seq(C) /\ IsSpliced(a, s, i, j, none)
    BY <1>1, SplicedIs
  <2> HIDE DEF a
  <2>2. i + Len(none) + (Len(s) - j) = i + (Len(s) - j) /\ i + Len(none) = i
    BY <1>1
  <2>3. \A k \in 1..(i + (Len(s) - j)) : k - i - Len(none) + j = k - i + j
    BY <1>1
  <2> QED
    BY <2>1, <2>2, <2>3 DEF IsSpliced
<1> HIDE DEF a
<1>3. i \in 0..Len(a) /\ i \in i..Len(a)
  BY <1>1, <1>2
<1>4. b \in Seq(C) /\ Len(b) = n
      /\ \A k \in 1..n : b[k] = IF k <= i THEN a[k] ELSE IF k <= i + Len(t) THEN t[k - i] ELSE a[k - i - Len(t) + i]
  <2>1. b \in Seq(C) /\ IsSpliced(b, a, i, i, t)
    BY <1>2, <1>3, SplicedIs
  <2> HIDE DEF b
  <2>2. i + Len(t) + (Len(a) - i) = n
    BY <1>1, <1>2
  <2> QED
    BY <2>1, <2>2 DEF IsSpliced
<1>5. c \in Seq(C) /\ Len(c) = n
      /\ \A k \in 1..n : c[k] = IF k <= i THEN s[k] ELSE IF k <= i + Len(t) THEN t[k - i] ELSE s[k - i - Len(t) + j]
  BY SplicedIs DEF IsSpliced
<1> HIDE DEF b, c
<1>6. ASSUME NEW k \in 1..n PROVE b[k] = c[k]
  <2>1. CASE k <= i
    <3>1. k \in 1..(i + (Len(s) - j))
      BY <1>1, <2>1
    <3> QED
      BY <1>2, <1>4, <1>5, <2>1, <3>1
  <2>2. CASE ~(k <= i) /\ k <= i + Len(t)
    BY <1>4, <1>5, <2>2
  <2>3. CASE ~(k <= i) /\ ~(k <= i + Len(t))
    <3> DEFINE h == k - i - Len(t) + i
    <3>1. h \in 1..(i + (Len(s) - j)) /\ ~(h <= i) /\ h - i + j = k - i - Len(t) + j
      BY <1>1, <2>3
    <3>2. b[k] = a[h]
      BY <1>4, <2>3
    <3>3. a[h] = s[h - i + j]
      <4> HIDE DEF h
      <4> QED
        BY <1>2, <3>1
    <3> QED
      BY <1>5, <2>3, <3>1, <3>2, <3>3
  <2> QED
    BY <2>1, <2>2, <2>3
<1>7. b = c
  BY <1>4, <1>5, <1>6, SeqEqual
<1> QED
  BY <1>7 DEF none, a, b, c

\* A splice at the end of a text
LEMMA SplicedAtEnd ==
  ASSUME NEW C, NEW s \in Seq(C), NEW t \in Seq(C)
  PROVE  Spliced(s, Len(s), Len(s), t) = s \o t
<1>1. SubSeq(s, 1, Len(s)) = s
  BY SubSeqFull
<1>2. SubSeq(s, Len(s) + 1, Len(s)) = <<>>
  BY SubSeqEmpty
<1>3. s \o t \in Seq(C) /\ (s \o t) \o <<>> = s \o t
  BY ConcatEmptySeq
<1> QED
  BY <1>1, <1>2, <1>3 DEF Spliced

\* The part of the document that is the job's is what stands after the floor.
LEMMA PageIs ==
  ASSUME NEW C, Before \in Seq(C), NEW s \in Seq(C)
  PROVE  /\ SubSeq(Before \o s, Floor + 1, Len(Before \o s)) = s
         /\ SubSeq(Before \o s, 1, Floor) = Before
         /\ Len(Before \o s) = Floor + Len(s) /\ Floor \in Nat /\ Len(s) \in Nat
<1> DEFINE whole == Before \o s
           a == SubSeq(whole, Floor + 1, Len(whole))
<1>1. Floor \in Nat /\ Floor = Len(Before) /\ Len(s) \in Nat
  BY DEF Floor
<1>2. whole \in Seq(C) /\ Len(whole) = Floor + Len(s)
      /\ \A k \in 1..(Floor + Len(s)) : whole[k] = IF k <= Floor THEN Before[k] ELSE s[k - Floor]
  BY <1>1, ConcatProperties
<1>3. SubSeq(whole, 1, Floor) = Before
  <2>1. SubSeq(whole, 1, Floor) = SubSeq(Before, 1, Floor) /\ SubSeq(Before, 1, Floor) = Before
    BY <1>1, PrefixOfConcat, SubSeqFull
  <2> QED
    BY <2>1
<1> HIDE DEF whole
<1>4. a \in Seq(C) /\ Len(a) = Len(s) /\ \A k \in 1..Len(s) : a[k] = s[k]
  <2> DEFINE m == Floor + 1
             n == Len(whole)
  <2>1. \A k \in m..n : whole[k] \in C
    BY <1>1, <1>2
  <2>2. m \in Int /\ n \in Int /\ n - m + 1 = Len(s) /\ n = Floor + Len(s) /\ m = Floor + 1
    BY <1>1, <1>2
  <2> HIDE DEF m, n
  <2>3. a \in Seq(C) /\ Len(a) = (IF m <= n THEN n - m + 1 ELSE 0) /\ \A k \in 1..(n - m + 1) : a[k] = whole[m + k - 1]
    BY <2>1, <2>2, SubSeqProperties DEF m, n
  <2> HIDE DEF a
  <2>4. Len(a) = Len(s)
    BY <1>1, <2>2, <2>3
  <2>5. ASSUME NEW k \in 1..Len(s) PROVE a[k] = s[k]
    <3> DEFINE h == m + k - 1
    <3>1. h \in 1..(Floor + Len(s)) /\ ~(h <= Floor) /\ h - Floor = k
      BY <1>1, <2>2
    <3>2. a[k] = whole[h]
      BY <2>2, <2>3
    <3> HIDE DEF h
    <3> QED
      BY <1>2, <3>1, <3>2
  <2> QED
    BY <2>3, <2>4, <2>5
<1>5. a = s
  BY <1>4, SeqEqual
<1> QED
  BY <1>1, <1>2, <1>3, <1>5 DEF whole

-----------------------------------------------------------------------------
SomeText == Seq(Characters) \ {<<>>}
Batches == {<<InsertOp(text)>> : text \in SomeText}
RepairsOf(p) == {i \in 1..Len(p) : p[i].kind = "repair"}

\* The calls a job may be waiting for
Calls(p) ==
  [by : {"replay", "loop", "final"}, kind : {"flush"}, ops : Batches]
    \cup [by : {"replay", "tidy"}, kind : {"repair"}, index : RepairsOf(p)]

\* What makes a call stands waiting for it: the flush loop r, or the rest of the job l.
Waited(t, r, l) ==
  /\ t.by = "loop" => l = "flush"
  /\ t.by = "replay" => r = IF t.kind = "flush" THEN "flush" ELSE "repair"
  /\ t.by = "final" => r = "final"
  /\ t.by = "tidy" => r = "tidying"

\* The end of the text a repair is aimed at
AimedAt(p, i) == p[i].offset + p[i].remove

Queued(p, c, r, l, end) ==
  /\ c \in Seq(Calls(p))
  /\ \A i \in 1..Len(c) : Waited(c[i], r, l) /\ (c[i].kind = "repair" => Floor + AimedAt(p, c[i].index) <= end)
  /\ \A i, j \in 1..Len(c) : (c[i].by = "loop") = (c[j].by = "loop") => i = j

Waiting == {"flush", "repair", "final", "tidying"}

-----------------------------------------------------------------------------
\* A step that moves neither of the two who may be waiting for a call leaves the queue as it is.
LEMMA QueueKeeps ==
  ASSUME NEW p, NEW c, NEW r, NEW l, NEW end, Queued(p, c, r, l, end), NEW r2, NEW l2,
         r2 = r \/ r \notin Waiting, l2 = l \/ l # "flush"
  PROVE  Queued(p, c, r2, l2, end)
BY DEF Queued, Waited, Waiting

\* documents.ts:211-218: a call joins the chain, and whoever makes it starts waiting for it.
LEMMA QueueGrows ==
  ASSUME NEW p, NEW c, NEW r, NEW l, NEW end, Queued(p, c, r, l, end), NEW r2, NEW l2,
         NEW t \in Calls(p), Waited(t, r2, l2), t.kind = "repair" => Floor + AimedAt(p, t.index) <= end,
         IF t.by = "loop" THEN l # "flush" /\ r2 = r ELSE r \notin Waiting /\ l2 = l
  PROVE  Queued(p, Append(c, t), r2, l2, end)
<1> DEFINE d == Append(c, t)
           n == Len(c)
<1>1. c \in Seq(Calls(p)) /\ n \in Nat
  BY DEF Queued
<1>2. d \in Seq(Calls(p)) /\ Len(d) = n + 1 /\ d[n + 1] = t /\ \A i \in 1..n : d[i] = c[i]
  BY <1>1
<1> HIDE DEF d, n
<1>3. ASSUME NEW i \in 1..n
      PROVE  /\ Waited(c[i], r2, l2) /\ (c[i].kind = "repair" => Floor + AimedAt(p, c[i].index) <= end)
             /\ (c[i].by = "loop") # (t.by = "loop")
  <2>1. c[i] \in Calls(p)
    BY <1>1 DEF n
  <2>2. c[i].by \in {"replay", "loop", "final", "tidy"} /\ t.by \in {"replay", "loop", "final", "tidy"}
    BY <2>1 DEF Calls
  <2>3. Waited(c[i], r, l) /\ (c[i].kind = "repair" => Floor + AimedAt(p, c[i].index) <= end)
    BY DEF Queued, n
  <2>4. (c[i].by = "loop") # (t.by = "loop")
    BY <2>2, <2>3 DEF Waited, Waiting
  <2>5. Waited(c[i], r2, l2)
    BY <2>2, <2>3, <2>4 DEF Waited, Waiting
  <2> QED
    BY <2>3, <2>4, <2>5
<1>4. \A i, j \in 1..n : (c[i].by = "loop") = (c[j].by = "loop") => i = j
  BY DEF Queued, n
<1>5. \A i \in 1..(n + 1) : i \in 1..n \/ i = n + 1
  BY <1>1
<1>6. \A i \in 1..(n + 1) : Waited(d[i], r2, l2) /\ (d[i].kind = "repair" => Floor + AimedAt(p, d[i].index) <= end)
  BY <1>2, <1>3, <1>5
<1>7. \A i, j \in 1..(n + 1) : (d[i].by = "loop") = (d[j].by = "loop") => i = j
  <2> SUFFICES ASSUME NEW i \in 1..(n + 1), NEW j \in 1..(n + 1), (d[i].by = "loop") = (d[j].by = "loop")
               PROVE  i = j
    OBVIOUS
  <2>1. CASE i \in 1..n /\ j \in 1..n
    BY <1>2, <1>4, <2>1
  <2>2. CASE i \in 1..n /\ j = n + 1
    BY <1>2, <1>3, <2>2
  <2>3. CASE i = n + 1 /\ j \in 1..n
    BY <1>2, <1>3, <2>3
  <2> QED
    BY <1>5, <2>1, <2>2, <2>3
<1> QED
  BY <1>2, <1>6, <1>7 DEF Queued, d

\* documents.ts:205-206: the call at the head of the chain is over, and whoever made it goes on.
LEMMA QueueShrinks ==
  ASSUME NEW p, NEW c, NEW r, NEW l, NEW end \in Int, Queued(p, c, r, l, end), c # <<>>, NEW r2, NEW l2,
         NEW end2 \in Int, end2 >= end \/ Head(c).kind = "repair", Floor \in Nat, p \in Seq(HumanEvent),
         IF Head(c).by = "loop" THEN r2 = r ELSE l2 = l
  PROVE  /\ Head(c) \in Calls(p) /\ Waited(Head(c), r, l)
         /\ Head(c).kind = "repair" => Floor + AimedAt(p, Head(c).index) <= end
         /\ Queued(p, Tail(c), r2, l2, end2)
<1> DEFINE d == Tail(c)
           n == Len(c)
<1>1. c \in Seq(Calls(p)) /\ n \in Nat \ {0} /\ Head(c) = c[1] /\ 1 \in 1..n
  BY DEF Queued
<1>2. d \in Seq(Calls(p)) /\ Len(d) = n - 1 /\ \A i \in 1..(n - 1) : d[i] = c[i + 1]
  BY <1>1
<1> HIDE DEF d
<1>3. Head(c) \in Calls(p) /\ Waited(Head(c), r, l)
      /\ (Head(c).kind = "repair" => Floor + AimedAt(p, Head(c).index) <= end)
  BY <1>1 DEF Queued
<1>4. ASSUME NEW i \in 1..(n - 1)
      PROVE  /\ Waited(d[i], r2, l2)
             /\ d[i].kind = "repair" => Floor + AimedAt(p, d[i].index) <= end2
  <2>1. i + 1 \in 1..n /\ i + 1 # 1
    BY <1>1
  <2>2. c[i + 1] \in Calls(p) /\ Waited(c[i + 1], r, l) /\ (c[i + 1].by = "loop") # (c[1].by = "loop")
        /\ (c[i + 1].kind = "repair" => Floor + AimedAt(p, c[i + 1].index) <= end)
    BY <1>1, <2>1 DEF Queued
  <2>3. Waited(d[i], r2, l2)
    BY <1>1, <1>2, <2>2 DEF Waited
  <2>4. ASSUME d[i].kind = "repair" PROVE Floor + AimedAt(p, d[i].index) <= end2
    <3>1. d[i] = c[i + 1] /\ d[i].by # "loop"
      BY <1>2, <2>2, <2>4 DEF Calls
    <3>2. Head(c).kind # "repair"
      BY <1>1, <1>3, <2>2, <3>1 DEF Calls
    <3>3. AimedAt(p, d[i].index) \in Nat
      <4>1. d[i].index \in 1..Len(p) /\ p[d[i].index].kind = "repair"
        BY <2>2, <2>4, <3>1 DEF Calls, RepairsOf
      <4>2. p[d[i].index] \in HumanEvent
        BY <4>1
      <4>3. PICK e \in HumanEvent : e = p[d[i].index]
        BY <4>2
      <4>4. e.kind = "repair" => e.offset + e.remove \in Nat
        BY DEF HumanEvent
      <4> QED
        BY <4>1, <4>3, <4>4 DEF AimedAt
    <3> QED
      BY <2>2, <2>4, <3>1, <3>2, <3>3
  <2> QED
    BY <2>3, <2>4
<1>5. \A i, j \in 1..(n - 1) : (d[i].by = "loop") = (d[j].by = "loop") => i = j
  <2> SUFFICES ASSUME NEW i \in 1..(n - 1), NEW j \in 1..(n - 1), (d[i].by = "loop") = (d[j].by = "loop")
               PROVE  i = j
    OBVIOUS
  <2>1. i + 1 \in 1..n /\ j + 1 \in 1..n /\ d[i] = c[i + 1] /\ d[j] = c[j + 1]
    BY <1>1, <1>2
  <2>2. i + 1 = j + 1
    BY <2>1 DEF Queued
  <2> QED
    BY <1>1, <2>2
<1> QED
  BY <1>2, <1>3, <1>4, <1>5 DEF Queued, d

-----------------------------------------------------------------------------
Believed ==
  /\ Page \in Seq(Characters) /\ doc = Before \o Page
  /\ Floor <= cursor /\ charsWritten = cursor - Floor
  /\ lost = 0 => cursor = Len(doc)
  /\ lost = 0 /\ outcome # "cancelled" => preview = Page

Orderly ==
  /\ TypeOK
  /\ buffer \in Batches \cup {<<>>}
  /\ Queued(plan, chain, replay, loop, cursor)
  /\ outcome # "none" => replay = "over"

JobInv == Orderly /\ Believed

\* The text of a batch of one insert
TaskText == task.ops[1].text

\* What Google makes of the job's part of the document
NewPage ==
  IF task.kind = "flush" THEN Spliced(Page, cursor - Floor, cursor - Floor, TaskText)
  ELSE Abs!Repaired(Page, plan[task.index])

\* The plan is a sequence of events, and not an empty one.
LEMMA PlanIs ==
  ASSUME plan \in Plans
  PROVE  plan \in Seq(HumanEvent) /\ Len(plan) \in Nat \ {0}
BY TypingAssumption

\* A repair of the plan replaces something, at a place of the page.
LEMMA RepairIs ==
  ASSUME plan \in Plans, NEW i \in RepairsOf(plan)
  PROVE  /\ i \in 1..Len(plan) /\ plan[i].kind = "repair" /\ plan[i].offset \in Nat
         /\ plan[i].remove \in Nat \ {0} /\ plan[i].insert \in Seq(Characters)
         /\ AimedAt(plan, i) \in Nat
<1>1. i \in 1..Len(plan) /\ plan[i].kind = "repair" /\ plan[i] \in HumanEvent
  BY PlanIs DEF RepairsOf
<1>2. plan[i].offset \in Nat /\ plan[i].remove \in Nat \ {0} /\ plan[i].insert \in Seq(Characters)
  BY <1>1 DEF HumanEvent
<1> QED
  BY <1>1, <1>2 DEF AimedAt

\* The call being made
LEMMA HeadIs ==
  ASSUME JobInv, chain # <<>>
  PROVE  /\ task \in Calls(plan) /\ Waited(task, replay, loop)
         /\ task.kind \in {"flush", "repair"} /\ task.by \in {"replay", "loop", "final", "tidy"}
         /\ task.kind = "flush" => /\ TaskText \in Seq(Characters) /\ task.ops = <<InsertOp(TaskText)>>
                                   /\ task.by \in {"replay", "loop", "final"}
         /\ task.kind = "repair" => /\ task.index \in RepairsOf(plan) /\ task.by \in {"replay", "tidy"}
                                    /\ Floor + AimedAt(plan, task.index) <= cursor
<1>1. chain \in Seq(Calls(plan)) /\ 1 \in 1..Len(chain) /\ task = chain[1]
  BY DEF JobInv, Orderly, Queued, task
<1>2. task \in Calls(plan) /\ Waited(task, replay, loop)
      /\ (task.kind = "repair" => Floor + AimedAt(plan, task.index) <= cursor)
  BY <1>1 DEF JobInv, Orderly, Queued
<1>3. ASSUME task.kind = "flush"
      PROVE  /\ TaskText \in Seq(Characters) /\ task.ops = <<InsertOp(TaskText)>>
             /\ task.by \in {"replay", "loop", "final"}
  <2>1. task.ops \in Batches /\ task.by \in {"replay", "loop", "final"}
    BY <1>2, <1>3 DEF Calls
  <2>2. PICK text \in SomeText : task.ops = <<InsertOp(text)>>
    BY <2>1 DEF Batches
  <2>3. TaskText = text
    BY <2>2 DEF TaskText, InsertOp
  <2> QED
    BY <2>1, <2>2, <2>3 DEF SomeText
<1>4. task.kind = "repair" => task.index \in RepairsOf(plan) /\ task.by \in {"replay", "tidy"}
  BY <1>2 DEF Calls
<1>5. task.kind \in {"flush", "repair"} /\ task.by \in {"replay", "loop", "final", "tidy"}
  BY <1>2 DEF Calls
<1> QED
  BY <1>2, <1>3, <1>4, <1>5

\* documents.ts:228-239 and 243-282: what a call that Google accepts does to the document
LEMMA Applied ==
  ASSUME JobInv, chain # <<>>, Accepted
  PROVE  /\ ApplyRequests(doc, Requests(task)) = Before \o NewPage /\ NewPage \in Seq(Characters)
         /\ NextCursor(task) \in Nat /\ Floor <= NextCursor(task)
         /\ task.kind = "flush" => NextCursor(task) >= cursor
         /\ lost = 0 => NextCursor(task) = Floor + Len(NewPage)
         /\ lost = 0 /\ task.kind = "flush" => NewPage = Page \o TaskText
<1>1. /\ Before \in Seq(Characters) /\ Page \in Seq(Characters) /\ doc = Before \o Page /\ cursor \in Nat
      /\ Floor <= cursor /\ (lost = 0 => cursor = Len(doc))
  BY BeforeAssumption DEF JobInv, Orderly, Believed, TypeOK
<1>2. Floor \in Nat /\ Len(Page) \in Nat /\ Len(doc) = Floor + Len(Page)
  BY <1>1, PageIs
<1>3. CASE task.kind = "flush"
  <2> DEFINE text == TaskText
             i == cursor - Floor
  <2>1. text \in Seq(Characters) /\ task.ops = <<InsertOp(text)>>
    BY <1>3, HeadIs
  <2>2. Len(text) \in Nat
    BY <2>1
  <2>3. PlanRequests(task.ops, cursor) = [cursor |-> cursor + Len(text), requests |-> <<InsertReq(cursor, text)>>]
    <3> DEFINE base == [requests |-> <<>>, cursor |-> cursor]
    <3>1. PlanRequests(task.ops, cursor) = PlanOp(base, InsertOp(text))
      BY <2>1, OneByOne
    <3>2. PlanOp(base, InsertOp(text)) = PlanInsert(base, text)
      BY DEF PlanOp, InsertOp
    <3>3. ~EndsInInsert(base) /\ base.cursor = cursor /\ base.requests = <<>>
      BY DEF EndsInInsert
    <3> HIDE DEF base
    <3>4. PlanInsert(base, text) = [cursor |-> cursor + Len(text), requests |-> Append(<<>>, InsertReq(cursor, text))]
      BY <3>3 DEF PlanInsert
    <3> QED
      BY <3>1, <3>2, <3>4
  <2>4. Requests(task) = <<InsertReq(cursor, text)>> /\ NextCursor(task) = cursor + Len(text)
    BY <1>3, <2>3 DEF Requests, NextCursor
  <2>5. cursor \in 0..Len(doc)
    <3>1. InRange(doc, InsertReq(cursor, text))
      BY <2>4 DEF Accepted
    <3> QED
      BY <3>1 DEF InRange, InsertReq
  <2>6. i \in 0..Len(Page) /\ cursor = Floor + i /\ i \in i..Len(Page)
    BY <1>1, <1>2, <2>5
  <2>7. ApplyRequests(doc, Requests(task)) = Spliced(doc, cursor, cursor, text)
    BY <2>4, OneByOne DEF ApplyRequest, InsertReq
  <2>8. NewPage = Spliced(Page, i, i, text)
    BY <1>3 DEF NewPage
  <2> HIDE DEF i, text
  <2>9. Spliced(Before \o Page, Floor + i, Floor + i, text) = Before \o Spliced(Page, i, i, text)
    BY <1>1, <2>1, <2>6, SplicedAfterBefore
  <2>10. NewPage \in Seq(Characters) /\ Len(NewPage) = i + Len(text) + (Len(Page) - i)
    BY <1>1, <2>1, <2>6, <2>8, SplicedLen
  <2>11. ASSUME lost = 0 PROVE NewPage = Page \o text
    <3>1. i = Len(Page)
      BY <1>1, <1>2, <2>6, <2>11
    <3> QED
      BY <1>1, <2>1, <2>8, <3>1, SplicedAtEnd
  <2>12. NextCursor(task) \in Nat /\ Floor <= NextCursor(task) /\ NextCursor(task) >= cursor
         /\ (lost = 0 => NextCursor(task) = Floor + Len(NewPage))
    <3>1. NextCursor(task) \in Nat /\ Floor <= NextCursor(task) /\ NextCursor(task) >= cursor
      BY <1>1, <1>2, <2>2, <2>4
    <3>2. ASSUME lost = 0 PROVE NextCursor(task) = Floor + Len(NewPage)
      <4>1. cursor = Floor + Len(Page) /\ i = Len(Page)
        BY <1>1, <1>2, <2>6, <3>2
      <4> QED
        BY <1>2, <2>2, <2>4, <2>10, <4>1
    <3> QED
      BY <3>1, <3>2
  <2> QED
    BY <1>1, <2>6, <2>7, <2>8, <2>9, <2>10, <2>11, <2>12 DEF text
<1>4. CASE task.kind # "flush"
  <2> DEFINE e == plan[task.index]
             i == e.offset
             j == e.offset + e.remove
             t == e.insert
  <2>1. i \in Nat /\ e.remove \in Nat \ {0} /\ t \in Seq(Characters) /\ Floor + j <= cursor
        /\ task.kind = "repair" /\ Len(t) \in Nat
    <3>1. task.kind = "repair" /\ task.index \in RepairsOf(plan) /\ Floor + AimedAt(plan, task.index) <= cursor
      BY <1>4, HeadIs
    <3>2. plan \in Plans
      BY DEF JobInv, Orderly, TypeOK
    <3> QED
      BY <3>1, <3>2, RepairIs DEF AimedAt
  <2>2. Requests(task) = RepairRequests(e)
    BY <1>4 DEF Requests
  <2>3. NextCursor(task) = cursor + Len(t) - e.remove
    BY <1>4 DEF NextCursor
  <2>4. NewPage = Spliced(Page, i, j, t)
    BY <1>4 DEF NewPage, Abs!Repaired, Spliced
  <2> HIDE DEF e
  <2> DEFINE cut == DeleteReq(Floor + i, Floor + j)
             put == InsertReq(Floor + i, t)
  <2>5. RepairRequests(e) = <<cut>> \o (IF t = <<>> THEN <<>> ELSE <<put>>)
    <3>1. Floor + e.offset + e.remove = Floor + j
      BY <1>2, <2>1
    <3> QED
      BY <3>1 DEF RepairRequests
  <2>6. Head(Requests(task)) = cut
    <3> HIDE DEF cut, put
    <3> QED
      BY <2>2, <2>5
  <2>7. i \in 0..Len(Page) /\ j \in i..Len(Page) /\ Floor + i < Floor + j
    <3>1. InRange(doc, cut)
      BY <2>6 DEF Accepted
    <3>2. Floor + i < Floor + j /\ Floor + j <= Len(doc)
      BY <3>1 DEF InRange, DeleteReq
    <3> QED
      BY <1>2, <2>1, <3>2
  <2>8. ApplyRequest(doc, cut) = Before \o Spliced(Page, i, j, <<>>)
    <3> DEFINE none == <<>>
    <3>1. none \in Seq(Characters)
      OBVIOUS
    <3>2. ApplyRequest(doc, cut) = Spliced(doc, Floor + i, Floor + j, none)
      BY DEF ApplyRequest, DeleteReq
    <3> HIDE DEF none, i, j
    <3>3. Spliced(Before \o Page, Floor + i, Floor + j, none) = Before \o Spliced(Page, i, j, none)
      BY <1>1, <2>7, <3>1, SplicedAfterBefore
    <3> QED
      BY <1>1, <3>2, <3>3 DEF none
  <2>9. ApplyRequests(doc, Requests(task)) = Before \o NewPage
    <3>1. CASE t = <<>>
      <4>1. Requests(task) = <<cut>>
        <5> HIDE DEF cut, put
        <5> QED
          BY <2>2, <2>5, <3>1
      <4> QED
        BY <2>4, <2>8, <3>1, <4>1, OneByOne
    <3>2. CASE t # <<>>
      <4>1. Requests(task) = <<cut, put>>
        <5> HIDE DEF cut, put
        <5>1. <<cut>> \o <<put>> = <<cut, put>>
          <6> DEFINE one == <<cut>>
                     S == {cut, put}
          <6>1. one \in Seq(S) /\ put \in S
            OBVIOUS
          <6> HIDE DEF one, S
          <6>2. Append(one, put) = one \o <<put>>
            BY <6>1, AppendIsConcat
          <6> QED
            BY <6>2, Google!Pairs DEF one
        <5> QED
          BY <2>2, <2>5, <3>2, <5>1
      <4> DEFINE mid == Spliced(Page, i, j, <<>>)
      <4>2. ApplyRequests(doc, Requests(task)) = ApplyRequest(Before \o mid, put)
        <5> HIDE DEF cut, put
        <5>1. ApplyRequests(doc, <<cut, put>>) = ApplyRequest(ApplyRequest(doc, cut), put)
          BY OneByOne
        <5>2. ApplyRequests(doc, Requests(task)) = ApplyRequests(doc, <<cut, put>>)
          BY <4>1
        <5>3. ApplyRequest(doc, cut) = Before \o mid
          BY <2>8
        <5> HIDE DEF mid
        <5> QED
          BY <5>1, <5>2, <5>3
      <4>3. ApplyRequest(Before \o mid, put) = Spliced(Before \o mid, Floor + i, Floor + i, t)
        BY DEF ApplyRequest, InsertReq
      <4>4. mid \in Seq(Characters) /\ Len(mid) = i + (Len(Page) - j)
        <5> DEFINE none == <<>>
        <5>1. none \in Seq(Characters) /\ Len(none) = 0
          OBVIOUS
        <5> HIDE DEF none, i, j
        <5>2. Spliced(Page, i, j, none) \in Seq(Characters)
              /\ Len(Spliced(Page, i, j, none)) = i + Len(none) + (Len(Page) - j)
          BY <1>1, <2>7, <5>1, SplicedLen
        <5>3. i + Len(none) = i
          BY <2>7, <5>1
        <5> QED
          BY <5>2, <5>3 DEF none
      <4>5. i \in 0..Len(mid) /\ i \in i..Len(mid)
        <5> HIDE DEF mid, i, j
        <5> QED
          BY <1>2, <2>7, <4>4
      <4>6. Spliced(Before \o mid, Floor + i, Floor + i, t) = Before \o Spliced(mid, i, i, t)
        <5> HIDE DEF mid, i, j, t
        <5> QED
          <6>1. Before \in Seq(Characters) /\ mid \in Seq(Characters) /\ t \in Seq(Characters)
            BY <1>1, <2>1, <4>4
          <6> QED
            BY <4>5, <6>1, SplicedAfterBefore
      <4>7. Spliced(mid, i, i, t) = Spliced(Page, i, j, t)
        <5> HIDE DEF i, j, t
        <5> QED
          BY <1>1, <2>1, <2>7, SplicedTwice
      <4> QED
        BY <2>4, <4>2, <4>3, <4>6, <4>7
    <3> QED
      BY <3>1, <3>2
  <2>10. NewPage \in Seq(Characters) /\ Len(NewPage) = i + Len(t) + (Len(Page) - j)
    <3> HIDE DEF i, j, t
    <3> QED
      BY <1>1, <2>1, <2>4, <2>7, SplicedLen
  <2>11. NextCursor(task) \in Nat /\ Floor <= NextCursor(task)
         /\ (lost = 0 => NextCursor(task) = Floor + Len(NewPage))
    <3> DEFINE r == e.remove
    <3>1. j = i + r
      OBVIOUS
    <3> HIDE DEF i, j, t, r
    <3> QED
      <4>1. r \in Nat /\ Len(t) \in Nat /\ Floor + j <= cursor /\ i \in Nat /\ j \in Nat /\ j <= Len(Page)
        BY <1>2, <2>1, <2>7 DEF r
      <4>2. NextCursor(task) = cursor + Len(t) - r
        BY <2>3 DEF r
      <4>3. NextCursor(task) \in Nat /\ Floor <= NextCursor(task)
        BY <1>1, <1>2, <3>1, <4>1, <4>2
      <4>4. ASSUME lost = 0 PROVE NextCursor(task) = Floor + Len(NewPage)
        <5>1. cursor = Floor + Len(Page)
          BY <1>1, <1>2, <4>4
        <5> QED
          BY <1>2, <2>10, <3>1, <4>1, <4>2, <5>1
      <4> QED
        BY <4>3, <4>4
  <2> QED
    BY <1>4, <2>9, <2>10, <2>11
<1> QED
  BY <1>3, <1>4

-----------------------------------------------------------------------------
\* buffer.ts:7-9: letters typed one after the other stay one op in the buffer.
LEMMA HeldPushed ==
  ASSUME NEW ops \in Batches \cup {<<>>}, NEW char \in Characters
  PROVE  Pushed(ops, InsertOp(<<char>>)) \in Batches
<1> DEFINE one == <<char>>
<1>1. one \in Seq(Characters) /\ one # <<>> /\ Len(one) = 1
  OBVIOUS
<1> HIDE DEF one
<1>2. CASE ops = <<>>
  <2>1. Pushed(ops, InsertOp(one)) = <<InsertOp(one)>>
    BY <1>2 DEF Pushed
  <2> QED
    BY <1>1, <2>1 DEF Batches, SomeText, one
<1>3. CASE ops # <<>>
  <2>1. PICK text \in SomeText : ops = <<InsertOp(text)>>
    BY <1>3 DEF Batches
  <2> DEFINE longer == text \o one
  <2>2. longer \in SomeText
    <3>3. text \in Seq(Characters)
      BY <2>1 DEF SomeText
    <3>1. longer \in Seq(Characters) /\ Len(longer) = Len(text) + 1 /\ Len(text) \in Nat
      BY <1>1, <3>3, ConcatProperties
    <3> HIDE DEF longer
    <3>2. longer # <<>>
      BY <3>1
    <3> QED
      BY <3>1, <3>2 DEF SomeText
  <2>3. Last(ops) = InsertOp(text) /\ Front(ops) = <<>>
    BY <2>1 DEF Last, Front
  <2>4. Pushed(ops, InsertOp(one)) = <<InsertOp(longer)>>
    <3>1. ops # <<>> /\ Last(ops).kind = "insert" /\ Last(ops).text = text
      BY <1>3, <2>3 DEF InsertOp
    <3>2. Pushed(ops, InsertOp(one)) = Append(Front(ops), InsertOp(longer))
      BY <3>1 DEF Pushed, InsertOp
    <3> QED
      BY <2>3, <3>2
  <2> HIDE DEF longer
  <2> QED
    BY <2>2, <2>4 DEF Batches, one
<1> QED
  BY <1>2, <1>3

\* The least of some events of the plan, as TidyUp picks it
LEMMA LeastIs ==
  ASSUME NEW S \in SUBSET Nat, S # {}
  PROVE  Min(S) \in S /\ \A y \in S : Min(S) <= y
<1>1. PICK x \in S : \A y \in S : x <= y
  BY Google!LeastNatural
<1> QED
  BY <1>1, Zenon DEF Min

\* A step that neither writes nor moves the cursor, and ends the job at most once, leaves what
\* the job believes of the document true.
LEMMA Quiet ==
  ASSUME JobInv, UNCHANGED <<doc, cursor, charsWritten, preview, lost>>, outcome' = outcome \/ outcome = "none"
  PROVE  Believed'
BY DEF JobInv, Believed, Page

\* A job starts on an empty page.
LEMMA FreshPage == ASSUME Init PROVE Page = <<>>
<1> DEFINE none == <<>>
<1>1. Before \in Seq(Characters) /\ doc = Before
  BY BeforeAssumption DEF Init
<1>2. none \in Seq(Characters) /\ Before \o none = Before
  BY <1>1, ConcatEmptySeq
<1> HIDE DEF none
<1>3. SubSeq(Before \o none, Floor + 1, Len(Before \o none)) = none
  BY <1>1, <1>2, PageIs
<1> QED
  BY <1>1, <1>2, <1>3 DEF Page, none

\* A job that has typed nothing believes of the document what is so.
LEMMA JobInit == ASSUME Init PROVE JobInv
<1>1. Before \in Seq(Characters) /\ plan \in Plans /\ Len(plan) \in Nat \ {0} /\ Floor \in Nat
  <2>1. plan \in Plans
    BY DEF Init
  <2> QED
    BY <2>1, BeforeAssumption, PlanIs DEF Floor
<1>2. Page = <<>> /\ doc = Before \o Page
  BY <1>1, FreshPage, ConcatEmptySeq DEF Init
<1>3. TypeOK
  <2>1. MaxRetries \in Nat /\ MaxFaults \in Nat /\ MaxLost \in Nat
    BY TypingAssumption
  <2>2. 1 \in 1..Len(plan) /\ 0 \in 0..MaxRetries /\ 0 \in 0..MaxFaults /\ 0 \in 0..MaxLost
    BY <1>1, <2>1
  <2> QED
    BY <1>1, <2>2 DEF Init, TypeOK
<1>4. Queued(plan, chain, replay, loop, cursor)
  BY DEF Init, Queued
<1>5. <<>> \in Seq(Characters)
  OBVIOUS
<1> QED
  BY <1>1, <1>2, <1>3, <1>4, <1>5 DEF Init, JobInv, Orderly, Believed, Floor

\* What every step but a call's outcome may use
LEMMA Known ==
  ASSUME JobInv
  PROVE  /\ TypeOK /\ buffer \in Batches \cup {<<>>} /\ Queued(plan, chain, replay, loop, cursor)
         /\ (outcome # "none" => replay = "over")
         /\ plan \in Plans /\ Len(plan) \in Nat \ {0} /\ event \in HumanEvent /\ planIndex \in 1..Len(plan)
         /\ cursor \in Nat /\ Floor \in Nat
<1>1. TypeOK /\ buffer \in Batches \cup {<<>>} /\ Queued(plan, chain, replay, loop, cursor)
      /\ (outcome # "none" => replay = "over")
  BY DEF JobInv, Orderly
<1>2. plan \in Plans /\ planIndex \in 1..Len(plan) /\ cursor \in Nat
  BY <1>1 DEF TypeOK
<1>3. plan \in Seq(HumanEvent) /\ Len(plan) \in Nat \ {0}
  BY <1>2, PlanIs
<1> QED
  BY <1>1, <1>2, <1>3, BeforeAssumption DEF event, Floor

\* A batch joins the queue.
LEMMA Drained ==
  ASSUME JobInv, buffer # <<>>, NEW by \in {"replay", "loop", "final"}, NEW r2, NEW l2,
         IF by = "loop" THEN loop # "flush" /\ r2 = replay /\ l2 = "flush"
         ELSE replay \notin Waiting /\ l2 = loop /\ r2 = IF by = "final" THEN "final" ELSE "flush"
  PROVE  Queued(plan, Append(chain, Flush(by, buffer)), r2, l2, cursor)
<1> DEFINE t == Flush(by, buffer)
<1>1. t \in Calls(plan) /\ t.kind = "flush" /\ t.by = by
  BY Known DEF Calls, Flush
<1> HIDE DEF t
<1>2. Waited(t, r2, l2)
  BY <1>1 DEF Waited
<1>3. Queued(plan, chain, replay, loop, cursor)
  BY Known
<1>4. Queued(plan, Append(chain, t), r2, l2, cursor)
  BY <1>1, <1>2, <1>3, QueueGrows
<1> QED
  BY <1>4 DEF t

\* A repair joins the queue, aimed at text the writer has written.
LEMMA RepairQueued ==
  ASSUME JobInv, NEW i \in RepairsOf(plan), InJobsRange(i), NEW by \in {"replay", "tidy"},
         replay \notin Waiting, NEW r2, r2 = IF by = "replay" THEN "repair" ELSE "tidying"
  PROVE  Queued(plan, Append(chain, Repair(by, i)), r2, loop, cursor)
<1> DEFINE t == Repair(by, i)
<1>1. t \in Calls(plan) /\ t.kind = "repair" /\ t.by = by /\ t.index = i
  BY DEF Calls, Repair
<1> HIDE DEF t
<1>2. Waited(t, r2, loop)
  BY <1>1 DEF Waited
<1>3. Queued(plan, chain, replay, loop, cursor) /\ plan \in Plans /\ Floor \in Nat
  BY Known
<1>4. Floor + AimedAt(plan, i) <= cursor
  <2>1. plan[i].offset \in Nat /\ plan[i].remove \in Nat
    BY <1>3, RepairIs
  <2> QED
    BY <1>3, <2>1 DEF InJobsRange, AimedAt
<1>5. Queued(plan, Append(chain, t), r2, loop, cursor)
  BY <1>1, <1>2, <1>3, <1>4, QueueGrows
<1> QED
  BY <1>5 DEF t

\* The event a repair is started for is a repair of the plan.
LEMMA EventRepairs == ASSUME JobInv, event.kind = "repair" PROVE planIndex \in RepairsOf(plan)
BY Known DEF RepairsOf, event

-----------------------------------------------------------------------------
\* The replay loop, the flush loop and a cancellation
LEMMA ReplayStep ==
  ASSUME JobInv, TakeEvent \/ Type \/ RestOver \/ StartRepair \/ SleepAborted \/ Join
  PROVE  JobInv'
<1>1. CASE TakeEvent
  <2>1. Queued(plan, chain', replay', loop, cursor)
    <3>1. CASE chain' = chain
      BY <1>1, <3>1, Known, QueueKeeps DEF TakeEvent, Waiting
    <3>2. CASE Drain("replay") /\ replay' = "flush" /\ buffer # <<>>
      BY <1>1, <3>2, Drained DEF TakeEvent, Drain, Waiting
    <3> QED
      BY <1>1, <3>1, <3>2 DEF TakeEvent, Thrown
  <2>2. buffer' \in Batches \cup {<<>>}
    BY <1>1, Known DEF TakeEvent, Drain
  <2>3. TypeOK' /\ (outcome' # "none" => replay' = "over") /\ (outcome' = outcome \/ outcome = "none")
    BY <1>1, Known DEF TakeEvent, Thrown, TypeOK, google, shown, ghost
  <2>4. UNCHANGED <<plan, loop, doc, cursor, charsWritten, preview, lost>>
    BY <1>1 DEF TakeEvent, google, shown
  <2> QED
    BY <2>1, <2>2, <2>3, <2>4, Quiet DEF JobInv, Orderly
<1>2. CASE Type \/ RestOver
  <2>1. Queued(plan, chain', replay', loop, cursor)
    BY <1>2, Known, QueueKeeps DEF Type, RestOver, Waiting, writer
  <2>2. buffer' \in Batches \cup {<<>>}
    <3>1. CASE Type
      <4>1. event.char \in Characters
        BY <3>1, Known DEF Type, HumanEvent
      <4> QED
        BY <3>1, <4>1, Known, HeldPushed DEF Type
    <3> QED
      BY <1>2, <3>1, Known DEF RestOver
  <2>3. TypeOK' /\ (outcome' # "none" => replay' = "over") /\ outcome' = outcome
    BY <1>2, Known DEF Type, RestOver, Advance, TypeOK, google, shown, ghost, writer
  <2>4. UNCHANGED <<plan, loop, doc, cursor, charsWritten, preview, lost>>
    BY <1>2 DEF Type, RestOver, google, shown, writer
  <2> QED
    BY <2>1, <2>2, <2>3, <2>4, Quiet DEF JobInv, Orderly
<1>3. CASE StartRepair
  <2>1. Queued(plan, chain', replay', loop, cursor)
    <3>1. CASE InJobsRange(planIndex)
      <4>1. planIndex \in RepairsOf(plan)
        BY <1>3, EventRepairs DEF StartRepair
      <4> QED
        BY <1>3, <3>1, <4>1, RepairQueued DEF StartRepair, Waiting
    <3>2. CASE ~InJobsRange(planIndex)
      BY <1>3, <3>2, Known, QueueKeeps DEF StartRepair, Waiting
    <3> QED
      BY <3>1, <3>2
  <2>2. buffer' \in Batches \cup {<<>>}
    BY <1>3, Known DEF StartRepair
  <2>3. TypeOK' /\ (outcome' # "none" => replay' = "over") /\ (outcome' = outcome \/ outcome = "none")
    BY <1>3, Known DEF StartRepair, Thrown, TypeOK, google, shown, ghost
  <2>4. UNCHANGED <<plan, loop, doc, cursor, charsWritten, preview, lost>>
    BY <1>3 DEF StartRepair, google, shown
  <2> QED
    BY <2>1, <2>2, <2>3, <2>4, Quiet DEF JobInv, Orderly
<1>4. CASE SleepAborted \/ Join
  <2>1. Queued(plan, chain', replay', loop, cursor)
    BY <1>4, Known, QueueKeeps DEF SleepAborted, Join, Waiting, writer
  <2>2. buffer' \in Batches \cup {<<>>}
    BY <1>4, Known DEF SleepAborted, Join
  <2>3. TypeOK' /\ (outcome' # "none" => replay' = "over") /\ (outcome' = outcome \/ outcome = "none")
    BY <1>4, Known DEF SleepAborted, Join, Thrown, TypeOK, google, shown, ghost, writer
  <2>4. UNCHANGED <<plan, loop, doc, cursor, charsWritten, preview, lost>>
    BY <1>4 DEF SleepAborted, Join, google, shown, writer
  <2> QED
    BY <2>1, <2>2, <2>3, <2>4, Quiet DEF JobInv, Orderly
<1> QED
  BY <1>1, <1>2, <1>3, <1>4

\* runner.ts:303-322 and 409-422: the flush loop, the failure, the cancellation and its last words
LEMMA LoopStep ==
  ASSUME JobInv, LoopWakes \/ LoopAborted \/ RecordFailure \/ Cancel \/ FinalFlush \/ TidyUp
  PROVE  JobInv'
<1>1. CASE LoopWakes
  <2>1. Queued(plan, chain', replay, loop', cursor)
    <3>1. CASE chain' = chain
      BY <1>1, <3>1, Known, QueueKeeps DEF LoopWakes
    <3>2. CASE Drain("loop") /\ loop' = "flush" /\ buffer # <<>>
      BY <1>1, <3>2, Drained DEF LoopWakes, Drain
    <3> QED
      BY <1>1, <3>1, <3>2 DEF LoopWakes
  <2>2. buffer' \in Batches \cup {<<>>}
    BY <1>1, Known DEF LoopWakes, Drain
  <2>3. TypeOK' /\ (outcome' # "none" => replay' = "over") /\ outcome' = outcome
    BY <1>1, Known DEF LoopWakes, TypeOK, google, shown, ghost
  <2>4. UNCHANGED <<plan, replay, doc, cursor, charsWritten, preview, lost>>
    BY <1>1 DEF LoopWakes, google, shown
  <2> QED
    BY <2>1, <2>2, <2>3, <2>4, Quiet DEF JobInv, Orderly
<1>2. CASE LoopAborted \/ RecordFailure \/ Cancel
  <2>1. Queued(plan, chain', replay', loop', cursor)
    BY <1>2, Known, QueueKeeps DEF LoopAborted, RecordFailure, Cancel, writer
  <2>2. buffer' \in Batches \cup {<<>>}
    BY <1>2, Known DEF LoopAborted, RecordFailure, Cancel
  <2>3. TypeOK' /\ (outcome' # "none" => replay' = "over") /\ outcome' = outcome
    <3>1. CASE LoopAborted
      BY <1>2, <3>1, Known DEF LoopAborted, TypeOK, google, shown, ghost, writer
    <3>2. CASE RecordFailure
      BY <1>2, <3>2, Known DEF RecordFailure, TypeOK, google, shown, ghost, writer
    <3>3. CASE Cancel
      BY <1>2, <3>3, Known DEF Cancel, TypeOK, google, shown, ghost, writer
    <3> QED
      BY <1>2, <3>1, <3>2, <3>3
  <2>4. UNCHANGED <<plan, doc, cursor, charsWritten, preview, lost>>
    BY <1>2 DEF LoopAborted, RecordFailure, Cancel, google, shown, writer
  <2> QED
    BY <2>1, <2>2, <2>3, <2>4, Quiet DEF JobInv, Orderly
<1>3. CASE FinalFlush
  <2>1. Queued(plan, chain', replay', loop, cursor)
    <3>1. CASE chain' = chain
      BY <1>3, <3>1, Known, QueueKeeps DEF FinalFlush, Waiting
    <3>2. CASE Drain("final") /\ replay' = "final" /\ buffer # <<>>
      BY <1>3, <3>2, Drained DEF FinalFlush, Drain, Waiting
    <3> QED
      BY <1>3, <3>1, <3>2 DEF FinalFlush
  <2>2. buffer' \in Batches \cup {<<>>}
    BY <1>3, Known DEF FinalFlush, Drain
  <2>3. TypeOK' /\ (outcome' # "none" => replay' = "over") /\ outcome' = outcome
    BY <1>3, Known DEF FinalFlush, TypeOK, google, shown, ghost
  <2>4. UNCHANGED <<plan, loop, doc, cursor, charsWritten, preview, lost>>
    BY <1>3 DEF FinalFlush, google, shown
  <2> QED
    BY <2>1, <2>2, <2>3, <2>4, Quiet DEF JobInv, Orderly
<1>4. CASE TidyUp
  <2>1. Queued(plan, chain', replay', loop, cursor)
    <3>1. CASE chain' = chain
      BY <1>4, <3>1, Known, QueueKeeps DEF TidyUp, Waiting
    <3>2. CASE /\ Outstanding # {} /\ InJobsRange(Min(Outstanding))
               /\ chain' = Append(chain, Repair("tidy", Min(Outstanding))) /\ replay' = "tidying"
      <4>1. Outstanding \subseteq RepairsOf(plan) /\ Outstanding \subseteq Nat
        BY Known DEF Outstanding, RepairsOf
      <4>2. Min(Outstanding) \in RepairsOf(plan)
        BY <3>2, <4>1, LeastIs
      <4> QED
        BY <1>4, <3>2, <4>2, RepairQueued DEF TidyUp, Waiting
    <3> QED
      BY <1>4, <3>1, <3>2 DEF TidyUp
  <2>2. buffer' \in Batches \cup {<<>>}
    BY <1>4, Known DEF TidyUp
  <2>3. TypeOK' /\ (outcome' # "none" => replay' = "over") /\ (outcome' = outcome \/ outcome = "none")
    <3>1. twice' \in BOOLEAN
      BY <1>4, Known DEF TidyUp, TypeOK
    <3> QED
      BY <1>4, <3>1, Known DEF TidyUp, TypeOK, google, shown
  <2>4. UNCHANGED <<plan, loop, doc, cursor, charsWritten, preview, lost>>
    BY <1>4 DEF TidyUp, google, shown
  <2> QED
    BY <2>1, <2>2, <2>3, <2>4, Quiet DEF JobInv, Orderly
<1> QED
  BY <1>1, <1>2, <1>3, <1>4

-----------------------------------------------------------------------------
\* A call that is given up leaves the writer with the next one.
LEMMA FailStep ==
  ASSUME JobInv, chain # <<>>, Fail, faults' \in 0..MaxFaults, lost' \in 0..MaxLost
  PROVE  Orderly' /\ (outcome' = outcome \/ outcome = "none")
<1>1. /\ task \in Calls(plan) /\ Waited(task, replay, loop)
      /\ task.by \in {"replay", "loop", "final", "tidy"}
  BY HeadIs
<1>2. TypeOK /\ Queued(plan, chain, replay, loop, cursor) /\ buffer \in Batches \cup {<<>>}
      /\ (outcome # "none" => replay = "over") /\ plan \in Plans /\ cursor \in Nat /\ Floor \in Nat
      /\ plan \in Seq(HumanEvent) /\ Len(plan) \in Nat
  BY Known, PlanIs
<1>3. chain' = Tail(chain) /\ phase' = "permit" /\ attempt' = 0 /\ Throws
      /\ UNCHANGED <<plan, planIndex, buffer, aborted, failure, cursor, charsWritten, preview, fixed, twice>>
  BY DEF Fail, NextCall, shown
<1>4. IF task.by = "loop" THEN replay' = replay ELSE loop' = loop
  BY <1>1, <1>3 DEF Throws, Thrown
<1>5. Queued(plan, chain', replay', loop', cursor)
  <2>1. task = Head(chain) /\ cursor \in Int /\ cursor >= cursor
    BY <1>2 DEF task
  <2> QED
    BY <1>2, <1>3, <1>4, <2>1, QueueShrinks
<1>6. (outcome' # "none" => replay' = "over") /\ (outcome' = outcome \/ outcome = "none")
  BY <1>1, <1>2, <1>3 DEF Throws, Thrown, Waited
<1>7. TypeOK'
  <2>1. missing' \in {"no", "lost", "hole"}
    BY <1>2 DEF Fail, TypeOK
  <2>2. replay' \in {"next", "flush", "sleep", "repair", "join", "cancelled", "final", "tidy",
                     "tidying", "over"}
        /\ loop' \in {"sleep", "flush", "threw", "ended"}
        /\ outcome' \in {"none", "done", "failed", "cancelled"}
    BY <1>2, <1>3 DEF Throws, Thrown, TypeOK
  <2>3. 0 \in 0..MaxRetries
    BY TypingAssumption
  <2> QED
    BY <1>2, <1>3, <2>1, <2>2, <2>3 DEF TypeOK
<1> QED
  BY <1>2, <1>3, <1>5, <1>6, <1>7 DEF Orderly

\* backoff.ts: a call that is tried again keeps its place in the chain.
LEMMA RetryStep ==
  ASSUME JobInv, chain # <<>>, Retry, faults' \in 0..MaxFaults, lost' \in 0..MaxLost
  PROVE  /\ Orderly' /\ (outcome' = outcome \/ outcome = "none")
         /\ UNCHANGED <<plan, cursor, charsWritten, preview>>
<1>1. CASE Fail
  BY <1>1, FailStep DEF Fail, shown
<1>2. CASE ~Fail
  <2>1. /\ ~(attempt >= MaxRetries) /\ phase' = "backoff" /\ attempt' = attempt + 1
        /\ UNCHANGED <<plan, runner, chain, cursor, shown, ghost>>
    BY <1>2 DEF Retry
  <2>2. attempt \in 0..MaxRetries /\ MaxRetries \in Nat
    BY Known, TypingAssumption DEF TypeOK
  <2>3. attempt' \in 0..MaxRetries
    BY <2>1, <2>2
  <2>4. TypeOK'
    BY <2>1, <2>3, Known DEF TypeOK, runner, shown, ghost
  <2> QED
    BY <2>1, <2>4, Known DEF Orderly, runner, shown
<1> QED
  BY <1>1, <1>2

\* Permits, refusals and aborts of the call being made
LEMMA CallStep ==
  ASSUME JobInv, GetPermit \/ TryAgain \/ OutOfRange \/ CallAborted \/ Refused \/ Denied
  PROVE  JobInv'
<1>1. CASE GetPermit \/ TryAgain
  <2>1. UNCHANGED <<plan, runner, chain, attempt, cursor, google, shown, ghost>> /\ phase' = "call"
    BY <1>1 DEF GetPermit, TryAgain
  <2>2. TypeOK'
    BY <2>1, Known DEF TypeOK, runner, google, shown, ghost
  <2>3. Orderly' /\ UNCHANGED <<doc, cursor, charsWritten, preview, lost>> /\ outcome' = outcome
    BY <2>1, <2>2, Known DEF Orderly, runner, google, shown
  <2> QED
    BY <2>3, Quiet DEF JobInv
<1>2. CASE OutOfRange \/ CallAborted
  <2>1. chain # <<>> /\ Fail /\ UNCHANGED google
    BY <1>2 DEF OutOfRange, CallAborted, Calling
  <2>2. faults' \in 0..MaxFaults /\ lost' \in 0..MaxLost
    BY <2>1, Known DEF google, TypeOK
  <2>3. Orderly' /\ (outcome' = outcome \/ outcome = "none")
    BY <2>1, <2>2, FailStep
  <2>4. UNCHANGED <<doc, cursor, charsWritten, preview, lost>>
    BY <2>1 DEF google, Fail, shown
  <2> QED
    BY <2>3, <2>4, Quiet DEF JobInv
<1>3. CASE Denied
  <2>1. chain # <<>> /\ Fail /\ UNCHANGED <<doc, lost>> /\ faults < MaxFaults /\ faults' = faults + 1
    BY <1>3 DEF Denied, Calling
  <2>2. faults' \in 0..MaxFaults /\ lost' \in 0..MaxLost
    BY <2>1, Known, TypingAssumption DEF TypeOK
  <2>3. Orderly' /\ (outcome' = outcome \/ outcome = "none")
    BY <2>1, <2>2, FailStep
  <2>4. UNCHANGED <<doc, cursor, charsWritten, preview, lost>>
    BY <2>1 DEF Fail, shown
  <2> QED
    BY <2>3, <2>4, Quiet DEF JobInv
<1>4. CASE Refused
  <2>1. chain # <<>> /\ Retry /\ UNCHANGED <<doc, lost>> /\ faults < MaxFaults /\ faults' = faults + 1
    BY <1>4 DEF Refused, Calling
  <2>2. faults' \in 0..MaxFaults /\ lost' \in 0..MaxLost
    BY <2>1, Known, TypingAssumption DEF TypeOK
  <2>3. Orderly' /\ (outcome' = outcome \/ outcome = "none") /\ UNCHANGED <<cursor, charsWritten, preview>>
    BY <2>1, <2>2, RetryStep
  <2> QED
    BY <2>1, <2>3, Quiet DEF JobInv
<1> QED
  BY <1>1, <1>2, <1>3, <1>4

\* The page a call leaves
LEMMA PageAfter ==
  ASSUME JobInv, chain # <<>>, Accepted, doc' = ApplyRequests(doc, Requests(task))
  PROVE  Page' = NewPage /\ doc' = Before \o NewPage /\ NewPage \in Seq(Characters)
         /\ Len(doc') = Floor + Len(NewPage) /\ Floor \in Nat /\ Len(NewPage) \in Nat
<1>1. doc' = Before \o NewPage /\ NewPage \in Seq(Characters)
  BY Applied
<1>2. SubSeq(Before \o NewPage, Floor + 1, Len(Before \o NewPage)) = NewPage
      /\ Len(Before \o NewPage) = Floor + Len(NewPage) /\ Floor \in Nat /\ Len(NewPage) \in Nat
  BY <1>1, BeforeAssumption, PageIs
<1>3. Page' = SubSeq(doc', Floor + 1, Len(doc'))
  BY DEF Page
<1> QED
  BY <1>1, <1>2, <1>3

\* backoff.ts: a batch applied without its answer arriving
LEMMA AnswerLostStep == ASSUME JobInv, AnswerLost PROVE JobInv'
<1>1. chain # <<>> /\ Accepted /\ lost < MaxLost /\ lost' = lost + 1 /\ Retry /\ faults' = faults
      /\ doc' = ApplyRequests(doc, Requests(task))
  BY DEF AnswerLost, Calling
<1>2. faults' \in 0..MaxFaults /\ lost' \in 0..MaxLost /\ lost' # 0
  BY <1>1, Known, TypingAssumption DEF TypeOK
<1>3. Orderly' /\ UNCHANGED <<cursor, charsWritten>>
  BY <1>1, <1>2, RetryStep
<1>4. Page' \in Seq(Characters) /\ doc' = Before \o Page'
  BY <1>1, PageAfter
<1>5. Believed'
  BY <1>2, <1>3, <1>4 DEF JobInv, Believed
<1> QED
  BY <1>3, <1>5 DEF JobInv

\* An answer takes the call out of the chain and lets whoever made it go on.
LEMMA AnsweredOrder == ASSUME JobInv, Answered PROVE Orderly'
<1>1. /\ chain # <<>> /\ Accepted /\ Succeed /\ UNCHANGED <<faults, lost>>
      /\ fixed' = (IF task.kind = "repair" THEN fixed \cup {task.index} ELSE fixed)
      /\ missing' = (IF task.kind = "flush" /\ missing = "lost" THEN "hole" ELSE missing)
  BY DEF Answered, Calling
<1>2. /\ task \in Calls(plan) /\ Waited(task, replay, loop)
      /\ task.kind \in {"flush", "repair"} /\ task.by \in {"replay", "loop", "final", "tidy"}
      /\ (task.kind = "repair" => task.index \in RepairsOf(plan))
  BY <1>1, HeadIs
<1>3. TypeOK /\ Queued(plan, chain, replay, loop, cursor) /\ buffer \in Batches \cup {<<>>}
      /\ (outcome # "none" => replay = "over") /\ plan \in Plans /\ cursor \in Nat /\ Floor \in Nat
      /\ plan \in Seq(HumanEvent) /\ Len(plan) \in Nat /\ planIndex \in 1..Len(plan)
  BY Known, PlanIs
<1>4. chain' = Tail(chain) /\ phase' = "permit" /\ attempt' = 0 /\ Returns
      /\ cursor' = NextCursor(task) /\ charsWritten' = NextCursor(task) - Floor
      /\ UNCHANGED <<plan, buffer, aborted, failure, twice>>
  BY <1>1 DEF Succeed, NextCall
<1>5. NextCursor(task) \in Nat /\ Floor <= NextCursor(task) /\ (task.kind = "flush" => NextCursor(task) >= cursor)
  BY <1>1, Applied
<1>6. IF task.by = "loop" THEN replay' = replay ELSE loop' = loop
  BY <1>2, <1>4 DEF Returns, Advance
<1>7. Queued(plan, chain', replay', loop', cursor')
  <2>1. task = Head(chain) /\ cursor \in Int /\ NextCursor(task) \in Int
        /\ (NextCursor(task) >= cursor \/ Head(chain).kind = "repair")
    BY <1>2, <1>3, <1>5 DEF task
  <2> HIDE DEF task
  <2>2. Queued(plan, Tail(chain), replay', loop', NextCursor(task))
    BY <1>1, <1>3, <1>6, <2>1, QueueShrinks
  <2> QED
    BY <1>4, <2>2
<1>8. outcome' # "none" => replay' = "over"
  BY <1>2, <1>3, <1>4 DEF Returns, Waited
<1>9. TypeOK'
  <2>1. planIndex' \in 1..Len(plan)
    BY <1>3, <1>4 DEF Returns, Advance
  <2>2. replay' \in {"next", "flush", "sleep", "repair", "join", "cancelled", "final", "tidy",
                     "tidying", "over"}
        /\ loop' \in {"sleep", "flush", "threw", "ended"}
        /\ outcome' \in {"none", "done", "failed", "cancelled"}
    BY <1>3, <1>4 DEF Returns, Advance, LoopTop, TypeOK
  <2>3. 0 \in 0..MaxRetries
    BY TypingAssumption
  <2>4. missing' \in {"no", "lost", "hole"}
    BY <1>1, <1>3 DEF TypeOK
  <2>5. fixed' \subseteq 1..Len(plan)
    BY <1>1, <1>2, <1>3 DEF TypeOK, RepairsOf
  <2>6. cursor' \in Nat /\ charsWritten' \in Nat
    BY <1>3, <1>4, <1>5
  <2> QED
    BY <1>1, <1>3, <1>4, <2>1, <2>2, <2>3, <2>4, <2>5, <2>6 DEF TypeOK
<1> QED
  BY <1>3, <1>4, <1>7, <1>8, <1>9 DEF Orderly

\* After an answer the cursor is the end of what Google has, and the preview shows it.
LEMMA AnsweredBelief == ASSUME JobInv, Answered PROVE Believed'
<1>1. /\ chain # <<>> /\ Accepted /\ Succeed /\ lost' = lost /\ doc' = ApplyRequests(doc, Requests(task))
  BY DEF Answered, Calling
<1>2. /\ task.kind \in {"flush", "repair"} /\ task.by \in {"replay", "loop", "final", "tidy"}
      /\ (task.kind = "flush" => TaskText \in Seq(Characters) /\ task.ops = <<InsertOp(TaskText)>>)
      /\ (task.kind = "repair" => task.by \in {"replay", "tidy"}) /\ Waited(task, replay, loop)
  BY <1>1, HeadIs
<1>3. NextCursor(task) \in Nat /\ Floor <= NextCursor(task) /\ (lost = 0 => NextCursor(task) = Floor + Len(NewPage))
      /\ (lost = 0 /\ task.kind = "flush" => NewPage = Page \o TaskText)
  BY <1>1, Applied
<1>4. Page' = NewPage /\ doc' = Before \o NewPage /\ NewPage \in Seq(Characters) /\ Len(doc') = Floor + Len(NewPage)
  BY <1>1, PageAfter
<1>5. cursor' = NextCursor(task) /\ charsWritten' = NextCursor(task) - Floor /\ preview' = Shown /\ Returns
  BY <1>1 DEF Succeed
<1>6. ASSUME lost = 0, outcome' # "cancelled" PROVE preview' = NewPage
  <2>1. task.by # "tidy" /\ outcome # "cancelled"
    <3>1. outcome = "cancelled" => replay = "over"
      BY Known
    <3> QED
      BY <1>2, <1>5, <1>6, <3>1 DEF Returns, Waited
  <2>2. preview = Page
    BY <1>6, <2>1 DEF JobInv, Believed
  <2>3. CASE task.kind = "flush"
    <3>0. Shown = ApplyOps(preview, task.ops)
      BY <2>3 DEF Shown
    <3>1. preview' = ApplyOps(preview, task.ops)
      BY <1>5, <3>0
    <3>2. preview' = ApplyOp(preview, InsertOp(TaskText))
      BY <1>2, <2>3, <3>1, OneByOne
    <3>3. preview' = preview \o TaskText
      BY <3>2 DEF ApplyOp, InsertOp
    <3> QED
      BY <1>3, <1>6, <2>2, <2>3, <3>3
  <2>4. CASE task.kind # "flush"
    <3>1. task.by = "replay"
      BY <1>2, <2>1, <2>4
    <3>2. preview' = Abs!Repaired(preview, plan[task.index])
      BY <1>2, <1>5, <2>4, <3>1 DEF Shown
    <3> QED
      BY <2>2, <2>4, <3>2 DEF NewPage
  <2> QED
    BY <2>3, <2>4
<1> QED
  BY <1>1, <1>3, <1>4, <1>5, <1>6 DEF Believed

\* runner.ts and documents.ts: the chain makes one call at a time for each of the two who wait,
\* every repair in it aims at text that is there, and what the job believes of the
\* document is so.
THEOREM JobInvariant == Spec => []JobInv
<1>1. Init => JobInv
  BY JobInit
<1>2. JobInv /\ [Next]_vars => JobInv'
  <2> SUFFICES ASSUME JobInv, [Next]_vars PROVE JobInv'
    OBVIOUS
  <2>1. CASE TakeEvent \/ Type \/ RestOver \/ StartRepair \/ SleepAborted \/ Join
    BY <2>1, ReplayStep
  <2>2. CASE LoopWakes \/ LoopAborted \/ RecordFailure \/ Cancel \/ FinalFlush \/ TidyUp
    BY <2>2, LoopStep
  <2>3. CASE GetPermit \/ TryAgain \/ OutOfRange \/ CallAborted \/ Refused \/ Denied
    BY <2>3, CallStep
  <2>4. CASE Answered
    BY <2>4, AnsweredOrder, AnsweredBelief DEF JobInv
  <2>5. CASE AnswerLost
    BY <2>5, AnswerLostStep
  <2>6. CASE UNCHANGED vars
    <3>1. UNCHANGED <<plan, runner, writer, google, shown, ghost>>
      BY <2>6 DEF vars
    <3>2. TypeOK'
      BY <3>1, Known DEF TypeOK, runner, writer, google, shown, ghost
    <3>3. Orderly' /\ UNCHANGED <<doc, cursor, charsWritten, preview, lost>> /\ outcome' = outcome
      BY <3>1, <3>2, Known DEF Orderly, runner, writer, google, shown, ghost
    <3> QED
      BY <3>3, Quiet DEF JobInv
  <2> QED
    BY <2>1, <2>2, <2>3, <2>4, <2>5, <2>6 DEF Next, Running
<1> QED
  BY <1>1, <1>2, PTL DEF Spec

\* documents.ts:174-178: whatever is aborted, refused, lost, retried or overtaken by a repair, what
\* was in the document before the job stays; unless an answer was lost the cursor is
\* the document's end and the preview shows the page, up to a cancel's last correction.
THEOREM DocumentIsAsBelieved == Spec => []DocumentAsBelieved
<1>1. JobInv => DocumentAsBelieved
  <2> SUFFICES ASSUME JobInv PROVE DocumentAsBelieved
    OBVIOUS
  <2>1. Page \in Seq(Characters) /\ doc = Before \o Page /\ (lost = 0 => cursor = Len(doc))
        /\ (lost = 0 /\ outcome # "cancelled" => preview = Page)
    BY DEF JobInv, Believed
  <2>2. SubSeq(doc, 1, Floor) = Before
    BY <2>1, BeforeAssumption, PageIs
  <2> QED
    BY <2>1, <2>2 DEF DocumentAsBelieved, BeforeKept, CursorIsEnd, PreviewFollows
<1> QED
  BY <1>1, JobInvariant, PTL

-----------------------------------------------------------------------------
\* ---- What is on its way to the page

\* What the page reads after the first n events of the plan
DraftAt(n) == Abs!Draft(plan, n)

Written(text, e) == Abs!Written(text, e)
Drafter == INSTANCE FoldSteps WITH Op <- Written

NoRepair(m, n) == \A i \in (m + 1)..n : plan[i].kind # "repair"

\* From its m-th to its n-th event the plan types text, and repairs nothing.
Grows(m, n, text) == m <= n /\ NoRepair(m, n) /\ DraftAt(n) = DraftAt(m) \o text

\* The events of a plan are written one after the other.
LEMMA DraftStep ==
  ASSUME plan \in Plans
  PROVE  /\ DraftAt(0) = <<>>
         /\ \A n \in 1..Len(plan) : DraftAt(n) = Abs!Written(DraftAt(n - 1), plan[n])
<1>1. plan \in Seq(HumanEvent) /\ Len(plan) \in Nat
  BY PlanIs
<1>2. \A n : DraftAt(n) = Drafter!Fold(<<>>, SubSeq(plan, 1, n))
  BY DEF DraftAt, Abs!Draft, Abs!FoldLeft, Abs!MapThenFoldSet, Abs!Max, Abs!Written, Abs!Repaired,
         Drafter!Fold, Drafter!FoldLeft, Drafter!MapThenFoldSet, Drafter!Max, Written
<1>3. DraftAt(0) = <<>>
  <2>1. SubSeq(plan, 1, 0) = <<>>
    BY <1>1
  <2> QED
    BY <1>2, <2>1, Drafter!FoldEmpty
<1>4. ASSUME NEW n \in 1..Len(plan) PROVE DraftAt(n) = Abs!Written(DraftAt(n - 1), plan[n])
  <2> DEFINE s == SubSeq(plan, 1, n - 1)
             a == SubSeq(plan, 1, n)
  <2>1. n - 1 \in 0..Len(plan) /\ n \in 0..Len(plan)
    BY <1>1
  <2>2. s \in Seq(HumanEvent) /\ Len(s) = n - 1 /\ \A i \in 1..(n - 1) : s[i] = plan[i]
    BY <1>1, <2>1, PrefixIs
  <2>3. a \in Seq(HumanEvent) /\ Len(a) = n /\ \A i \in 1..n : a[i] = plan[i]
    BY <1>1, <2>1, PrefixIs
  <2> HIDE DEF s, a
  <2>4. a = Append(s, plan[n])
    <3> DEFINE b == Append(s, plan[n])
    <3>1. plan[n] \in HumanEvent
      BY <1>1
    <3>2. b \in Seq(HumanEvent) /\ Len(b) = n /\ \A i \in 1..n : b[i] = IF i = n THEN plan[n] ELSE s[i]
      BY <2>1, <2>2, <3>1
    <3> HIDE DEF b
    <3>3. \A i \in 1..n : i # n => i \in 1..(n - 1)
      BY <2>1
    <3>4. \A i \in 1..n : a[i] = b[i]
      BY <2>2, <2>3, <3>2, <3>3
    <3>5. a = b
      BY <2>3, <3>2, <3>4, SeqEqual
    <3> QED
      BY <3>5 DEF b
  <2>5. Drafter!Fold(<<>>, Append(s, plan[n])) = Written(Drafter!Fold(<<>>, s), plan[n])
    BY <2>2, Drafter!FoldAppend
  <2> QED
    BY <1>2, <2>4, <2>5 DEF s, a, Written
<1> QED
  BY <1>3, <1>4

\* humanize.ts: each event adds a character, splices the page or leaves it.
LEMMA DraftsAre ==
  ASSUME plan \in Plans
  PROVE  /\ DraftAt(0) = <<>> /\ \A n \in 0..Len(plan) : DraftAt(n) \in Seq(Characters)
         /\ \A n \in 1..Len(plan) :
              /\ plan[n].kind = "type" => DraftAt(n) = DraftAt(n - 1) \o <<plan[n].char>>
              /\ plan[n].kind = "rest" => DraftAt(n) = DraftAt(n - 1)
              /\ plan[n].kind = "repair" => /\ DraftAt(n) = Abs!Repaired(DraftAt(n - 1), plan[n])
                                            /\ AimedAt(plan, n) <= Len(DraftAt(n - 1))
<1>1. plan \in Seq(HumanEvent) /\ Len(plan) \in Nat
  BY PlanIs
<1>2. DraftAt(0) = <<>> /\ \A n \in 1..Len(plan) : DraftAt(n) = Abs!Written(DraftAt(n - 1), plan[n])
  BY DraftStep
<1>3. \A n \in 1..Len(plan) : plan[n].kind = "repair" => AimedAt(plan, n) <= Len(DraftAt(n - 1))
  BY MistakesAssumption DEF Abs!OneOutstanding, AimedAt, DraftAt
<1>4. ASSUME NEW n \in 1..Len(plan), DraftAt(n - 1) \in Seq(Characters)
      PROVE  /\ DraftAt(n) \in Seq(Characters)
             /\ plan[n].kind = "type" => DraftAt(n) = DraftAt(n - 1) \o <<plan[n].char>>
             /\ plan[n].kind = "rest" => DraftAt(n) = DraftAt(n - 1)
             /\ plan[n].kind = "repair" => DraftAt(n) = Abs!Repaired(DraftAt(n - 1), plan[n])
  <2> DEFINE e == plan[n]
             s == DraftAt(n - 1)
             d == DraftAt(n)
  <2>1. e \in HumanEvent /\ s \in Seq(Characters) /\ d = Abs!Written(s, e)
    BY <1>1, <1>2, <1>4
  <2>2. e.kind = "repair" => n \in RepairsOf(plan)
    BY DEF RepairsOf
  <2>3. ASSUME e.kind = "repair"
        PROVE  /\ e.offset \in 0..Len(s) /\ e.offset + e.remove \in e.offset..Len(s)
               /\ e.insert \in Seq(Characters)
    <3>1. e.offset \in Nat /\ e.remove \in Nat \ {0} /\ e.insert \in Seq(Characters)
      BY <2>2, <2>3, RepairIs
    <3>2. e.offset + e.remove <= Len(s)
      BY <1>3, <2>3 DEF AimedAt
    <3>3. Len(s) \in Nat
      BY <2>1
    <3> HIDE DEF e, s
    <3> QED
      BY <3>1, <3>2, <3>3
  <2> HIDE DEF e, s, d
  <2>4. CASE e.kind = "type"
    <3>1. e.char \in Characters
      BY <2>1, <2>4 DEF HumanEvent
    <3>2. d = Append(s, e.char)
      BY <2>1, <2>4 DEF Abs!Written
    <3> QED
      <4>1. s \in Seq(Characters) /\ d \in Seq(Characters)
        BY <2>1, <3>1, <3>2
      <4>2. d = s \o <<e.char>>
        BY <3>1, <3>2, <4>1, AppendIsConcat
      <4> QED
        BY <2>4, <3>1, <4>1, <4>2 DEF e, s, d
  <2>5. CASE e.kind = "repair"
    <3>1. d = Abs!Repaired(s, e)
      BY <2>1, <2>5 DEF Abs!Written
    <3>2. d = Spliced(s, e.offset, e.offset + e.remove, e.insert)
      BY <3>1 DEF Abs!Repaired, Spliced
    <3>3. d \in Seq(Characters)
      BY <2>1, <2>3, <2>5, <3>2, SplicedLen
    <3> QED
      BY <2>5, <3>1, <3>3 DEF e, s, d
  <2>6. CASE e.kind = "rest"
    <3>1. d = s
      BY <2>1, <2>6 DEF Abs!Written
    <3> QED
      BY <2>1, <2>6, <3>1 DEF e, s, d
  <2>7. e.kind \in {"type", "rest", "repair"}
    BY <2>1 DEF HumanEvent
  <2> QED
    BY <2>4, <2>5, <2>6, <2>7 DEF e, s, d
<1>5. \A n \in 0..Len(plan) : DraftAt(n) \in Seq(Characters)
  <2> DEFINE S == {n \in Nat : n <= Len(plan) => DraftAt(n) \in Seq(Characters)}
  <2>1. 0 \in S
    <3>1. <<>> \in Seq(Characters)
      OBVIOUS
    <3> QED
      BY <1>2, <3>1
  <2>2. ASSUME NEW n \in Nat, n \in S PROVE n + 1 \in S
    <3> SUFFICES ASSUME n + 1 <= Len(plan) PROVE DraftAt(n + 1) \in Seq(Characters)
      OBVIOUS
    <3>1. n + 1 \in 1..Len(plan) /\ (n + 1) - 1 = n /\ n <= Len(plan)
      BY <1>1
    <3>2. DraftAt((n + 1) - 1) \in Seq(Characters)
      BY <2>2, <3>1
    <3> HIDE DEF S
    <3> QED
      BY <1>4, <3>1, <3>2
  <2>3. Nat \subseteq S
    <3> HIDE DEF S
    <3> QED
      BY <2>1, <2>2, Drafter!Induction
  <2>4. \A n \in 0..Len(plan) : n \in Nat /\ n <= Len(plan)
    BY <1>1
  <2> QED
    BY <2>3, <2>4
<1>6. \A n \in 1..Len(plan) : n - 1 \in 0..Len(plan)
  BY <1>1
<1> QED
  BY <1>2, <1>3, <1>4, <1>5, <1>6

-----------------------------------------------------------------------------
\* The flush loop's call is always the first of the chain; behind it, or alone, may stand one of
\* the replay loop, or of the rest of the job.
ByLoop == chain # <<>> /\ Head(chain).by = "loop"
LoopText == IF ByLoop THEN TaskText ELSE <<>>
Own == IF ByLoop THEN Tail(chain) ELSE chain
Held == IF buffer = <<>> THEN <<>> ELSE buffer[1].text

InTurn == \A i \in 1..Len(chain) : chain[i].by = "loop" => i = 1

\* After the call of its own the job stands at draft c, if the page was at draft b before.
OwnCall(b, c) ==
  IF Own = <<>> THEN c = b
  ELSE LET t == Head(Own) IN
       \/ t.kind = "flush" /\ Grows(b, c, t.ops[1].text)
       \/ /\ t.kind = "repair" /\ t.by = "replay" /\ t.index = planIndex /\ c = planIndex
          /\ Grows(b, planIndex - 1, <<>>)
       \/ /\ t.kind = "repair" /\ t.by = "tidy" /\ c = b
          /\ planIndex <= t.index /\ b < t.index /\ NoRepair(b, t.index - 1)

Ending == {"cancelled", "final", "tidy", "tidying"}

\* The whole plan has been replayed, a repair at its end made.
Replayed(d) == d = planIndex /\ d = Len(plan) /\ (event.kind = "repair" => planIndex \in fixed)

\* The events whose text has been typed, written or not
TypedTo(d) ==
  /\ replay \in {"next", "sleep", "flush"} => d = planIndex - 1
  /\ replay = "repair" => d = planIndex
  /\ replay = "join" => Replayed(d)
  /\ replay \in Ending => d = planIndex - 1 \/ Replayed(d)

\* The page is draft a of the plan, and what is on its way to it makes it draft b, c and d.
Via(a, b, c, d) ==
  Page = DraftAt(a) /\ Grows(a, b, LoopText) /\ OwnCall(b, c) /\ Grows(c, d, Held) /\ TypedTo(d)

Coming == \E a, b, c, d \in 0..Len(plan) : Via(a, b, c, d)

\* A cancel has made its correction.
Corrected == replay = "over" /\ chain = <<>> /\ aborted # "no"

\* Where nothing was lost, in whatever sense, every character is on its way, in order.
OnTheWay == (lost = 0 /\ ~twice /\ missing = "no") => (Coming \/ Corrected)

\* Who waits has nothing in the buffer, and what goes wrong is known to the job.
Settled ==
  /\ (replay \in Waiting \cup {"tidy"} \/ (replay = "sleep" /\ event.kind # "type")) => buffer = <<>>
  /\ replay \in Ending => aborted = "cancel"
  /\ missing # "no" => loop = "threw" \/ failure \/ replay \in Ending \cup {"over"}
  /\ (loop = "ended" /\ ~failure) => (replayFinished /\ buffer = <<>>)
  /\ twice => replay = "tidying" \/ outcome = "cancelled"

Finished ==
  outcome = "done" => /\ lost = 0 => Page = DraftAt(Len(plan))
                      /\ buffer = <<>> /\ chain = <<>> /\ loop = "ended" /\ replay = "over"

DoneInv == InTurn /\ Settled /\ Finished /\ OnTheWay

-----------------------------------------------------------------------------
\* Two stretches of the plan without a repair make one.
LEMMA GrowsOn ==
  ASSUME plan \in Plans, NEW a \in 0..Len(plan), NEW b \in 0..Len(plan), NEW c \in 0..Len(plan),
         NEW s \in Seq(Characters), NEW t \in Seq(Characters), Grows(a, b, s), Grows(b, c, t)
  PROVE  Grows(a, c, s \o t)
<1>1. Len(plan) \in Nat
  BY PlanIs
<1>2. a <= c /\ NoRepair(a, c)
  <2>1. \A i \in (a + 1)..c : i \in (a + 1)..b \/ i \in (b + 1)..c
    BY <1>1
  <2> QED
    BY <1>1, <2>1 DEF Grows, NoRepair
<1>3. DraftAt(c) = DraftAt(a) \o (s \o t)
  <2>1. DraftAt(b) = DraftAt(a) \o s /\ DraftAt(c) = DraftAt(b) \o t /\ DraftAt(a) \in Seq(Characters)
    BY DraftsAre DEF Grows
  <2> QED
    BY <2>1, ConcatAssociative
<1> QED
  BY <1>2, <1>3 DEF Grows

\* A stretch in which nothing is typed
LEMMA GrowsNot ==
  ASSUME plan \in Plans, NEW a \in 0..Len(plan)
  PROVE  Grows(a, a, <<>>)
<1>1. NoRepair(a, a) /\ a <= a
  BY PlanIs DEF NoRepair
<1>2. DraftAt(a) \in Seq(Characters)
  BY DraftsAre
<1>3. DraftAt(a) \o <<>> = DraftAt(a)
  BY <1>2, ConcatEmptySeq
<1> QED
  BY <1>1, <1>3 DEF Grows

\* A stretch in which nothing was typed ends at the page it began at.
LEMMA NothingTyped ==
  ASSUME plan \in Plans, NEW a \in 0..Len(plan), NEW b \in 0..Len(plan), Grows(a, b, <<>>)
  PROVE  DraftAt(b) = DraftAt(a)
<1>1. DraftAt(a) \in Seq(Characters)
  BY DraftsAre
<1> QED
  BY <1>1, ConcatEmptySeq DEF Grows

\* One more event typed
LEMMA GrowsByOne ==
  ASSUME plan \in Plans, NEW a \in 0..Len(plan), NEW n \in 1..Len(plan), NEW s \in Seq(Characters),
         Grows(a, n - 1, s), plan[n].kind # "repair"
  PROVE  /\ plan[n].kind = "type" => Grows(a, n, s \o <<plan[n].char>>)
         /\ plan[n].kind = "rest" => Grows(a, n, s)
<1>1. Len(plan) \in Nat /\ plan[n] \in HumanEvent /\ n - 1 \in 0..Len(plan) /\ n \in 0..Len(plan)
  BY PlanIs
<1>2. NoRepair(n - 1, n) /\ n - 1 <= n
  <2>1. \A i \in ((n - 1) + 1)..n : i = n
    BY <1>1
  <2> QED
    BY <1>1, <2>1 DEF NoRepair
<1>3. ASSUME plan[n].kind = "type" PROVE Grows(a, n, s \o <<plan[n].char>>)
  <2> DEFINE one == <<plan[n].char>>
  <2>1. one \in Seq(Characters)
    BY <1>1, <1>3 DEF HumanEvent
  <2>2. Grows(n - 1, n, one)
    BY <1>2, <1>3, DraftsAre DEF Grows
  <2> HIDE DEF one
  <2>3. Grows(a, n, s \o one)
    BY <1>1, <2>1, <2>2, GrowsOn
  <2> QED
    BY <2>3 DEF one
<1>4. ASSUME plan[n].kind = "rest" PROVE Grows(a, n, s)
  <2>1. DraftAt(n) = DraftAt(n - 1)
    BY <1>4, DraftsAre
  <2>2. NoRepair(a, n) /\ a <= n
    <3>1. \A i \in (a + 1)..n : i \in (a + 1)..(n - 1) \/ i = n
      BY <1>1
    <3>2. a <= n - 1
      BY DEF Grows
    <3> QED
      BY <1>1, <1>4, <3>1, <3>2 DEF Grows, NoRepair
  <2> QED
    BY <2>1, <2>2 DEF Grows
<1> QED
  BY <1>3, <1>4

-----------------------------------------------------------------------------
\* What stands in the chain
LEMMA LineIs ==
  ASSUME JobInv, InTurn
  PROVE  /\ Own \in Seq(Calls(plan)) /\ (Own # <<>> => Own = <<Head(Own)>>)
         /\ ByLoop => loop = "flush" /\ Own = Tail(chain) /\ task.kind = "flush"
         /\ Own # <<>> => /\ Head(Own) \in Calls(plan) /\ Head(Own).by # "loop" /\ Waited(Head(Own), replay, loop)
                          /\ replay \in Waiting
                          /\ Head(Own).kind = "repair" => Head(Own).index \in RepairsOf(plan)
                          /\ Head(Own).kind = "flush" => Head(Own).ops[1].text \in SomeText
         /\ LoopText \in Seq(Characters)
         /\ chain # <<>> /\ ~ByLoop => Own = <<task>>
<1>1. Queued(plan, chain, replay, loop, cursor) /\ chain \in Seq(Calls(plan)) /\ Len(chain) \in Nat
      /\ \A i \in 1..Len(chain) : chain[i] \in Calls(plan) /\ Waited(chain[i], replay, loop)
  BY Known DEF Queued
<1>2. \A i, j \in 1..Len(chain) : chain[i].by # "loop" /\ chain[j].by # "loop" => i = j
  BY <1>1 DEF Queued
<1>3. ASSUME chain # <<>> PROVE Head(chain) = chain[1] /\ 1 \in 1..Len(chain) /\ Len(chain) >= 1
  BY <1>1, <1>3
<1>4. /\ Own \in Seq(Calls(plan)) /\ (Own # <<>> => Len(Own) = 1)
      /\ \A i \in 1..Len(Own) : Own[i] \in Calls(plan) /\ Own[i].by # "loop" /\ Waited(Own[i], replay, loop)
  <2>1. CASE ByLoop
    <3>1. Own = Tail(chain) /\ chain # <<>>
      BY <2>1 DEF ByLoop, Own
    <3>2. Tail(chain) \in Seq(Calls(plan)) /\ Len(Tail(chain)) = Len(chain) - 1
          /\ \A i \in 1..(Len(chain) - 1) : Tail(chain)[i] = chain[i + 1]
      BY <1>1, <3>1
    <3>3. \A i \in 1..(Len(chain) - 1) : i + 1 \in 1..Len(chain) /\ i + 1 # 1
      BY <1>1
    <3>4. \A i \in 1..(Len(chain) - 1) : chain[i + 1].by # "loop"
      BY <3>3 DEF InTurn
    <3>5. Len(chain) - 1 <= 1
      <4> SUFFICES ASSUME Len(chain) > 2 PROVE FALSE
        BY <1>1
      <4>1. 1 \in 1..(Len(chain) - 1) /\ 2 \in 1..(Len(chain) - 1)
        BY <1>1
      <4>2. chain[1 + 1].by # "loop" /\ chain[2 + 1].by # "loop" /\ 1 + 1 \in 1..Len(chain) /\ 2 + 1 \in 1..Len(chain)
        BY <3>3, <3>4, <4>1
      <4>3. 1 + 1 = 2 + 1
        BY <1>2, <4>2
      <4> QED
        BY <4>3
    <3>6. Own # <<>> => Len(Own) = 1
      BY <1>1, <1>3, <3>1, <3>2, <3>5
    <3> QED
      BY <1>1, <3>1, <3>2, <3>3, <3>4, <3>6
  <2>2. CASE ~ByLoop
    <3>1. Own = chain
      BY <2>2 DEF Own
    <3>2. \A i \in 1..Len(chain) : chain[i].by # "loop"
      BY <1>3, <2>2 DEF InTurn, ByLoop
    <3>3. Len(chain) <= 1
      <4> SUFFICES ASSUME Len(chain) > 1 PROVE FALSE
        BY <1>1
      <4>1. 1 \in 1..Len(chain) /\ 2 \in 1..Len(chain)
        BY <1>1
      <4>2. 1 = 2
        BY <1>2, <3>2, <4>1
      <4> QED
        BY <4>2
    <3>4. ASSUME Own # <<>> PROVE Len(Own) = 1
      <4>1. chain # <<>> /\ Len(Own) = Len(chain)
        BY <3>1, <3>4
      <4>2. Len(chain) >= 1
        BY <1>3, <4>1
      <4> QED
        BY <1>1, <3>3, <4>1, <4>2
    <3> QED
      BY <1>1, <3>1, <3>2, <3>4
  <2> QED
    BY <2>1, <2>2
<1>5. ASSUME Own # <<>>
      PROVE  /\ Own = <<Head(Own)>> /\ Head(Own) \in Calls(plan) /\ Head(Own).by # "loop" /\ Waited(Head(Own), replay, loop)
             /\ replay \in Waiting
             /\ Head(Own).kind = "repair" => Head(Own).index \in RepairsOf(plan)
             /\ Head(Own).kind = "flush" => Head(Own).ops[1].text \in SomeText
  <2> DEFINE t == Head(Own)
             o == Own
  <2>1. o \in Seq(Calls(plan)) /\ Len(o) = 1 /\ o # <<>> /\ t = o[1]
    BY <1>4, <1>5
  <2>2. t \in Calls(plan) /\ t.by # "loop" /\ Waited(t, replay, loop)
    BY <1>4, <2>1
  <2>3. o = <<t>>
    <3> HIDE DEF o, t
    <3> QED
      BY <2>1
  <2>4. replay \in Waiting
    BY <2>2 DEF Calls, Waited, Waiting
  <2>5. t.kind = "repair" => t.index \in RepairsOf(plan)
    BY <2>2 DEF Calls
  <2>6. t.kind = "flush" => t.ops[1].text \in SomeText
    <3> SUFFICES ASSUME t.kind = "flush" PROVE t.ops[1].text \in SomeText
      OBVIOUS
    <3>1. t.ops \in Batches
      BY <2>2 DEF Calls
    <3>2. PICK text \in SomeText : t.ops = <<InsertOp(text)>>
      BY <3>1 DEF Batches
    <3> HIDE DEF t
    <3> QED
      BY <3>2 DEF InsertOp
  <2> QED
    BY <2>2, <2>3, <2>4, <2>5, <2>6
<1>6. ByLoop => loop = "flush" /\ Own = Tail(chain) /\ task.kind = "flush"
  BY HeadIs DEF ByLoop, Own, task, Waited
<1>7. LoopText \in Seq(Characters)
  <2>1. <<>> \in Seq(Characters)
    OBVIOUS
  <2>2. ByLoop => TaskText \in Seq(Characters)
    BY <1>6, HeadIs DEF ByLoop
  <2> QED
    BY <2>1, <2>2 DEF LoopText
<1>8. chain # <<>> /\ ~ByLoop => Own = <<task>>
  BY <1>5 DEF Own, task
<1> QED
  BY <1>4, <1>5, <1>6, <1>7, <1>8

\* A call that is not of the flush loop's is made on its own.
LEMMA HeadIsOwn ==
  ASSUME JobInv, InTurn, chain # <<>>, ~ByLoop
  PROVE  Own = <<task>> /\ Own # <<>> /\ Head(Own) = task
<1>1. Own = <<task>>
  BY LineIs
<1>2. \A x : <<x>> # <<>> /\ Head(<<x>>) = x
  OBVIOUS
<1> QED
  BY <1>1, <1>2

\* A batch is not empty.
LEMMA BatchHasText == ASSUME JobInv, chain # <<>>, task.kind = "flush" PROVE TaskText \in SomeText
<1>1. task.ops \in Batches
  BY HeadIs DEF Calls
<1>2. PICK text \in SomeText : task.ops = <<InsertOp(text)>>
  BY <1>1 DEF Batches
<1>3. TaskText = text
  BY <1>2 DEF TaskText, InsertOp
<1> QED
  BY <1>3

-----------------------------------------------------------------------------
\* A job keeps the plan it was made with.
LEMMA SamePlan ==
  ASSUME plan' = plan
  PROVE  /\ \A n : DraftAt(n)' = DraftAt(n)
         /\ \A m, n : NoRepair(m, n)' = NoRepair(m, n)
         /\ \A m, n, t : Grows(m, n, t)' = Grows(m, n, t)
BY DEF DraftAt, NoRepair, Grows

\* A call of the job's own joins the chain.
LEMMA OwnJoins ==
  ASSUME JobInv, InTurn, replay \notin Waiting, NEW t, t.by # "loop", chain' = Append(chain, t)
  PROVE  InTurn' /\ Own = <<>> /\ Own' = <<t>> /\ (ByLoop' <=> ByLoop) /\ LoopText' = LoopText
<1>1. Own = <<>> /\ chain \in Seq(Calls(plan)) /\ Len(chain) \in Nat
  BY LineIs, Known DEF Queued
<1>2. chain' # <<>> /\ Len(chain') = Len(chain) + 1 /\ chain'[Len(chain) + 1] = t
      /\ \A i \in 1..Len(chain) : chain'[i] = chain[i]
  BY <1>1
<1>3. InTurn'
  <2>1. \A i \in 1..(Len(chain) + 1) : i \in 1..Len(chain) \/ i = Len(chain) + 1
    BY <1>1
  <2>2. \A i \in 1..Len(chain') : chain'[i].by = "loop" => i = 1
    BY <1>2, <2>1 DEF InTurn
  <2> QED
    BY <2>2 DEF InTurn
<1>4. CASE ByLoop
  <2>1. chain # <<>> /\ Tail(chain) = <<>> /\ Head(chain).by = "loop"
    BY <1>1, <1>4 DEF ByLoop, Own
  <2>2. chain = <<Head(chain)>>
    <3>1. Len(Tail(chain)) = Len(chain) - 1 /\ Head(chain) = chain[1] /\ Len(Tail(chain)) = 0
      <4>1. Len(Tail(chain)) = Len(chain) - 1 /\ Head(chain) = chain[1]
        BY <1>1, <2>1, HeadTailProperties
      <4>2. Len(Tail(chain)) = 0
        <5> DEFINE rest == Tail(chain)
        <5>1. rest = <<>>
          BY <2>1
        <5> HIDE DEF rest
        <5>2. Len(rest) = 0
          BY <5>1
        <5> QED
          BY <5>2 DEF rest
      <4> QED
        BY <4>1, <4>2
    <3>2. Len(chain) = 1
      BY <1>1, <3>1
    <3> QED
      BY <1>1, <3>1, <3>2
  <2>3. Head(chain') = Head(chain) /\ Tail(chain') = <<t>>
    <3> DEFINE h == Head(chain)
    <3> HIDE DEF h
    <3>1. chain = <<h>>
      BY <2>2 DEF h
    <3>2. Append(<<h>>, t) = <<h, t>>
      BY Google!Pairs
    <3>3. chain' = <<h, t>>
      BY <3>1, <3>2
    <3> QED
      BY <3>3 DEF h
  <2>4. ByLoop'
    BY <1>2, <2>1, <2>3 DEF ByLoop
  <2>5. TaskText' = TaskText
    BY <2>3 DEF TaskText, task
  <2> QED
    BY <1>1, <1>3, <1>4, <2>3, <2>4, <2>5 DEF LoopText, Own
<1>5. CASE ~ByLoop
  <2>1. chain = <<>>
    BY <1>1, <1>5 DEF Own
  <2>2. chain' = <<t>>
    BY <2>1
  <2>3. Head(chain') = t
    BY <2>2
  <2>4. ~ByLoop'
    BY <2>3 DEF ByLoop
  <2> QED
    BY <1>1, <1>3, <1>5, <2>2, <2>4 DEF LoopText, Own
<1> QED
  BY <1>4, <1>5

\* The flush loop hands a batch to an idle writer.
LEMMA LoopJoins ==
  ASSUME JobInv, InTurn, replay \notin Waiting, loop # "flush", NEW t, t.by = "loop", chain' = Append(chain, t)
  PROVE  /\ InTurn' /\ Own = <<>> /\ Own' = <<>> /\ ~ByLoop /\ ByLoop'
         /\ LoopText = <<>> /\ LoopText' = t.ops[1].text
<1>1. Own = <<>> /\ ~ByLoop
  BY LineIs
<1>2. chain = <<>>
  BY <1>1 DEF Own
<1>3. chain' = <<t>>
  BY <1>2
<1>4. Head(chain') = t /\ Tail(chain') = <<>> /\ Len(chain') = 1
  BY <1>3
<1>5. InTurn'
  BY <1>4 DEF InTurn
<1>6. ByLoop'
  BY <1>3, <1>4 DEF ByLoop
<1>7. LoopText' = t.ops[1].text
  BY <1>4, <1>6 DEF LoopText, TaskText, task
<1> QED
  BY <1>1, <1>4, <1>5, <1>6, <1>7 DEF LoopText, Own

\* The call being made is over.
LEMMA HeadLeaves ==
  ASSUME JobInv, InTurn, chain # <<>>, chain' = Tail(chain)
  PROVE  InTurn' /\ ~ByLoop' /\ LoopText' = <<>> /\ Own' = (IF ByLoop THEN Own ELSE <<>>) /\ chain' = Own'
<1>1. chain \in Seq(Calls(plan)) /\ Len(chain) \in Nat
  BY Known DEF Queued
<1>2. Len(chain') = Len(chain) - 1 /\ \A i \in 1..(Len(chain) - 1) : chain'[i] = chain[i + 1]
  BY <1>1
<1>3. \A i \in 1..Len(chain') : chain'[i].by # "loop"
  <2>1. \A i \in 1..(Len(chain) - 1) : i + 1 \in 1..Len(chain) /\ i + 1 # 1
    BY <1>1
  <2> QED
    BY <1>2, <2>1 DEF InTurn
<1>4. ~ByLoop'
  <2>1. chain' # <<>> => 1 \in 1..Len(chain') /\ Head(chain') = chain'[1]
    BY <1>1, <1>2
  <2> QED
    BY <1>3, <2>1 DEF ByLoop
<1>5. Own' = chain' /\ LoopText' = <<>>
  BY <1>4 DEF Own, LoopText
<1>6. chain' = IF ByLoop THEN Own ELSE <<>>
  <2>1. CASE ByLoop
    BY <2>1 DEF Own
  <2>2. CASE ~ByLoop
    <3>1. Own = <<task>> /\ Own = chain
      BY <2>2, LineIs DEF Own
    <3>2. Tail(<<task>>) = <<>>
      OBVIOUS
    <3> QED
      BY <2>2, <3>1, <3>2
  <2> QED
    BY <2>1, <2>2
<1> QED
  BY <1>3, <1>4, <1>5, <1>6 DEF InTurn

\* Who stands in the chain is a matter of the chain alone.
LEMMA LineKeeps ==
  ASSUME chain' = chain
  PROVE  (InTurn' <=> InTurn) /\ (ByLoop' <=> ByLoop) /\ LoopText' = LoopText /\ Own' = Own
BY DEF InTurn, ByLoop, LoopText, Own, TaskText, task

\* What the buffer holds
LEMMA HeldIs ==
  ASSUME JobInv
  PROVE  /\ Held \in Seq(Characters) /\ (buffer = <<>> => Held = <<>>)
         /\ buffer # <<>> => Held \in SomeText /\ buffer = <<InsertOp(Held)>>
<1>1. <<>> \in Seq(Characters)
  OBVIOUS
<1>2. ASSUME buffer # <<>> PROVE Held \in SomeText /\ buffer = <<InsertOp(Held)>>
  <2>1. PICK text \in SomeText : buffer = <<InsertOp(text)>>
    BY <1>2, Known DEF Batches
  <2>2. buffer[1].text = text
    BY <2>1 DEF InsertOp
  <2> QED
    BY <1>2, <2>1, <2>2 DEF Held
<1> QED
  BY <1>1, <1>2 DEF Held, SomeText

\* With no call of its own in the chain, a job's buffer holds the rest of what it has typed.
LEMMA ViaBuffer ==
  ASSUME JobInv, InTurn, Own = <<>>, NEW a, NEW b, NEW c, NEW d, Via(a, b, c, d)
  PROVE  c = b /\ Grows(b, d, Held)
BY DEF Via, OwnCall

\* Four drafts of the plan
Drafts(a, b, c, d) == /\ a \in 0..Len(plan) /\ b \in 0..Len(plan) /\ c \in 0..Len(plan) /\ d \in 0..Len(plan)

\* Any four drafts will do.
LEMMA Shows ==
  ASSUME NEW a, NEW b, NEW c, NEW d, Drafts(a, b, c, d), plan' = plan, Via(a, b, c, d)'
  PROVE  OnTheWay'
<1>1. Drafts(a, b, c, d)'
  BY DEF Drafts
<1>2. Coming'
  BY <1>1 DEF Coming, Drafts
<1> QED
  BY <1>2 DEF OnTheWay

-----------------------------------------------------------------------------
\* Where nothing was lost and the job is not over, there are such drafts.
LEMMA ComingIs ==
  ASSUME OnTheWay, lost = 0, ~twice, missing = "no", replay # "over"
  PROVE  \E a, b, c, d : Drafts(a, b, c, d) /\ Via(a, b, c, d)
<1>1. Coming
  BY DEF OnTheWay, Corrected
<1> QED
  BY <1>1 DEF Coming, Drafts

\* Nothing but what the job still types or waits for changes.
LEMMA OwnKeeps ==
  ASSUME plan' = plan, planIndex' = planIndex, Own' = Own, NEW b, NEW c, OwnCall(b, c)
  PROVE  OwnCall(b, c)'
BY SamePlan DEF OwnCall

\* Without a call of its own the job stands where the page will.
LEMMA OwnNone == ASSUME NEW b, Own' = <<>> PROVE OwnCall(b, b)'
BY DEF OwnCall

\* A step that moves neither page, chain nor buffer
LEMMA ViaStays ==
  ASSUME NEW a, NEW b, NEW c, NEW d, Via(a, b, c, d), UNCHANGED <<plan, planIndex, doc, chain, buffer>>, TypedTo(d)'
  PROVE  Via(a, b, c, d)'
<1>1. Page' = Page /\ Held' = Held
  BY DEF Page, Held
<1>2. LoopText' = LoopText /\ Own' = Own
  BY LineKeeps
<1> QED
  BY <1>1, <1>2, SamePlan, OwnKeeps DEF Via

\* runner.ts:330-333: a batch of the replay loop's, or of a cancel's
LEMMA OwnDrain ==
  ASSUME JobInv, InTurn, replay \notin Waiting, NEW by \in {"replay", "final"}, Drain(by), buffer # <<>>,
         plan' = plan, doc' = doc, NEW a, NEW b, NEW c, NEW d, Drafts(a, b, c, d), Via(a, b, c, d), TypedTo(d)'
  PROVE  InTurn' /\ Via(a, b, d, d)'
<1>0. PICK t : t = Flush(by, buffer)
  OBVIOUS
<1>1. t.by = by /\ t.kind = "flush" /\ t.ops = buffer /\ chain' = Append(chain, t)
  BY <1>0 DEF Flush, Drain
<1>2. t.ops[1].text = Held
  BY <1>1 DEF Held
<1>3. InTurn' /\ Own = <<>> /\ Own' = <<t>> /\ LoopText' = LoopText
  BY <1>1, OwnJoins
<1>4. Grows(b, d, Held)
  BY <1>3, ViaBuffer
<1>5. OwnCall(b, d)'
  <2>1. Own' # <<>> /\ Head(Own') = t
    BY <1>3
  <2>2. Grows(b, d, t.ops[1].text)'
    BY <1>2, <1>4, SamePlan
  <2> QED
    BY <1>1, <2>1, <2>2 DEF OwnCall
<1>6. Page' = Page /\ Held' = <<>>
  BY DEF Page, Held, Drain
<1>7. Grows(d, d, Held)'
  <2>1. plan \in Plans /\ d \in 0..Len(plan)
    BY Known DEF Drafts
  <2> QED
    BY <1>6, <2>1, GrowsNot, SamePlan
<1> QED
  BY <1>3, <1>5, <1>6, <1>7, SamePlan DEF Via

\* runner.ts:243-250: an event taken, after what has been typed if it is a gap or a repair
LEMMA TakeEventComes ==
  ASSUME JobInv, InTurn, OnTheWay, TakeEvent
  PROVE  InTurn' /\ OnTheWay'
<1>1. replay = "next" /\ UNCHANGED <<plan, planIndex, doc, lost, missing, twice, fixed>> /\ replay \notin Waiting
  BY DEF TakeEvent, google, ghost, Waiting
<1>2. CASE UNCHANGED <<chain, buffer>> /\ replay' \in {"cancelled", "over", "sleep"}
  <2>1. OnTheWay'
    <3> SUFFICES ASSUME lost = 0, ~twice, missing = "no" PROVE OnTheWay'
      BY <1>1 DEF OnTheWay
    <3>1. PICK a, b, c, d : Drafts(a, b, c, d) /\ Via(a, b, c, d)
      BY <1>1, ComingIs
    <3>2. d = planIndex - 1
      BY <1>1, <3>1 DEF Via, TypedTo
    <3>3. TypedTo(d)'
      BY <1>1, <1>2, <3>2 DEF TypedTo
    <3>4. Via(a, b, c, d)'
      BY <1>1, <1>2, <3>1, <3>3, ViaStays
    <3> QED
      BY <1>1, <3>1, <3>4, Shows
  <2> QED
    BY <1>2, <2>1, LineKeeps
<1>3. CASE Drain("replay") /\ replay' = "flush" /\ buffer # <<>>
  <2>1. InTurn'
    <3>1. Flush("replay", buffer).by # "loop"
      BY DEF Flush
    <3> QED
      BY <1>1, <1>3, <3>1, OwnJoins DEF Drain
  <2>2. OnTheWay'
    <3> SUFFICES ASSUME lost = 0, ~twice, missing = "no" PROVE OnTheWay'
      BY <1>1 DEF OnTheWay
    <3>1. PICK a, b, c, d : Drafts(a, b, c, d) /\ Via(a, b, c, d)
      BY <1>1, ComingIs
    <3>2. d = planIndex - 1
      BY <1>1, <3>1 DEF Via, TypedTo
    <3>3. TypedTo(d)'
      BY <1>1, <1>3, <3>2 DEF TypedTo, Ending
    <3>4. Via(a, b, d, d)'
      BY <1>1, <1>3, <3>1, <3>3, OwnDrain
    <3>5. Drafts(a, b, d, d)
      BY <3>1 DEF Drafts
    <3> QED
      BY <1>1, <3>4, <3>5, Shows
  <2> QED
    BY <2>1, <2>2
<1> QED
  BY <1>2, <1>3 DEF TakeEvent, Thrown

\* buffer.ts:7-9: a letter more for the buffer is a letter more for what it holds.
LEMMA HeldGrows ==
  ASSUME JobInv, NEW char \in Characters, buffer' = Pushed(buffer, InsertOp(<<char>>))
  PROVE  Held' = Held \o <<char>>
<1> DEFINE one == <<char>>
<1>1. one \in Seq(Characters)
  OBVIOUS
<1> HIDE DEF one
<1>2. CASE buffer = <<>>
  <2>1. buffer' = <<InsertOp(one)>>
    BY <1>2 DEF Pushed, one
  <2>2. Held' = one
    BY <2>1 DEF Held, InsertOp
  <2>3. Held = <<>> /\ <<>> \o one = one
    BY <1>1, <1>2, HeldIs, ConcatEmptySeq
  <2> QED
    BY <2>2, <2>3 DEF one
<1>3. CASE buffer # <<>>
  <2>0. PICK text : text = Held
    OBVIOUS
  <2> DEFINE longer == text \o one
  <2>1. buffer = <<InsertOp(text)>> /\ text \in SomeText
    BY <1>3, <2>0, HeldIs
  <2>2. Last(buffer) = InsertOp(text) /\ Front(buffer) = <<>>
    BY <2>1 DEF Last, Front
  <2>3. Pushed(buffer, InsertOp(one)) = <<InsertOp(longer)>>
    <3>1. PICK op : op = InsertOp(one)
      OBVIOUS
    <3>2. op.kind = "insert" /\ op.text = one /\ Last(buffer).kind = "insert" /\ Last(buffer).text = text
      BY <2>2, <3>1 DEF InsertOp
    <3>3. Pushed(buffer, op) = Append(<<>>, InsertOp(text \o one))
      BY <1>3, <2>2, <3>2 DEF Pushed
    <3> QED
      BY <3>1, <3>3, Google!Pairs
  <2> HIDE DEF longer
  <2>4. buffer' = <<InsertOp(longer)>>
    BY <2>3 DEF one
  <2>5. Held' = longer
    BY <2>4 DEF Held, InsertOp
  <2> QED
    BY <2>0, <2>5 DEF longer, one
<1> QED
  BY <1>2, <1>3

\* runner.ts:262-268: the end of a turn
LEMMA AdvanceTyped ==
  ASSUME JobInv, Advance, plan' = plan, fixed' = fixed \/ fixed' = fixed \cup {planIndex},
         event.kind = "repair" => planIndex \in fixed', NEW n, n = planIndex
  PROVE  TypedTo(n)'
<1>1. planIndex \in 1..Len(plan) /\ Len(plan) \in Nat
  BY Known
<1>2. CASE planIndex = Len(plan)
  <2>1. replay' = "join" /\ planIndex' = planIndex
    BY <1>2 DEF Advance
  <2>2. event' = event
    BY <2>1 DEF event
  <2> QED
    BY <1>2, <2>1, <2>2 DEF TypedTo, Replayed, Ending
<1>3. CASE planIndex # Len(plan)
  <2>1. replay' = "next" /\ planIndex' = planIndex + 1
    BY <1>3 DEF Advance
  <2> QED
    BY <1>1, <2>1 DEF TypedTo, Ending
<1> QED
  BY <1>2, <1>3

-----------------------------------------------------------------------------
\* An event typed or waited out takes what is typed one event on.
LEMMA TurnComes ==
  ASSUME JobInv, InTurn, OnTheWay, Type \/ RestOver
  PROVE  InTurn' /\ OnTheWay'
<1>1. /\ replay = "sleep" /\ Advance /\ UNCHANGED <<plan, doc, chain, lost, missing, twice, fixed>>
      /\ event.kind \in {"type", "rest"} /\ replay \notin Waiting
  BY DEF Type, RestOver, google, ghost, writer, Waiting
<1>2. OnTheWay'
  <2> SUFFICES ASSUME lost = 0, ~twice, missing = "no" PROVE OnTheWay'
    BY <1>1 DEF OnTheWay
  <2>1. PICK a, b, c, d : Drafts(a, b, c, d) /\ Via(a, b, c, d)
    BY <1>1, ComingIs
  <2>2. PICK n : n = planIndex
    OBVIOUS
  <2>3. n \in 1..Len(plan) /\ d = n - 1 /\ plan \in Plans /\ event = plan[n] /\ plan[n] \in HumanEvent
    BY <1>1, <2>1, <2>2, Known DEF Via, TypedTo, event
  <2>4. Own = <<>>
    BY <1>1, LineIs
  <2>5. Grows(b, n - 1, Held) /\ Held \in Seq(Characters) /\ b \in 0..Len(plan)
    BY <2>1, <2>3, <2>4, ViaBuffer, HeldIs DEF Drafts
  <2>6. Grows(b, n, Held')
    <3>1. CASE Type
      <4>1. event.kind = "type" /\ buffer' = Pushed(buffer, InsertOp(<<event.char>>)) /\ event.char \in Characters
        BY <2>3, <3>1 DEF Type, HumanEvent
      <4>2. Held' = Held \o <<event.char>>
        BY <4>1, HeldGrows
      <4>3. Grows(b, n, Held \o <<plan[n].char>>)
        BY <2>3, <2>5, <4>1, GrowsByOne
      <4> QED
        BY <2>3, <4>2, <4>3
    <3>2. CASE RestOver
      <4>1. event.kind = "rest" /\ Held' = Held
        BY <3>2 DEF RestOver, Held
      <4> QED
        BY <2>3, <2>5, <4>1, GrowsByOne
    <3> QED
      BY <3>1, <3>2
  <2>7. TypedTo(n)'
    BY <1>1, <2>2, AdvanceTyped
  <2>8. Page' = Page /\ LoopText' = LoopText /\ Own' = <<>>
    BY <1>1, <2>4, LineKeeps DEF Page
  <2>9. Via(a, b, b, n)'
    <3>1. Grows(b, n, Held)'
      BY <1>1, <2>6, SamePlan
    <3>2. OwnCall(b, b)'
      BY <2>8, OwnNone
    <3> QED
      BY <1>1, <2>1, <2>7, <2>8, <3>1, <3>2, SamePlan DEF Via
  <2>10. Drafts(a, b, b, n)
    <3>1. n \in 0..Len(plan)
      BY <2>3
    <3> QED
      BY <2>1, <3>1 DEF Drafts
  <2> QED
    BY <1>1, <2>9, <2>10, Shows
<1> QED
  BY <1>1, <1>2, LineKeeps

\* The writer has taken everything typed when a repair is started.
LEMMA StartRepairComes ==
  ASSUME JobInv, InTurn, Settled, OnTheWay, StartRepair
  PROVE  InTurn' /\ OnTheWay'
<1>1. /\ replay = "sleep" /\ UNCHANGED <<plan, planIndex, buffer, doc, lost, missing, twice, fixed>>
      /\ event.kind = "repair" /\ replay \notin Waiting /\ buffer = <<>>
  BY DEF StartRepair, google, ghost, Waiting, Settled
<1>2. CASE chain' = chain /\ replay' \in {"cancelled", "over"}
  <2>1. OnTheWay'
    <3> SUFFICES ASSUME lost = 0, ~twice, missing = "no" PROVE OnTheWay'
      BY <1>1 DEF OnTheWay
    <3>1. PICK a, b, c, d : Drafts(a, b, c, d) /\ Via(a, b, c, d)
      BY <1>1, ComingIs
    <3>2. d = planIndex - 1
      BY <1>1, <3>1 DEF Via, TypedTo
    <3>3. TypedTo(d)'
      BY <1>1, <1>2, <3>2 DEF TypedTo
    <3>4. Via(a, b, c, d)'
      BY <1>1, <1>2, <3>1, <3>3, ViaStays
    <3> QED
      BY <1>1, <3>1, <3>4, Shows
  <2> QED
    BY <1>2, <2>1, LineKeeps
<1>3. CASE chain' = Append(chain, Repair("replay", planIndex)) /\ replay' = "repair"
  <2>0. PICK n, t : n = planIndex /\ t = Repair("replay", n)
    OBVIOUS
  <2>1. t.by = "replay" /\ t.kind = "repair" /\ t.index = n /\ chain' = Append(chain, t)
    BY <1>3, <2>0 DEF Repair
  <2>2. InTurn' /\ Own = <<>> /\ Own' = <<t>> /\ LoopText' = LoopText
    BY <1>1, <2>1, OwnJoins
  <2>3. OnTheWay'
    <3> SUFFICES ASSUME lost = 0, ~twice, missing = "no" PROVE OnTheWay'
      BY <1>1 DEF OnTheWay
    <3>1. PICK a, b, c, d : Drafts(a, b, c, d) /\ Via(a, b, c, d)
      BY <1>1, ComingIs
    <3>2. n \in 1..Len(plan) /\ n \in 0..Len(plan) /\ d = n - 1 /\ plan \in Plans
      BY <1>1, <2>0, <3>1, Known DEF Via, TypedTo
    <3>3. Grows(b, n - 1, <<>>)
      BY <1>1, <2>2, <3>1, <3>2, ViaBuffer, HeldIs
    <3>4. OwnCall(b, n)'
      <4>1. Own' # <<>> /\ Head(Own') = t /\ planIndex' = n
        BY <1>1, <2>0, <2>2
      <4>2. Grows(b, n - 1, <<>>)'
        BY <1>1, <3>3, SamePlan
      <4> QED
        BY <2>1, <4>1, <4>2 DEF OwnCall
    <3>5. TypedTo(n)'
      BY <1>1, <1>3, <2>0 DEF TypedTo, Ending
    <3>6. Grows(n, n, Held)'
      <4>1. Held' = <<>>
        BY <1>1 DEF Held
      <4> QED
        BY <1>1, <3>2, <4>1, GrowsNot, SamePlan
    <3>7. Page' = Page
      BY <1>1 DEF Page
    <3>8. Via(a, b, n, n)'
      BY <1>1, <2>2, <3>1, <3>4, <3>5, <3>6, <3>7, SamePlan DEF Via
    <3>9. Drafts(a, b, n, n)
      BY <3>1, <3>2 DEF Drafts
    <3> QED
      BY <1>1, <3>8, <3>9, Shows
  <2> QED
    BY <2>2, <2>3
<1> QED
  BY <1>2, <1>3 DEF StartRepair, Thrown

\* A step that moves neither the chain nor the buffer, nor the replay but to its end
LEMMA IdleComes ==
  ASSUME JobInv, InTurn, OnTheWay, UNCHANGED <<plan, planIndex, chain, buffer, doc, lost, missing, twice, fixed>>,
         aborted' = aborted \/ aborted = "no",
         \/ replay' = replay
         \/ replay \in {"sleep", "join"} /\ replay' \in {"cancelled", "over"}
  PROVE  InTurn' /\ OnTheWay'
<1>1. OnTheWay'
  <2> SUFFICES ASSUME lost = 0, ~twice, missing = "no" PROVE OnTheWay'
    BY DEF OnTheWay
  <2>1. CASE Coming
    <3>1. PICK a, b, c, d : Drafts(a, b, c, d) /\ Via(a, b, c, d)
      BY <2>1 DEF Coming, Drafts
    <3>2. Replayed(d) => Replayed(d)'
      BY DEF Replayed, event
    <3>3. TypedTo(d)'
      BY <3>1, <3>2 DEF Via, TypedTo, Ending
    <3>4. Via(a, b, c, d)'
      BY <3>1, <3>3, ViaStays
    <3> QED
      BY <3>1, <3>4, Shows
  <2>2. CASE Corrected
    <3>1. Corrected'
      BY <2>2 DEF Corrected
    <3> QED
      BY <3>1 DEF OnTheWay
  <2> QED
    BY <2>1, <2>2 DEF OnTheWay
<1> QED
  BY <1>1, LineKeeps

\* runner.ts:326-333: the flush loop hands everything typed to an idle writer.
LEMMA LoopWakesComes ==
  ASSUME JobInv, InTurn, Settled, OnTheWay, LoopWakes
  PROVE  InTurn' /\ OnTheWay'
<1>1. loop = "sleep" /\ UNCHANGED <<plan, planIndex, replay, aborted, doc, lost, missing, twice, fixed>>
      /\ aborted = "no"
  BY DEF LoopWakes, google, ghost
<1>2. CASE UNCHANGED <<chain, buffer>>
  BY <1>1, <1>2, IdleComes
<1>3. CASE Drain("loop") /\ buffer # <<>>
  <2>0. PICK t, text : t = Flush("loop", buffer) /\ text = Held
    OBVIOUS
  <2>1. t.by = "loop" /\ t.ops[1].text = text /\ chain' = Append(chain, t) /\ buffer' = <<>>
    BY <1>3, <2>0 DEF Flush, Drain, Held
  <2>2. replay \notin Waiting
    BY <1>3 DEF Settled
  <2>3. /\ InTurn' /\ Own = <<>> /\ Own' = <<>>
        /\ LoopText = <<>> /\ LoopText' = text
    BY <1>1, <2>1, <2>2, LoopJoins
  <2>4. OnTheWay'
    <3> SUFFICES ASSUME lost = 0, ~twice, missing = "no" PROVE OnTheWay'
      BY <1>1 DEF OnTheWay
    <3>1. Coming
      BY <1>1 DEF OnTheWay, Corrected
    <3>2. PICK a, b, c, d : Drafts(a, b, c, d) /\ Via(a, b, c, d)
      BY <3>1 DEF Coming, Drafts
    <3>3. plan \in Plans /\ a \in 0..Len(plan) /\ b \in 0..Len(plan) /\ d \in 0..Len(plan) /\ text \in Seq(Characters)
          /\ <<>> \in Seq(Characters)
      BY <2>0, <3>2, Known, HeldIs DEF Drafts
    <3>4. Grows(a, d, text)
      <4>1. Grows(a, b, <<>>) /\ Grows(b, d, text)
        BY <2>0, <2>3, <3>2, ViaBuffer DEF Via
      <4>2. Grows(a, d, <<>> \o text)
        BY <3>3, <4>1, GrowsOn
      <4>3. <<>> \o text = text
        BY <3>3, ConcatEmptySeq
      <4> QED
        BY <4>2, <4>3
    <3>5. OwnCall(d, d)'
      BY <2>3, OwnNone
    <3>6. Held' = <<>> /\ Page' = Page
      BY <1>1, <2>1 DEF Held, Page
    <3>7. Grows(d, d, Held)'
      BY <1>1, <3>3, <3>6, GrowsNot, SamePlan
    <3>8. Replayed(d) => Replayed(d)'
      BY <1>1 DEF Replayed, event
    <3>9. TypedTo(d)'
      BY <1>1, <3>2, <3>8 DEF Via, TypedTo, Ending
    <3>10. Via(a, d, d, d)'
      BY <1>1, <2>3, <3>2, <3>4, <3>5, <3>6, <3>7, <3>9, SamePlan DEF Via
    <3>11. Drafts(a, d, d, d)
      BY <3>2 DEF Drafts
    <3> QED
      BY <1>1, <3>10, <3>11, Shows
  <2> QED
    BY <2>3, <2>4
<1> QED
  BY <1>1, <1>2, <1>3 DEF LoopWakes

\* runner.ts:440-459: what a cancelled job had typed is handed over too.
LEMMA FinalFlushComes ==
  ASSUME JobInv, InTurn, OnTheWay, FinalFlush
  PROVE  InTurn' /\ OnTheWay'
<1>1. replay = "cancelled" /\ UNCHANGED <<plan, planIndex, doc, lost, missing, twice, fixed>>
      /\ replay \notin Waiting /\ replay' \in {"tidy", "final"}
  BY DEF FinalFlush, google, ghost, Waiting
<1>2. ASSUME NEW a, NEW b, NEW c, NEW d, Via(a, b, c, d) PROVE TypedTo(d)'
  <2>1. Replayed(d) => Replayed(d)'
    BY <1>1 DEF Replayed, event
  <2> QED
    BY <1>1, <1>2, <2>1 DEF Via, TypedTo, Ending
<1>3. CASE UNCHANGED <<chain, buffer>>
  <2>1. OnTheWay'
    <3> SUFFICES ASSUME lost = 0, ~twice, missing = "no" PROVE OnTheWay'
      BY <1>1 DEF OnTheWay
    <3>1. PICK a, b, c, d : Drafts(a, b, c, d) /\ Via(a, b, c, d)
      BY <1>1, ComingIs
    <3>2. Via(a, b, c, d)'
      BY <1>1, <1>2, <1>3, <3>1, ViaStays
    <3> QED
      BY <1>1, <3>1, <3>2, Shows
  <2> QED
    BY <1>3, <2>1, LineKeeps
<1>4. CASE Drain("final") /\ buffer # <<>>
  <2>1. InTurn'
    <3>1. Flush("final", buffer).by # "loop"
      BY DEF Flush
    <3> QED
      BY <1>1, <1>4, <3>1, OwnJoins DEF Drain
  <2>2. OnTheWay'
    <3> SUFFICES ASSUME lost = 0, ~twice, missing = "no" PROVE OnTheWay'
      BY <1>1 DEF OnTheWay
    <3>1. PICK a, b, c, d : Drafts(a, b, c, d) /\ Via(a, b, c, d)
      BY <1>1, ComingIs
    <3>2. Via(a, b, d, d)'
      BY <1>1, <1>2, <1>4, <3>1, OwnDrain
    <3>3. Drafts(a, b, d, d)
      BY <3>1 DEF Drafts
    <3> QED
      BY <1>1, <3>2, <3>3, Shows
  <2> QED
    BY <2>1, <2>2
<1> QED
  BY <1>3, <1>4 DEF FinalFlush

-----------------------------------------------------------------------------
\* runner.ts:474-508: the correction of a cancel is that of the one mistake that is outstanding.
LEMMA TidyUpComes ==
  ASSUME JobInv, InTurn, Settled, OnTheWay, TidyUp
  PROVE  InTurn' /\ OnTheWay'
<1>1. /\ replay = "tidy" /\ replay \notin Waiting /\ buffer = <<>> /\ aborted = "cancel"
      /\ UNCHANGED <<plan, planIndex, buffer, aborted, doc, lost, missing, fixed>>
  BY DEF TidyUp, google, Waiting, Settled, Ending
<1>2. CASE chain' = chain /\ replay' = "over" /\ twice' = twice
  <2>1. OnTheWay'
    <3> SUFFICES ASSUME lost = 0, ~twice, missing = "no" PROVE OnTheWay'
      BY <1>1, <1>2 DEF OnTheWay
    <3>1. PICK a, b, c, d : Drafts(a, b, c, d) /\ Via(a, b, c, d)
      BY <1>1, ComingIs
    <3>2. TypedTo(d)'
      BY <1>2 DEF TypedTo, Ending
    <3>3. Via(a, b, c, d)'
      BY <1>1, <1>2, <3>1, <3>2, ViaStays
    <3> QED
      BY <1>1, <3>1, <3>3, Shows
  <2> QED
    BY <1>2, <2>1, LineKeeps
<1>3. CASE /\ Outstanding # {} /\ chain' = Append(chain, Repair("tidy", Min(Outstanding))) /\ replay' = "tidying"
           /\ twice' = (twice \/ Min(Outstanding) \in fixed)
  <2>0. PICK i, t : i = Min(Outstanding) /\ t = Repair("tidy", i)
    OBVIOUS
  <2>1. t.by = "tidy" /\ t.kind = "repair" /\ t.index = i /\ chain' = Append(chain, t)
    BY <1>3, <2>0 DEF Repair
  <2>2. InTurn' /\ Own = <<>> /\ Own' = <<t>> /\ LoopText' = LoopText
    BY <1>1, <2>1, OwnJoins
  <2>3. OnTheWay'
    <3> SUFFICES ASSUME lost = 0, ~twice, ~twice', missing = "no" PROVE OnTheWay'
      BY <1>1, <1>3 DEF OnTheWay
    <3>1. PICK a, b, c, d : Drafts(a, b, c, d) /\ Via(a, b, c, d)
      BY <1>1, ComingIs
    <3>2. plan \in Plans /\ planIndex \in 1..Len(plan) /\ Len(plan) \in Nat \ {0}
      BY Known
    <3>3. i \in Outstanding /\ i \notin fixed /\ \A y \in Outstanding : i <= y
      <4>1. Outstanding \in SUBSET Nat
        BY <3>2 DEF Outstanding
      <4> QED
        BY <1>3, <2>0, <4>1, LeastIs
    <3>4. i \in planIndex..Len(plan) /\ plan[i].kind = "repair"
      BY <3>3 DEF Outstanding
    <3>5. ~Replayed(d)
      <4> SUFFICES ASSUME Replayed(d) PROVE FALSE
        OBVIOUS
      <4>1. planIndex = Len(plan) /\ (plan[planIndex].kind = "repair" => planIndex \in fixed)
        BY DEF Replayed, event
      <4>2. i = planIndex
        BY <3>2, <3>4, <4>1
      <4> QED
        BY <3>3, <3>4, <4>1, <4>2
    <3>6. d = planIndex - 1
      BY <1>1, <3>1, <3>5 DEF Via, TypedTo, Ending
    <3>7. Grows(b, d, <<>>)
      BY <1>1, <2>2, <3>1, ViaBuffer, HeldIs
    <3>8. b < i /\ NoRepair(b, i - 1)
      <4>1. b \in Nat /\ b <= d /\ NoRepair(b, d)
        BY <3>1, <3>2, <3>7 DEF Drafts, Grows
      <4>2. \A j \in planIndex..(i - 1) : plan[j].kind # "repair"
        <5> SUFFICES ASSUME NEW j \in planIndex..(i - 1), plan[j].kind = "repair" PROVE FALSE
          OBVIOUS
        <5>1. j \in planIndex..Len(plan)
          BY <3>2, <3>4
        <5>2. j \in Outstanding
          BY <5>1 DEF Outstanding
        <5>3. i <= j
          BY <3>3, <5>2
        <5> QED
          BY <3>2, <3>4, <5>3
      <4>3. \A j \in (b + 1)..(i - 1) : j \in (b + 1)..d \/ j \in planIndex..(i - 1)
        BY <3>2, <3>4, <3>6, <4>1
      <4>4. NoRepair(b, i - 1)
        BY <4>1, <4>2, <4>3 DEF NoRepair
      <4> QED
        BY <3>2, <3>4, <3>6, <4>1, <4>4
    <3>9. OwnCall(b, b)'
      <4>1. Own' # <<>> /\ Head(Own') = t
        BY <2>2
      <4>2. NoRepair(b, i - 1)'
        BY <1>1, <3>8, SamePlan
      <4> QED
        BY <1>1, <2>1, <3>4, <3>8, <4>1, <4>2 DEF OwnCall
    <3>10. TypedTo(d)'
      BY <1>1, <1>3, <3>6 DEF TypedTo, Ending
    <3>11. Grows(b, d, Held)'
      <4>1. Held' = <<>>
        BY <1>1 DEF Held
      <4> QED
        BY <1>1, <3>7, <4>1, SamePlan
    <3>12. Page' = Page
      BY <1>1 DEF Page
    <3>13. Via(a, b, b, d)'
      BY <1>1, <2>2, <3>1, <3>9, <3>10, <3>11, <3>12, SamePlan DEF Via
    <3>14. Drafts(a, b, b, d)
      BY <3>1 DEF Drafts
    <3> QED
      BY <1>1, <3>13, <3>14, Shows
  <2> QED
    BY <2>2, <2>3
<1> QED
  BY <1>2, <1>3 DEF TidyUp

\* Once a call has failed, what is on its way is what was, or something is missing.
LEMMA FailComes ==
  ASSUME JobInv, InTurn, Settled, OnTheWay, chain # <<>>, Fail, doc' = doc, lost' = lost
  PROVE  InTurn' /\ OnTheWay'
<1>1. /\ chain' = Tail(chain) /\ Throws /\ UNCHANGED <<plan, planIndex, buffer, aborted, fixed, twice>>
      /\ missing' = IF task.kind = "flush" /\ missing = "no" THEN "lost" ELSE missing
  BY DEF Fail, NextCall
<1>2. InTurn' /\ ~ByLoop' /\ LoopText' = <<>> /\ Own' = (IF ByLoop THEN Own ELSE <<>>) /\ chain' = Own'
  BY <1>1, HeadLeaves
<1>3. CASE task.kind = "flush"
  BY <1>1, <1>2, <1>3 DEF OnTheWay
<1>4. CASE task.kind # "flush"
  <2>1. /\ task.kind = "repair" /\ task.by \in {"replay", "tidy"} /\ Waited(task, replay, loop) /\ ~ByLoop
        /\ Own = <<task>>
    BY <1>4, HeadIs, LineIs
  <2>2. replay \in {"repair", "tidying"} /\ buffer = <<>>
    BY <2>1 DEF Waited, Settled, Waiting
  <2>3. OnTheWay'
    <3> SUFFICES ASSUME lost = 0, ~twice, missing = "no" PROVE OnTheWay'
      BY <1>1, <1>4 DEF OnTheWay
    <3>1. PICK a, b, c, d : Drafts(a, b, c, d) /\ Via(a, b, c, d)
      BY <2>2, ComingIs
    <3>2. plan \in Plans /\ planIndex \in 1..Len(plan)
      BY Known
    <3>3. Page' = Page /\ Held' = <<>> /\ Held = <<>>
      BY <1>1, <2>2 DEF Page, Held
    <3>4. OwnCall(b, b)'
      BY <1>2, <2>1, OwnNone
    <3>5. Grows(a, b, <<>>)
      BY <2>1, <3>1 DEF Via, LoopText
    <3>6. CASE task.by = "replay"
      <4>0. PICK n : n = planIndex - 1
        OBVIOUS
      <4>1. Grows(b, n, <<>>)
        BY <2>1, <3>1, <3>6, <4>0 DEF Via, OwnCall
      <4>2. replay' \in {"cancelled", "over"}
        BY <1>1, <3>6 DEF Throws, Thrown
      <4>3. TypedTo(n)'
        BY <1>1, <4>0, <4>2 DEF TypedTo, Ending
      <4>4. Grows(b, n, Held)'
        BY <1>1, <3>3, <4>1, SamePlan
      <4>5. Via(a, b, b, n)'
        BY <1>1, <1>2, <3>1, <3>3, <3>4, <3>5, <4>3, <4>4, SamePlan DEF Via
      <4>6. Drafts(a, b, b, n)
        BY <3>1, <3>2, <4>0 DEF Drafts
      <4> QED
        BY <1>1, <4>5, <4>6, Shows
    <3>7. CASE task.by = "tidy"
      <4>1. c = b
        BY <2>1, <3>1, <3>7 DEF Via, OwnCall
      <4>2. replay' = "over"
        BY <1>1, <3>7 DEF Throws
      <4>3. TypedTo(d)'
        BY <4>2 DEF TypedTo, Ending
      <4>4. Grows(b, d, Held)'
        BY <1>1, <3>1, <3>3, <4>1, SamePlan DEF Via
      <4>5. Via(a, b, b, d)'
        BY <1>1, <1>2, <3>1, <3>3, <3>4, <3>5, <4>3, <4>4, SamePlan DEF Via
      <4>6. Drafts(a, b, b, d)
        BY <3>1 DEF Drafts
      <4> QED
        BY <1>1, <4>5, <4>6, Shows
    <3> QED
      BY <2>1, <3>6, <3>7
  <2> QED
    BY <1>2, <2>3
<1> QED
  BY <1>3, <1>4

\* A call that is tried again, or loses its answer
LEMMA RetryComes ==
  ASSUME JobInv, InTurn, Settled, OnTheWay, chain # <<>>, Retry, (doc' = doc /\ lost' = lost) \/ lost' # 0
  PROVE  InTurn' /\ OnTheWay'
<1>1. CASE lost' # 0
  <2>1. chain' = chain \/ chain' = Tail(chain)
    BY DEF Retry, Fail, NextCall
  <2>2. InTurn'
    BY <2>1, HeadLeaves, LineKeeps
  <2> QED
    BY <1>1, <2>2 DEF OnTheWay
<1>2. CASE doc' = doc /\ lost' = lost
  <2>1. CASE Fail
    BY <1>2, <2>1, FailComes
  <2>2. CASE ~Fail
    <3>1. UNCHANGED <<plan, runner, chain, ghost>>
      BY <2>2 DEF Retry
    <3> QED
      BY <1>2, <3>1, IdleComes DEF runner, ghost
  <2> QED
    BY <2>1, <2>2
<1> QED
  BY <1>1, <1>2

\* The page a call leaves is the draft it was on its way to.
LEMMA AnsweredComes ==
  ASSUME JobInv, InTurn, Settled, OnTheWay, Answered
  PROVE  InTurn' /\ OnTheWay'
<1>1. /\ chain # <<>> /\ Accepted /\ Succeed /\ UNCHANGED <<faults, lost>>
      /\ doc' = ApplyRequests(doc, Requests(task))
      /\ fixed' = (IF task.kind = "repair" THEN fixed \cup {task.index} ELSE fixed)
      /\ missing' = (IF task.kind = "flush" /\ missing = "lost" THEN "hole" ELSE missing)
  BY DEF Answered, Calling
<1>2. /\ chain' = Tail(chain) /\ Returns /\ UNCHANGED <<plan, buffer, aborted, twice>>
  BY <1>1 DEF Succeed, NextCall
<1>3. InTurn' /\ ~ByLoop' /\ LoopText' = <<>> /\ Own' = (IF ByLoop THEN Own ELSE <<>>) /\ chain' = Own'
  BY <1>1, <1>2, HeadLeaves
<1>4. Page' = NewPage
  BY <1>1, PageAfter
<1>5. OnTheWay'
  <2> SUFFICES ASSUME lost = 0, ~twice, missing = "no" PROVE OnTheWay'
    BY <1>1, <1>2 DEF OnTheWay
  <2>1. Coming
    BY <1>1 DEF OnTheWay, Corrected
  <2>2. PICK a, b, c, d : Drafts(a, b, c, d) /\ Via(a, b, c, d)
    BY <2>1 DEF Coming, Drafts
  <2>3. plan \in Plans /\ b \in 0..Len(plan) /\ c \in 0..Len(plan) /\ a \in 0..Len(plan) /\ planIndex \in 1..Len(plan)
    BY <2>2, Known DEF Drafts
  <2>4. Held' = Held
    BY <1>2 DEF Held
  <2>5. CASE ByLoop
    <3>1. task.kind = "flush" /\ LoopText = TaskText /\ task.by = "loop"
      BY <2>5, LineIs DEF LoopText, ByLoop, task
    <3>2. Page' = DraftAt(b)
      <4>1. NewPage = Page \o TaskText
        BY <1>1, <3>1, Applied
      <4> QED
        BY <1>4, <2>2, <3>1, <4>1 DEF Via, Grows
    <3>3. UNCHANGED <<replay, planIndex, fixed>>
      BY <1>1, <1>2, <3>1 DEF Returns
    <3>4. OwnCall(b, c)'
      BY <1>2, <1>3, <2>2, <2>5, <3>3, OwnKeeps DEF Via
    <3>5. TypedTo(d)'
      <4>1. Replayed(d) => Replayed(d)'
        BY <1>2, <3>3 DEF Replayed, event
      <4> QED
        BY <2>2, <3>3, <4>1 DEF Via, TypedTo, Ending
    <3>6. Grows(b, b, LoopText)'
      BY <1>2, <1>3, <2>3, GrowsNot, SamePlan
    <3>7. Via(b, b, c, d)'
      BY <1>2, <2>2, <2>4, <3>2, <3>4, <3>5, <3>6, SamePlan DEF Via
    <3>8. Drafts(b, b, c, d)
      BY <2>2 DEF Drafts
    <3> QED
      BY <1>2, <3>7, <3>8, Shows
  <2>6. CASE ~ByLoop
    <3>1. /\ Own = <<task>> /\ LoopText = <<>> /\ task.by # "loop" /\ Waited(task, replay, loop)
          /\ task.kind \in {"flush", "repair"} /\ task.by \in {"replay", "loop", "final", "tidy"}
          /\ (task.kind = "flush" => task.by \in {"replay", "final"}) /\ replay \in Waiting
          /\ (task.kind = "repair" => task.by \in {"replay", "tidy"})
      <4>1. Own = <<task>> /\ Own # <<>> /\ Head(Own) = task
        BY <1>1, <2>6, HeadIsOwn
      <4>2. task.by # "loop" /\ Waited(task, replay, loop) /\ replay \in Waiting
        BY <4>1, LineIs
      <4>3. LoopText = <<>>
        BY <2>6 DEF LoopText
      <4> QED
        BY <1>1, <4>1, <4>2, <4>3, HeadIs
    <3>2. Page = DraftAt(b) /\ Own # <<>> /\ Head(Own) = task
      BY <2>2, <2>3, <3>1, NothingTyped DEF Via
    <3>3. buffer = <<>> /\ Held = <<>>
      BY <3>1, HeldIs DEF Settled
    <3>4. OwnCall(c, c)'
      BY <1>3, <2>6, OwnNone
    <3>5. Grows(c, c, LoopText)'
      BY <1>2, <1>3, <2>3, GrowsNot, SamePlan
    <3>6. ASSUME NEW n \in 0..Len(plan), Page' = DraftAt(c), Grows(c, n, <<>>), TypedTo(n)' PROVE OnTheWay'
      <4>1. Via(c, c, c, n)'
        BY <1>2, <2>4, <3>3, <3>4, <3>5, <3>6, SamePlan DEF Via
      <4>2. Drafts(c, c, c, n)
        BY <2>3, <3>6 DEF Drafts
      <4> QED
        BY <1>2, <4>1, <4>2, Shows
    <3>7. CASE task.kind = "flush"
      <4>1. Page' = DraftAt(c)
        <5>1. NewPage = Page \o TaskText
          BY <1>1, <3>7, Applied
        <5>2. Grows(b, c, TaskText)
          BY <2>2, <3>2, <3>7 DEF Via, OwnCall, TaskText
        <5> QED
          BY <1>4, <3>2, <5>1, <5>2 DEF Grows
      <4>2. Grows(c, d, <<>>) /\ d \in 0..Len(plan)
        BY <2>2, <3>3 DEF Via, Drafts
      <4>3. TypedTo(d)'
        <5>1. CASE task.by = "replay"
          <6>1. replay = "flush" /\ replay' = "sleep" /\ planIndex' = planIndex
            BY <1>2, <3>1, <3>7, <5>1 DEF Returns, Waited
          <6> QED
            BY <2>2, <6>1 DEF Via, TypedTo, Ending
        <5>2. CASE task.by = "final"
          <6>1. replay = "final" /\ replay' = "tidy" /\ planIndex' = planIndex /\ fixed' = fixed
            BY <1>1, <1>2, <3>1, <3>7, <5>2 DEF Returns, Waited
          <6>2. Replayed(d) => Replayed(d)'
            BY <1>2, <6>1 DEF Replayed, event
          <6> QED
            BY <2>2, <6>1, <6>2 DEF Via, TypedTo, Ending
        <5> QED
          BY <3>1, <3>7, <5>1, <5>2
      <4> QED
        BY <3>6, <4>1, <4>2, <4>3
    <3>8. CASE task.kind = "repair" /\ task.by = "replay"
      <4>1. task.index = planIndex /\ c = planIndex /\ Grows(b, planIndex - 1, <<>>)
        BY <2>2, <3>2, <3>8 DEF Via, OwnCall
      <4>2. event.kind = "repair" /\ planIndex \in RepairsOf(plan)
        BY <1>1, <3>8, <4>1, HeadIs DEF RepairsOf, event
      <4>3. Page' = DraftAt(c)
        <5>1. Page' = Abs!Repaired(Page, plan[planIndex])
          BY <1>4, <3>8, <4>1 DEF NewPage
        <5>2. planIndex - 1 \in 0..Len(plan)
          BY <2>3
        <5>3. DraftAt(planIndex - 1) = DraftAt(b)
          BY <2>3, <4>1, <5>2, NothingTyped
        <5>4. DraftAt(planIndex) = Abs!Repaired(DraftAt(planIndex - 1), plan[planIndex])
          BY <2>3, <4>2, DraftsAre DEF event
        <5> QED
          BY <3>2, <4>1, <5>1, <5>3, <5>4
      <4>4. TypedTo(c)'
        <5>1. Advance /\ fixed' = fixed \cup {planIndex}
          BY <1>1, <1>2, <3>8, <4>1 DEF Returns
        <5> QED
          BY <1>2, <4>1, <5>1, AdvanceTyped
      <4>5. Grows(c, c, <<>>)
        BY <2>3, GrowsNot
      <4> QED
        BY <2>3, <3>6, <4>3, <4>4, <4>5
    <3>9. CASE task.kind = "repair" /\ task.by = "tidy"
      <4>1. replay = "tidying" /\ replay' = "over"
        BY <1>2, <3>1, <3>9 DEF Returns, Waited
      <4>2. aborted' # "no"
        BY <1>2, <4>1 DEF Settled, Ending
      <4>3. Corrected'
        BY <1>3, <2>6, <4>1, <4>2 DEF Corrected
      <4> QED
        BY <4>3 DEF OnTheWay
    <3> QED
      BY <3>1, <3>7, <3>8, <3>9
  <2> QED
    BY <2>5, <2>6
<1> QED
  BY <1>3, <1>5

-----------------------------------------------------------------------------
\* A job that is done does nothing more.
LEMMA DoneRests == ASSUME Finished, outcome = "done", Next PROVE FALSE
<1>1. chain = <<>> /\ loop = "ended" /\ replay = "over"
  BY DEF Finished
<1>2. ~(TakeEvent \/ Type \/ RestOver \/ StartRepair \/ SleepAborted \/ Join)
  BY <1>1 DEF TakeEvent, Type, RestOver, StartRepair, SleepAborted, Join
<1>3. ~(LoopWakes \/ LoopAborted \/ RecordFailure \/ FinalFlush \/ TidyUp \/ Cancel)
  BY <1>1 DEF LoopWakes, LoopAborted, RecordFailure, FinalFlush, TidyUp, Cancel
<1>4. ~(GetPermit \/ Answered \/ OutOfRange \/ TryAgain \/ CallAborted \/ Refused \/ AnswerLost \/ Denied)
  BY <1>1 DEF GetPermit, Answered, OutOfRange, TryAgain, CallAborted, Refused, AnswerLost, Denied, Calling
<1> QED
  BY <1>2, <1>3, <1>4 DEF Next, Running

\* runner.ts:200-214: whoever waits has handed over what was typed, and a batch that is given up
\* makes the flush loop fail before the job can join it.
LEMMA SettledKept ==
  ASSUME JobInv, InTurn, Settled, Next
  PROVE  Settled'
<1>1. TypeOK /\ event \in HumanEvent /\ plan \in Plans /\ (outcome # "none" => replay = "over")
  BY Known
<1>2. CASE TakeEvent \/ Type \/ RestOver \/ StartRepair \/ SleepAborted \/ Join
  <2>1. CASE TakeEvent
    BY <1>1, <2>1 DEF TakeEvent, Thrown, Drain, Settled, Waiting, Ending, replayFinished, event, ghost, HumanEvent
  <2>2. CASE Type
    BY <1>1, <2>2 DEF Type, Advance, Settled, Waiting, Ending, replayFinished, ghost
  <2>3. CASE RestOver
    BY <1>1, <2>3 DEF RestOver, Advance, Settled, Waiting, Ending, replayFinished, ghost
  <2>4. CASE StartRepair
    BY <1>1, <2>4 DEF StartRepair, Thrown, Settled, Waiting, Ending, replayFinished, event, ghost
  <2>5. CASE SleepAborted \/ Join
    BY <1>1, <2>5 DEF SleepAborted, Join, Thrown, Settled, Waiting, Ending, replayFinished, event, ghost
  <2> QED
    BY <1>2, <2>1, <2>2, <2>3, <2>4, <2>5
<1>3. CASE LoopWakes \/ LoopAborted \/ RecordFailure \/ FinalFlush \/ TidyUp \/ Cancel
  <2>1. CASE LoopWakes
    BY <1>1, <2>1 DEF LoopWakes, Drain, Settled, Waiting, Ending, replayFinished, event, ghost
  <2>2. CASE LoopAborted \/ RecordFailure \/ Cancel
    BY <1>1, <2>2 DEF LoopAborted, RecordFailure, Cancel, Settled, Waiting, Ending, replayFinished, event, ghost, TypeOK
  <2>3. CASE FinalFlush
    BY <1>1, <2>3 DEF FinalFlush, Drain, Settled, Waiting, Ending, replayFinished, event, ghost
  <2>4. CASE TidyUp
    BY <1>1, <2>4 DEF TidyUp, Settled, Waiting, Ending, replayFinished, event
  <2> QED
    BY <1>3, <2>1, <2>2, <2>3, <2>4
<1>4. ASSUME chain # <<>>, Fail PROVE Settled'
  <2>1. task.kind \in {"flush", "repair"} /\ task.by \in {"replay", "loop", "final", "tidy"}
        /\ Waited(task, replay, loop)
    BY <1>4, HeadIs
  <2>2. Throws /\ UNCHANGED <<plan, planIndex, buffer, aborted, failure, twice>>
        /\ missing' = IF task.kind = "flush" /\ missing = "no" THEN "lost" ELSE missing
    BY <1>4 DEF Fail
  <2> HIDE DEF task
  <2> QED
    BY <1>1, <2>1, <2>2 DEF Throws, Thrown, Settled, Waiting, Waited, Ending, replayFinished, event
<1>5. ASSUME chain # <<>>, Retry PROVE Settled'
  <2>1. CASE Fail
    BY <1>4, <1>5, <2>1
  <2>2. CASE ~Fail
    <3>1. UNCHANGED <<plan, runner, ghost>>
      BY <1>5, <2>2 DEF Retry
    <3> QED
      BY <3>1 DEF runner, ghost, Settled, replayFinished, event
  <2> QED
    BY <2>1, <2>2
<1>6. CASE Answered
  <2>1. chain # <<>> /\ Succeed
        /\ missing' = (IF task.kind = "flush" /\ missing = "lost" THEN "hole" ELSE missing)
    BY <1>6 DEF Answered, Calling
  <2>2. task.kind \in {"flush", "repair"} /\ task.by \in {"replay", "loop", "final", "tidy"}
        /\ Waited(task, replay, loop)
    BY <2>1, HeadIs
  <2>3. Returns /\ UNCHANGED <<plan, buffer, aborted, failure, twice>>
    BY <2>1 DEF Succeed
  <2> HIDE DEF task
  <2> QED
    BY <1>1, <2>1, <2>2, <2>3
       DEF Returns, Advance, LoopTop, Settled, Waiting, Waited, Ending, replayFinished, event
<1>7. CASE GetPermit \/ TryAgain
  BY <1>7 DEF GetPermit, TryAgain, runner, ghost, Settled, replayFinished, event
<1>8. CASE OutOfRange \/ CallAborted \/ Denied
  BY <1>4, <1>8 DEF OutOfRange, CallAborted, Denied, Calling
<1>9. CASE Refused \/ AnswerLost
  BY <1>5, <1>9 DEF Refused, AnswerLost, Calling
<1> QED
  BY <1>2, <1>3, <1>6, <1>7, <1>8, <1>9 DEF Next, Running

\* runner.ts:205-218: a job is done once the flush loop has ended without a failure.
LEMMA FinishedKept ==
  ASSUME JobInv, DoneInv, Next
  PROVE  Finished'
<1>1. outcome # "done"
  BY DoneRests DEF DoneInv
<1>2. SUFFICES ASSUME outcome' = "done" PROVE Finished'
  BY DEF Finished
<1>3. Join /\ ~failure
  <2>1. task.by \in {"replay", "loop", "final", "tidy"} \/ chain = <<>>
    BY HeadIs
  <2>2. ~Fail
    BY <1>1, <1>2 DEF Fail, Throws, Thrown
  <2>3. ~Retry
    BY <1>1, <1>2, <2>2 DEF Retry, runner
  <2>4. ~Answered
    BY <1>1, <1>2 DEF Answered, Succeed, Returns
  <2>5. ~(TakeEvent \/ Type \/ RestOver \/ StartRepair \/ SleepAborted)
    BY <1>1, <1>2 DEF TakeEvent, Type, RestOver, StartRepair, SleepAborted, Thrown
  <2>6. ~(LoopWakes \/ LoopAborted \/ RecordFailure \/ FinalFlush \/ TidyUp \/ Cancel)
    BY <1>1, <1>2 DEF LoopWakes, LoopAborted, RecordFailure, FinalFlush, TidyUp, Cancel
  <2>7. ~(GetPermit \/ TryAgain)
    BY <1>1, <1>2 DEF GetPermit, TryAgain, runner
  <2>8. Join
    BY <2>2, <2>3, <2>4, <2>5, <2>6, <2>7 DEF Next, Running, OutOfRange, CallAborted, Refused, AnswerLost, Denied
  <2> QED
    BY <1>1, <1>2, <2>8 DEF Join, Thrown
<1>4. /\ replay = "join" /\ loop = "ended" /\ replay' = "over"
      /\ UNCHANGED <<plan, loop, buffer, chain, doc, lost>>
  BY <1>3 DEF Join, writer, google
<1>5. missing = "no" /\ ~twice /\ buffer = <<>>
  <2>1. missing \in {"no", "lost", "hole"} /\ (outcome # "none" => replay = "over")
    BY Known DEF TypeOK
  <2> QED
    BY <1>3, <1>4, <2>1 DEF DoneInv, Settled, Ending
<1>6. Own = <<>> /\ ~ByLoop
  BY <1>4, LineIs DEF DoneInv, Waiting
<1>7. chain = <<>>
  BY <1>6 DEF Own
<1>8. ASSUME lost = 0 PROVE Page = DraftAt(Len(plan))
  <2>1. PICK a, b, c, d : Drafts(a, b, c, d) /\ Via(a, b, c, d)
    BY <1>4, <1>5, <1>8, ComingIs DEF DoneInv
  <2>2. plan \in Plans /\ a \in 0..Len(plan) /\ b \in 0..Len(plan) /\ d \in 0..Len(plan)
    BY <2>1, Known DEF Drafts
  <2>3. d = Len(plan)
    BY <1>4, <2>1 DEF Via, TypedTo, Replayed
  <2>4. Grows(a, b, <<>>) /\ Grows(b, d, <<>>)
    BY <1>5, <1>6, <2>1, ViaBuffer, HeldIs DEF DoneInv, Via, LoopText
  <2>5. DraftAt(b) = DraftAt(a) /\ DraftAt(d) = DraftAt(b)
    BY <2>2, <2>4, NothingTyped
  <2> QED
    BY <2>1, <2>3, <2>5 DEF Via
<1>9. Page' = Page /\ DraftAt(Len(plan))' = DraftAt(Len(plan))
  BY <1>4 DEF Page, DraftAt
<1> QED
  BY <1>4, <1>5, <1>7, <1>8, <1>9 DEF Finished

\* A job that has typed nothing has nothing on its way.
LEMMA DoneInit == ASSUME Init PROVE DoneInv
<1>1. JobInv
  BY JobInit
<1>2. chain = <<>> /\ buffer = <<>> /\ replay = "next" /\ planIndex = 1 /\ twice = FALSE /\ missing = "no"
      /\ loop = "sleep" /\ outcome = "none" /\ doc = Before
  BY DEF Init
<1>3. plan \in Plans /\ 0 \in 0..Len(plan) /\ Floor \in Nat
  <2>1. plan \in Plans /\ Len(plan) \in Nat \ {0} /\ Floor \in Nat
    BY <1>1, Known
  <2> QED
    BY <2>1
<1>4. Page = DraftAt(0)
  BY <1>3, FreshPage, DraftsAre
<1>5. InTurn /\ Settled /\ Finished
  BY <1>2 DEF InTurn, Settled, Finished, Waiting, Ending
<1>6. OnTheWay
  <2>1. LoopText = <<>> /\ Own = <<>> /\ Held = <<>>
    BY <1>2 DEF LoopText, Own, Held, ByLoop
  <2>2. Grows(0, 0, <<>>)
    BY <1>3, GrowsNot
  <2>3. OwnCall(0, 0) /\ TypedTo(0)
    BY <1>2, <2>1 DEF OwnCall, TypedTo, Ending
  <2>4. Via(0, 0, 0, 0)
    BY <1>4, <2>1, <2>2, <2>3 DEF Via
  <2> QED
    BY <1>3, <2>4 DEF OnTheWay, Coming
<1> QED
  BY <1>5, <1>6 DEF DoneInv

\* Whatever a job does next, what it has typed is on its way or on the page.
LEMMA ComesKept ==
  ASSUME JobInv, DoneInv, Next
  PROVE  InTurn' /\ OnTheWay'
<1> USE DEF DoneInv
<1>1. CASE TakeEvent \/ Type \/ RestOver \/ StartRepair
  BY <1>1, TakeEventComes, TurnComes, StartRepairComes
<1>2. CASE SleepAborted \/ Join
  BY <1>2, IdleComes, DoneRests DEF SleepAborted, Join, Thrown, writer, google, ghost
<1>3. CASE LoopWakes \/ FinalFlush \/ TidyUp
  BY <1>3, LoopWakesComes, FinalFlushComes, TidyUpComes
<1>4. CASE LoopAborted \/ RecordFailure \/ Cancel
  BY <1>4, IdleComes DEF LoopAborted, RecordFailure, Cancel, writer, google, ghost
<1>5. CASE GetPermit \/ TryAgain
  BY <1>5, IdleComes DEF GetPermit, TryAgain, runner, google, ghost
<1>6. CASE Answered
  BY <1>6, AnsweredComes
<1>7. CASE OutOfRange \/ CallAborted \/ Denied
  BY <1>7, FailComes DEF OutOfRange, CallAborted, Denied, Calling, google
<1>8. CASE Refused
  BY <1>8, RetryComes DEF Refused, Calling
<1>9. CASE AnswerLost
  <2>1. chain # <<>> /\ Retry /\ lost' # 0
    BY <1>9, Known DEF AnswerLost, Calling, TypeOK
  <2> QED
    BY <2>1, RetryComes
<1> QED
  BY <1>1, <1>2, <1>3, <1>4, <1>5, <1>6, <1>7, <1>8, <1>9 DEF Next, Running

\* runner.ts and documents.ts: every character typed is in the buffer, in a batch of the chain or on
\* the page, in order, with each repair in its turn; a job that is done has typed it all.
THEOREM DoneInvariant == Spec => []DoneInv
<1>1. Init => DoneInv
  BY DoneInit
<1>2. JobInv /\ DoneInv /\ [Next]_vars => DoneInv'
  <2> SUFFICES ASSUME JobInv, DoneInv, [Next]_vars PROVE DoneInv'
    OBVIOUS
  <2>1. CASE Next
    <3>1. InTurn' /\ OnTheWay'
      BY <2>1, ComesKept
    <3>2. Settled' /\ Finished'
      BY <2>1, SettledKept, FinishedKept DEF DoneInv
    <3> QED
      BY <3>1, <3>2 DEF DoneInv
  <2>2. CASE UNCHANGED vars
    <3>1. UNCHANGED <<plan, runner, writer, google, shown, ghost>>
      BY <2>2 DEF vars
    <3>2. InTurn' /\ OnTheWay'
      BY <3>1, IdleComes DEF DoneInv, runner, writer, google, ghost
    <3>3. Settled' /\ Finished'
      BY <3>1 DEF DoneInv, Settled, Finished, Page, DraftAt, event, replayFinished, runner, writer, google, ghost
    <3> QED
      BY <3>2, <3>3 DEF DoneInv
  <2> QED
    BY <2>1, <2>2
<1> QED
  BY <1>1, <1>2, JobInvariant, PTL DEF Spec

\* runner.ts:205-218: a job that says it is done has typed the whole text and left no mistake, unless an
\* answer was lost.
THEOREM DoneTypesTheText == Spec => []DoneIsText
<1>1. DoneInv => DoneIsText
  BY DEF DoneInv, Finished, DoneIsText, DraftAt, Abs!Text
<1> QED
  BY <1>1, DoneInvariant, PTL

-----------------------------------------------------------------------------
\* ---- A page that lacks text

\* The page is draft a: text that takes the plan from there to draft b has been dropped, and no repair
\* after draft a has been made yet.
LackingFrom(a, b) ==
  /\ Page = DraftAt(a) /\ a < b /\ b <= planIndex
  /\ NoRepair(a, b) /\ NoRepair(a, planIndex - 1) /\ Len(DraftAt(a)) < Len(DraftAt(b))
  /\ (Own # <<>> /\ Head(Own).kind = "repair") =>
       LET t == Head(Own) IN
       planIndex <= t.index /\ NoRepair(a, t.index - 1) /\ (t.by = "replay" => t.index = planIndex)

\* Where the replay loop stands until it has gone through the plan, or ends
AtWork == {"next", "sleep", "flush", "repair"}

\* Repair i has been made on a page that lacks text, so that no later one is in its range.
MendedAt(i) ==
  /\ i \in RepairsOf(plan) /\ i \in fixed /\ cursor - Floor < Len(DraftAt(i))
  /\ \/ i < planIndex
     \/ i = planIndex /\ i = Len(plan) /\ replay \notin AtWork
  /\ Own # <<>> => Head(Own).kind = "flush"

\* After a batch has been dropped, and before anything is typed where it was to go
Short ==
  (lost = 0 /\ ~twice /\ missing = "lost") =>
    \/ replay = "over"
    \/ \E a, b \in 0..Len(plan) : LackingFrom(a, b)
    \/ \E i \in 1..Len(plan) : MendedAt(i)

-----------------------------------------------------------------------------
\* Without a repair the text only grows.
LEMMA DraftsGrow ==
  ASSUME plan \in Plans, NEW b \in 0..Len(plan), NEW n \in b..Len(plan), NoRepair(b, n)
  PROVE  Len(DraftAt(b)) <= Len(DraftAt(n)) /\ Len(DraftAt(b)) \in Nat /\ Len(DraftAt(n)) \in Nat
<1>1. Len(plan) \in Nat /\ plan \in Seq(HumanEvent)
  BY PlanIs
<1>2. \A m \in 0..Len(plan) : DraftAt(m) \in Seq(Characters) /\ Len(DraftAt(m)) \in Nat
  <2>1. \A m \in 0..Len(plan) : DraftAt(m) \in Seq(Characters)
    BY DraftsAre
  <2>2. \A s \in Seq(Characters) : Len(s) \in Nat
    OBVIOUS
  <2> QED
    BY <2>1, <2>2
<1> DEFINE S == {k \in Nat : b + k <= n => Len(DraftAt(b)) <= Len(DraftAt(b + k))}
<1>3. 0 \in S
  <2>1. b + 0 = b
    BY <1>1
  <2> QED
    BY <1>2, <2>1
<1>4. ASSUME NEW k \in Nat, k \in S PROVE k + 1 \in S
  <2> SUFFICES ASSUME b + (k + 1) <= n PROVE Len(DraftAt(b)) <= Len(DraftAt(b + (k + 1)))
    OBVIOUS
  <2>0. PICK m : m = b + (k + 1)
    OBVIOUS
  <2>1. m \in 1..Len(plan) /\ m \in (b + 1)..n /\ m - 1 = b + k /\ b + k <= n /\ m - 1 \in 0..Len(plan)
    BY <1>1, <2>0
  <2>2. plan[m].kind \in {"type", "rest"}
    <3>1. plan[m] \in HumanEvent /\ plan[m].kind # "repair"
      BY <1>1, <2>1 DEF NoRepair
    <3> QED
      BY <3>1 DEF HumanEvent
  <2>3. Len(DraftAt(m - 1)) <= Len(DraftAt(m))
    <3>1. DraftAt(m - 1) \in Seq(Characters) /\ Len(DraftAt(m - 1)) \in Nat
      BY <1>2, <2>1
    <3>2. CASE plan[m].kind = "rest"
      <4>1. DraftAt(m) = DraftAt(m - 1)
        BY <2>1, <3>2, DraftsAre
      <4> QED
        BY <3>1, <4>1
    <3>3. CASE plan[m].kind = "type"
      <4> DEFINE one == <<plan[m].char>>
      <4>1. DraftAt(m) = DraftAt(m - 1) \o one
        BY <2>1, <3>3, DraftsAre
      <4>2. plan[m] \in HumanEvent
        BY <1>1, <2>1
      <4>3. one \in Seq(Characters) /\ Len(one) = 1
        BY <3>3, <4>2 DEF HumanEvent
      <4> HIDE DEF one
      <4>4. Len(DraftAt(m - 1) \o one) = Len(DraftAt(m - 1)) + 1
        <5> DEFINE s == DraftAt(m - 1)
        <5>1. s \in Seq(Characters) /\ one \in Seq(Characters) /\ Len(one) = 1
          BY <3>1, <4>3
        <5> HIDE DEF s
        <5>2. Len(s \o one) = Len(s) + Len(one)
          BY <5>1, ConcatProperties
        <5> QED
          BY <5>1, <5>2 DEF s
      <4> QED
        BY <3>1, <4>1, <4>4
    <3> QED
      BY <2>2, <3>2, <3>3
  <2>4. Len(DraftAt(b)) <= Len(DraftAt(m - 1))
    BY <1>4, <2>1
  <2>5. Len(DraftAt(b)) \in Nat /\ Len(DraftAt(m - 1)) \in Nat /\ Len(DraftAt(m)) \in Nat
    BY <1>1, <1>2, <2>1
  <2> QED
    BY <2>0, <2>3, <2>4, <2>5
<1>5. Nat \subseteq S
  <2> HIDE DEF S
  <2> QED
    BY <1>3, <1>4, Drafter!Induction
<1>6. n - b \in Nat /\ b + (n - b) = n /\ n \in 0..Len(plan)
  BY <1>1
<1>7. Len(DraftAt(b)) <= Len(DraftAt(b + (n - b)))
  BY <1>5, <1>6
<1> QED
  BY <1>2, <1>6, <1>7

\* A repair of a page that is shorter than it should be leaves it shorter than it should be.
LEMMA MendedIsShort ==
  ASSUME plan \in Plans, NEW i \in RepairsOf(plan), NEW s \in Seq(Characters),
         AimedAt(plan, i) <= Len(s), Len(s) < Len(DraftAt(i - 1))
  PROVE  Len(Abs!Repaired(s, plan[i])) < Len(DraftAt(i)) /\ Abs!Repaired(s, plan[i]) \in Seq(Characters)
<1> DEFINE e == plan[i]
<1>1. /\ i \in 1..Len(plan) /\ e.kind = "repair"
      /\ e.offset \in Nat /\ e.remove \in Nat \ {0} /\ e.insert \in Seq(Characters)
      /\ e.offset + e.remove = AimedAt(plan, i)
  BY RepairIs DEF AimedAt
<1>2. i - 1 \in 0..Len(plan) /\ Len(plan) \in Nat
  BY <1>1, PlanIs
<1>3. DraftAt(i - 1) \in Seq(Characters) /\ DraftAt(i) = Abs!Repaired(DraftAt(i - 1), e)
      /\ AimedAt(plan, i) <= Len(DraftAt(i - 1))
  BY <1>1, <1>2, DraftsAre
<1> HIDE DEF e
<1>4. ASSUME NEW r \in Seq(Characters), e.offset + e.remove <= Len(r)
      PROVE  /\ Abs!Repaired(r, e) \in Seq(Characters)
             /\ Len(Abs!Repaired(r, e)) = Len(r) + Len(e.insert) - e.remove
  <2>0. PICK from, to, t : from = e.offset /\ to = e.offset + e.remove /\ t = e.insert
    OBVIOUS
  <2>1. from \in 0..Len(r) /\ to \in from..Len(r) /\ Len(r) \in Nat /\ t \in Seq(Characters) /\ Len(t) \in Nat
    BY <1>1, <1>4, <2>0
  <2>2. Abs!Repaired(r, e) = Spliced(r, from, to, t)
    BY <2>0 DEF Abs!Repaired, Spliced
  <2>3. Spliced(r, from, to, t) \in Seq(Characters) /\ Len(Spliced(r, from, to, t)) = from + Len(t) + (Len(r) - to)
    BY <2>1, SplicedLen
  <2>4. PICK n, k, g : n = Len(r) /\ k = e.remove /\ g = Len(t)
    OBVIOUS
  <2>5. n \in Nat /\ k \in Nat /\ g \in Nat /\ from \in Nat /\ to = from + k
    BY <1>1, <2>0, <2>1, <2>4
  <2>6. from + g + (n - to) = n + g - k
    BY <2>5
  <2>7. Len(Spliced(r, from, to, t)) = n + g - k
    BY <2>3, <2>4, <2>6
  <2> QED
    BY <2>0, <2>2, <2>3, <2>4, <2>7
<1>5. /\ Abs!Repaired(s, e) \in Seq(Characters)
      /\ Len(Abs!Repaired(s, e)) = Len(s) + Len(e.insert) - e.remove
      /\ Len(DraftAt(i)) = Len(DraftAt(i - 1)) + Len(e.insert) - e.remove
  BY <1>1, <1>3, <1>4
<1>6. Len(s) \in Nat /\ Len(DraftAt(i - 1)) \in Nat /\ Len(e.insert) \in Nat
  BY <1>1, <1>3
<1> QED
  BY <1>1, <1>5, <1>6 DEF e

\* runner.ts:470-473: a repair is of text that was typed after the repair before.
LEMMA LaterOutOfReach ==
  ASSUME JobInv, NEW i \in RepairsOf(plan), NEW j \in RepairsOf(plan), i < j, cursor - Floor < Len(DraftAt(i))
  PROVE  ~InJobsRange(j)
<1>1. plan \in Plans /\ cursor \in Nat /\ Floor \in Nat /\ Len(plan) \in Nat \ {0}
  BY Known
<1>2. i \in 1..Len(plan) /\ j \in 1..Len(plan) /\ plan[i].kind = "repair" /\ plan[j].kind = "repair"
      /\ plan[j].offset \in Nat /\ plan[j].remove \in Nat \ {0}
  BY <1>1, RepairIs
<1>3. i \in 1..(j - 1)
  BY <1>1, <1>2
<1>4. Len(DraftAt(i)) <= plan[j].offset
  BY <1>1, <1>2, <1>3, MistakesAssumption DEF Abs!OneOutstanding, DraftAt
<1>5. Len(DraftAt(i)) \in Nat
  <2>1. DraftAt(i) \in Seq(Characters)
    BY <1>1, <1>2, DraftsAre
  <2> QED
    BY <2>1
<1> QED
  BY <1>1, <1>2, <1>4, <1>5 DEF InJobsRange

-----------------------------------------------------------------------------
\* A step that neither writes to the page nor starts a repair
LEMMA ShortKept ==
  ASSUME JobInv, Short, UNCHANGED <<plan, doc, cursor, fixed>>,
         (lost' = 0 /\ ~twice' /\ missing' = "lost") => (lost = 0 /\ ~twice /\ missing = "lost"),
         Own' = Own \/ Own' = <<>> \/ (Own' # <<>> /\ Head(Own').kind = "flush"),
         \/ planIndex' = planIndex
         \/ planIndex' = planIndex + 1 /\ replay = "sleep" /\ event.kind # "repair" /\ Own = <<>>,
         replay = "over" => replay' = "over", replay' \in AtWork => replay \in AtWork
  PROVE  Short'
<1> SUFFICES ASSUME lost = 0, ~twice, missing = "lost", replay' # "over" PROVE Short'
  BY DEF Short
<1>1. plan \in Plans /\ planIndex \in 1..Len(plan) /\ Len(plan) \in Nat /\ replay # "over"
  BY Known
<1>2. ASSUME NEW a \in 0..Len(plan), NEW b \in 0..Len(plan), LackingFrom(a, b) PROVE Short'
  <2>1. b <= planIndex' /\ NoRepair(a, planIndex' - 1)
    <3>1. CASE planIndex' = planIndex
      BY <1>2, <3>1 DEF LackingFrom
    <3>2. CASE planIndex' = planIndex + 1 /\ plan[planIndex].kind # "repair"
      <4>1. \A k \in (a + 1)..((planIndex + 1) - 1) : k \in (a + 1)..(planIndex - 1) \/ k = planIndex
        BY <1>1
      <4> QED
        BY <1>1, <1>2, <3>2, <4>1 DEF LackingFrom, NoRepair
    <3> QED
      BY <3>1, <3>2 DEF event
  <2>2. (Own' # <<>> /\ Head(Own').kind = "repair") => Own' = Own /\ planIndex' = planIndex
    OBVIOUS
  <2>3. (Own' # <<>> /\ Head(Own').kind = "repair") =>
          /\ planIndex' <= Head(Own').index /\ NoRepair(a, Head(Own').index - 1)
          /\ Head(Own').by = "replay" => Head(Own').index = planIndex'
    BY <1>2, <2>2 DEF LackingFrom
  <2>4. LackingFrom(a, b)'
    BY <1>2, <2>1, <2>3 DEF LackingFrom, Page, NoRepair, DraftAt
  <2> QED
    BY <1>2, <2>4 DEF Short
<1>3. ASSUME NEW i \in 1..Len(plan), MendedAt(i) PROVE Short'
  <2>1. Own' # <<>> => Head(Own').kind = "flush"
    BY <1>3 DEF MendedAt
  <2>2. \/ i < planIndex'
        \/ i = planIndex' /\ i = Len(plan) /\ replay' \notin AtWork
    BY <1>1, <1>3 DEF MendedAt, AtWork
  <2>3. MendedAt(i)'
    BY <1>3, <2>1, <2>2 DEF MendedAt, RepairsOf, DraftAt
  <2> QED
    BY <1>3, <2>3 DEF Short
<1> QED
  BY <1>1, <1>2, <1>3 DEF Short

\* The replay loop
LEMMA ReplayShort ==
  ASSUME JobInv, DoneInv, Short, TakeEvent \/ Type \/ RestOver \/ SleepAborted \/ Join
  PROVE  Short'
<1> USE DEF DoneInv
<1>1. CASE TakeEvent
  <2>1. /\ replay = "next" /\ replay \notin Waiting
        /\ UNCHANGED <<plan, planIndex, doc, cursor, fixed, lost, twice, missing>>
    BY <1>1 DEF TakeEvent, google, ghost, Waiting
  <2>2. CASE chain' = chain
    BY <2>1, <2>2, LineKeeps, ShortKept DEF AtWork
  <2>3. CASE Drain("replay") /\ replay' = "flush"
    <3>1. PICK t : t = Flush("replay", buffer)
      OBVIOUS
    <3>2. t.by # "loop" /\ t.kind = "flush" /\ chain' = Append(chain, t)
      BY <2>3, <3>1 DEF Drain, Flush
    <3>3. Own' = <<t>>
      BY <2>1, <3>2, OwnJoins
    <3>4. Own' # <<>> /\ Head(Own').kind = "flush"
      BY <3>2, <3>3
    <3> QED
      BY <2>1, <2>3, <3>4, ShortKept DEF AtWork
  <2> QED
    BY <1>1, <2>2, <2>3 DEF TakeEvent, Thrown
<1>2. CASE Type \/ RestOver
  <2>1. /\ replay = "sleep" /\ Advance /\ event.kind # "repair" /\ replay \notin Waiting
        /\ UNCHANGED <<plan, doc, chain, cursor, fixed, lost, twice, missing>>
    BY <1>2 DEF Type, RestOver, google, ghost, writer, Waiting
  <2>2. Own = <<>> /\ Own' = Own
    BY <2>1, LineIs, LineKeeps
  <2> QED
    BY <2>1, <2>2, ShortKept DEF Advance, AtWork
<1>3. CASE SleepAborted \/ Join
  <2>1. /\ replay \in {"sleep", "join"} /\ replay' \in {"cancelled", "over"}
        /\ UNCHANGED <<plan, planIndex, doc, chain, cursor, fixed, lost, twice, missing>>
    BY <1>3 DEF SleepAborted, Join, Thrown, google, ghost, writer
  <2> QED
    BY <2>1, LineKeeps, ShortKept DEF AtWork
<1> QED
  BY <1>1, <1>2, <1>3

\* The flush loop and a cancellation, up to its correction
LEMMA LoopShort ==
  ASSUME JobInv, DoneInv, Short, LoopWakes \/ LoopAborted \/ RecordFailure \/ Cancel \/ FinalFlush
  PROVE  Short'
<1> USE DEF DoneInv
<1>1. CASE LoopWakes
  <2>1. UNCHANGED <<plan, planIndex, replay, doc, cursor, fixed, lost, twice, missing>> /\ loop = "sleep"
    BY <1>1 DEF LoopWakes, google, ghost
  <2>2. CASE chain' = chain
    BY <2>1, <2>2, LineKeeps, ShortKept
  <2>3. CASE Drain("loop") /\ buffer # <<>>
    <3>1. PICK t : t = Flush("loop", buffer)
      OBVIOUS
    <3>2. t.by = "loop" /\ chain' = Append(chain, t)
      BY <2>3, <3>1 DEF Drain, Flush
    <3>3. Own' = <<>>
      BY <2>1, <2>3, <3>2, LoopJoins DEF Settled
    <3> QED
      BY <2>1, <3>3, ShortKept
  <2> QED
    BY <1>1, <2>2, <2>3 DEF LoopWakes
<1>2. CASE LoopAborted \/ RecordFailure \/ Cancel
  <2>1. UNCHANGED <<plan, planIndex, replay, chain, doc, cursor, fixed, lost, twice, missing>>
    BY <1>2 DEF LoopAborted, RecordFailure, Cancel, google, ghost, writer
  <2> QED
    BY <2>1, LineKeeps, ShortKept
<1>3. CASE FinalFlush
  <2>1. /\ replay = "cancelled" /\ replay' \in {"tidy", "final"} /\ replay \notin Waiting
        /\ UNCHANGED <<plan, planIndex, doc, cursor, fixed, lost, twice, missing>>
    BY <1>3 DEF FinalFlush, google, ghost, Waiting
  <2>2. CASE chain' = chain
    BY <2>1, <2>2, LineKeeps, ShortKept DEF AtWork
  <2>3. CASE Drain("final")
    <3>1. PICK t : t = Flush("final", buffer)
      OBVIOUS
    <3>2. t.by # "loop" /\ t.kind = "flush" /\ chain' = Append(chain, t)
      BY <2>3, <3>1 DEF Drain, Flush
    <3>3. Own' = <<t>>
      BY <2>1, <3>2, OwnJoins
    <3>4. Own' # <<>> /\ Head(Own').kind = "flush"
      BY <3>2, <3>3
    <3> QED
      BY <2>1, <3>4, ShortKept DEF AtWork
  <2> QED
    BY <1>3, <2>2, <2>3 DEF FinalFlush
<1> QED
  BY <1>1, <1>2, <1>3

\* runner.ts:283-290: a repair started on a page that lacks text is the next one of the plan.
LEMMA StartRepairShort ==
  ASSUME JobInv, DoneInv, Short, StartRepair
  PROVE  Short'
<1> USE DEF DoneInv
<1>1. /\ replay = "sleep" /\ event.kind = "repair" /\ replay \notin Waiting
      /\ UNCHANGED <<plan, planIndex, doc, cursor, fixed, lost, twice, missing>>
  BY DEF StartRepair, google, ghost, Waiting
<1>2. CASE chain' = chain /\ replay' \in {"cancelled", "over"}
  BY <1>1, <1>2, LineKeeps, ShortKept DEF AtWork
<1>3. CASE InJobsRange(planIndex) /\ chain' = Append(chain, Repair("replay", planIndex)) /\ replay' = "repair"
  <2>0. PICK n, t : n = planIndex /\ t = Repair("replay", n)
    OBVIOUS
  <2>1. t.by = "replay" /\ t.kind = "repair" /\ t.index = n /\ chain' = Append(chain, t)
    BY <1>3, <2>0 DEF Repair
  <2>2. Own' = <<t>>
    BY <1>1, <2>1, OwnJoins
  <2>3. Own' # <<>> /\ Head(Own') = t /\ n \in RepairsOf(plan) /\ n \in Nat
    <3>1. planIndex \in RepairsOf(plan)
      BY <1>1, EventRepairs
    <3> QED
      BY <2>0, <2>2, <3>1 DEF RepairsOf
  <2> SUFFICES ASSUME lost = 0, ~twice, missing = "lost" PROVE Short'
    BY <1>1 DEF Short
  <2>4. ASSUME NEW a \in 0..Len(plan), NEW b \in 0..Len(plan), LackingFrom(a, b) PROVE Short'
    <3>1. LackingFrom(a, b)'
      <4>1. /\ Page' = DraftAt(a)' /\ a < b /\ b <= planIndex' /\ NoRepair(a, b)' /\ NoRepair(a, planIndex - 1)'
            /\ Len(DraftAt(a)') < Len(DraftAt(b)')
        BY <1>1, <2>4 DEF LackingFrom, Page, NoRepair, DraftAt
      <4>2. planIndex' <= t.index /\ NoRepair(a, t.index - 1)' /\ t.index = planIndex'
        BY <1>1, <2>0, <2>1, <2>3, <4>1
      <4> QED
        BY <2>3, <4>1, <4>2 DEF LackingFrom
    <3> QED
      BY <1>1, <2>4, <3>1 DEF Short
  <2>5. ASSUME NEW i \in 1..Len(plan), MendedAt(i) PROVE FALSE
    <3>1. i < n /\ i \in RepairsOf(plan) /\ cursor - Floor < Len(DraftAt(i))
      BY <1>1, <2>0, <2>5 DEF MendedAt, AtWork
    <3> QED
      BY <1>3, <2>0, <2>3, <3>1, LaterOutOfReach
  <2> QED
    BY <1>1, <2>4, <2>5 DEF Short
<1> QED
  BY <1>2, <1>3 DEF StartRepair, Thrown

\* runner.ts:474-508: so is the correction of a cancel.
LEMMA TidyUpShort ==
  ASSUME JobInv, DoneInv, Short, TidyUp
  PROVE  Short'
<1> USE DEF DoneInv
<1>1. /\ replay = "tidy" /\ replay \notin Waiting /\ UNCHANGED <<plan, planIndex, doc, cursor, fixed, lost, missing>>
  BY DEF TidyUp, google, Waiting
<1>2. CASE replay' = "over"
  BY <1>2 DEF Short
<1>3. CASE /\ Outstanding # {} /\ InJobsRange(Min(Outstanding))
           /\ chain' = Append(chain, Repair("tidy", Min(Outstanding))) /\ replay' = "tidying"
           /\ twice' = (twice \/ Min(Outstanding) \in fixed)
  <2>0. PICK n, t : n = Min(Outstanding) /\ t = Repair("tidy", n)
    OBVIOUS
  <2>1. t.by = "tidy" /\ t.kind = "repair" /\ t.index = n /\ chain' = Append(chain, t)
    BY <1>3, <2>0 DEF Repair
  <2>2. Own' = <<t>>
    BY <1>1, <2>1, OwnJoins
  <2>3. Own' # <<>> /\ Head(Own') = t
    BY <2>2
  <2>4. planIndex \in 1..Len(plan) /\ Len(plan) \in Nat
    BY Known
  <2>5. n \in Outstanding /\ \A y \in Outstanding : n <= y
    <3>1. Outstanding \in SUBSET Nat
      BY <2>4 DEF Outstanding
    <3> QED
      BY <1>3, <2>0, <3>1, LeastIs
  <2>6. n \in planIndex..Len(plan) /\ plan[n].kind = "repair" /\ n \in RepairsOf(plan)
    BY <2>4, <2>5 DEF Outstanding, RepairsOf
  <2> SUFFICES ASSUME lost = 0, ~twice, n \notin fixed, missing = "lost" PROVE Short'
    BY <1>1, <1>3, <2>0 DEF Short
  <2>7. ASSUME NEW a \in 0..Len(plan), NEW b \in 0..Len(plan), LackingFrom(a, b) PROVE Short'
    <3>1. NoRepair(a, n - 1)
      <4>1. ASSUME NEW j \in planIndex..(n - 1), plan[j].kind = "repair" PROVE FALSE
        <5>1. j \in planIndex..Len(plan)
          BY <2>4, <2>6
        <5>2. j \in Outstanding
          BY <4>1, <5>1 DEF Outstanding
        <5>3. n <= j
          BY <2>5, <5>2
        <5> QED
          BY <2>4, <2>6, <5>3
      <4>2. \A j \in (a + 1)..(n - 1) : j \in (a + 1)..(planIndex - 1) \/ j \in planIndex..(n - 1)
        BY <2>4, <2>6
      <4> QED
        BY <2>7, <4>1, <4>2 DEF LackingFrom, NoRepair
    <3>2. LackingFrom(a, b)'
      BY <1>1, <2>1, <2>3, <2>4, <2>6, <2>7, <3>1 DEF LackingFrom, Page, NoRepair, DraftAt
    <3> QED
      BY <1>1, <2>7, <3>2 DEF Short
  <2>8. ASSUME NEW i \in 1..Len(plan), MendedAt(i) PROVE FALSE
    <3>1. i \in fixed /\ i <= planIndex /\ i \in RepairsOf(plan) /\ cursor - Floor < Len(DraftAt(i))
      BY <2>4, <2>8 DEF MendedAt
    <3>2. i < n
      BY <2>4, <2>6, <3>1
    <3> QED
      BY <1>3, <2>0, <2>6, <3>1, <3>2, LaterOutOfReach
  <2> QED
    BY <1>1, <2>7, <2>8 DEF Short
<1> QED
  BY <1>2, <1>3 DEF TidyUp

-----------------------------------------------------------------------------
\* Without the text of a batch the page is behind.
LEMMA BehindWithout ==
  ASSUME plan \in Plans, NEW a \in 0..Len(plan), NEW b \in 0..Len(plan), NEW s \in SomeText, Grows(a, b, s)
  PROVE  a < b /\ Len(DraftAt(a)) < Len(DraftAt(b))
<1>1. Len(plan) \in Nat
  BY PlanIs
<1>2. DraftAt(a) \in Seq(Characters) /\ DraftAt(b) = DraftAt(a) \o s /\ s \in Seq(Characters) /\ s # <<>> /\ a <= b
  BY DraftsAre DEF Grows, SomeText
<1>3. Len(DraftAt(a) \o s) = Len(DraftAt(a)) + Len(s) /\ Len(DraftAt(a)) \in Nat /\ Len(s) \in Nat
  BY <1>2, ConcatProperties
<1>4. Len(s) # 0
  BY <1>2, EmptySeq
<1>5. Len(DraftAt(a)) < Len(DraftAt(b))
  BY <1>2, <1>3, <1>4
<1>6. a # b
  BY <1>3, <1>5
<1> QED
  BY <1>1, <1>2, <1>5, <1>6

\* A stretch without a repair that ends no sooner than the events whose text has been typed
LEMMA FreeUpTo ==
  ASSUME JobInv, replay # "over", NEW a, NEW d, Drafts(a, a, a, d), TypedTo(d), NoRepair(a, d)
  PROVE  d <= planIndex /\ NoRepair(a, planIndex - 1)
<1>1. planIndex \in 1..Len(plan) /\ Len(plan) \in Nat /\ a \in Nat /\ d \in Nat
  BY Known DEF Drafts
<1>2. d = planIndex \/ d = planIndex - 1
  <2>1. replay \in {"next", "sleep", "flush", "repair", "join"} \cup Ending
    BY Known DEF TypeOK, Ending
  <2> QED
    BY <2>1 DEF TypedTo, Replayed
<1>3. \A k \in (a + 1)..(planIndex - 1) : k \in (a + 1)..d
  BY <1>1, <1>2
<1> QED
  BY <1>1, <1>2, <1>3 DEF NoRepair

\* Two stretches without a repair
LEMMA FreeOn ==
  ASSUME plan \in Plans, NEW a \in Int, NEW b \in Int, NEW c \in Int, NoRepair(a, b), NoRepair(b, c)
  PROVE  NoRepair(a, c)
<1>1. \A k \in (a + 1)..c : k \in (a + 1)..b \/ k \in (b + 1)..c
  OBVIOUS
<1> QED
  BY <1>1 DEF NoRepair

\* The flush loop gives up a batch.
LEMMA LoopDrops ==
  ASSUME JobInv, InTurn, replay # "over", ByLoop, UNCHANGED <<plan, planIndex, doc>>, Own' = Own,
         NEW a, NEW b, NEW c, NEW d, Drafts(a, b, c, d), Via(a, b, c, d)
  PROVE  LackingFrom(a, b)'
<1>1. /\ plan \in Plans /\ planIndex \in 1..Len(plan) /\ Len(plan) \in Nat
      /\ a \in 0..Len(plan) /\ b \in 0..Len(plan) /\ c \in 0..Len(plan) /\ d \in 0..Len(plan)
  BY Known DEF Drafts
<1>2. LoopText \in SomeText
  <2>1. TaskText \in SomeText
    BY LineIs, BatchHasText DEF ByLoop
  <2> QED
    BY <2>1 DEF LoopText
<1>3. Page = DraftAt(a) /\ a < b /\ Len(DraftAt(a)) < Len(DraftAt(b)) /\ NoRepair(a, b)
  BY <1>1, <1>2, BehindWithout DEF Via, Grows
<1>4. NoRepair(c, d) /\ c <= d /\ TypedTo(d)
  BY DEF Via, Grows
<1>5. /\ b <= planIndex /\ NoRepair(a, planIndex - 1)
      /\ (Own # <<>> /\ Head(Own).kind = "repair") =>
           /\ planIndex <= Head(Own).index /\ NoRepair(a, Head(Own).index - 1)
           /\ Head(Own).by = "replay" => Head(Own).index = planIndex
  <2>1. ASSUME NoRepair(b, c), b <= c PROVE b <= planIndex /\ NoRepair(a, planIndex - 1)
    <3>1. NoRepair(a, d)
      BY <1>1, <1>3, <1>4, <2>1, FreeOn
    <3>2. d <= planIndex /\ NoRepair(a, planIndex - 1)
      BY <1>4, <3>1, FreeUpTo DEF Drafts
    <3> QED
      BY <1>1, <1>4, <2>1, <3>2
  <2>2. NoRepair(b, b) /\ b <= b
    BY <1>1 DEF NoRepair
  <2>3. CASE Own = <<>>
    <3>1. c = b
      BY <2>3 DEF Via, OwnCall
    <3> QED
      BY <2>1, <2>2, <2>3, <3>1
  <2>4. CASE Own # <<>> /\ Head(Own).kind = "flush"
    <3>1. NoRepair(b, c) /\ b <= c
      BY <2>4 DEF Via, OwnCall, Grows
    <3> QED
      BY <2>1, <2>4, <3>1
  <2>5. CASE Own # <<>> /\ Head(Own).kind = "repair" /\ Head(Own).by = "replay"
    <3>1. Head(Own).index = planIndex /\ b <= planIndex - 1 /\ NoRepair(b, planIndex - 1)
      BY <2>5 DEF Via, OwnCall, Grows
    <3>2. NoRepair(a, planIndex - 1)
      BY <1>1, <1>3, <3>1, FreeOn
    <3> QED
      BY <1>1, <2>5, <3>1, <3>2
  <2>6. CASE Own # <<>> /\ Head(Own).kind = "repair" /\ Head(Own).by # "replay"
    <3>1. c = b /\ planIndex <= Head(Own).index /\ NoRepair(b, Head(Own).index - 1)
      BY <2>6 DEF Via, OwnCall
    <3>2. Head(Own).index \in 1..Len(plan)
      BY <2>6, LineIs DEF RepairsOf
    <3>3. NoRepair(a, Head(Own).index - 1)
      BY <1>1, <1>3, <3>1, <3>2, FreeOn
    <3> QED
      BY <2>1, <2>2, <2>6, <3>1, <3>3
  <2>7. Own # <<>> => Head(Own).kind \in {"flush", "repair"}
    BY LineIs DEF Calls
  <2> QED
    BY <2>3, <2>4, <2>5, <2>6, <2>7
<1>6. Page' = Page
  BY DEF Page
<1> QED
  BY <1>3, <1>5, <1>6, SamePlan DEF LackingFrom

\* The replay loop, or a cancel, gives up a batch.
LEMMA OwnDrops ==
  ASSUME JobInv, InTurn, replay # "over", chain # <<>>, ~ByLoop, task.kind = "flush",
         UNCHANGED <<plan, planIndex, doc>>, Own' = <<>>,
         NEW a, NEW b, NEW c, NEW d, Drafts(a, b, c, d), Via(a, b, c, d)
  PROVE  LackingFrom(b, c)'
<1>1. /\ plan \in Plans /\ planIndex \in 1..Len(plan) /\ Len(plan) \in Nat
      /\ a \in 0..Len(plan) /\ b \in 0..Len(plan) /\ c \in 0..Len(plan) /\ d \in 0..Len(plan)
  BY Known DEF Drafts
<1>2. Own # <<>> /\ Head(Own) = task
  BY HeadIsOwn
<1>3. Head(Own).ops[1].text \in SomeText /\ Grows(b, c, Head(Own).ops[1].text)
  BY <1>2, LineIs DEF Via, OwnCall
<1>4. b < c /\ Len(DraftAt(b)) < Len(DraftAt(c)) /\ NoRepair(b, c)
  BY <1>1, <1>3, BehindWithout DEF Grows
<1>5. Page = DraftAt(b)
  <2>1. Page = DraftAt(a) /\ Grows(a, b, <<>>)
    BY DEF Via, LoopText
  <2> QED
    BY <1>1, <2>1, NothingTyped
<1>6. NoRepair(c, d) /\ c <= d /\ TypedTo(d)
  BY DEF Via, Grows
<1>7. c <= planIndex /\ NoRepair(b, planIndex - 1)
  <2>1. NoRepair(b, d)
    BY <1>1, <1>4, <1>6, FreeOn
  <2>2. d <= planIndex /\ NoRepair(b, planIndex - 1)
    BY <1>6, <2>1, FreeUpTo DEF Drafts
  <2> QED
    BY <1>1, <1>6, <2>2
<1>8. Page' = Page
  BY DEF Page
<1> QED
  BY <1>4, <1>5, <1>7, <1>8, SamePlan DEF LackingFrom

\* A call that fails drops its batch, and with it the job is behind.
LEMMA FailShort ==
  ASSUME JobInv, DoneInv, Short, chain # <<>>, Fail, doc' = doc, lost' = lost
  PROVE  Short'
<1> USE DEF DoneInv
<1>1. /\ chain' = Tail(chain) /\ Throws /\ UNCHANGED <<plan, planIndex, buffer, aborted, cursor, fixed, twice>>
      /\ missing' = IF task.kind = "flush" /\ missing = "no" THEN "lost" ELSE missing
  BY DEF Fail, NextCall
<1>2. Own' = (IF ByLoop THEN Own ELSE <<>>)
  BY <1>1, HeadLeaves
<1>3. task.by \in {"replay", "loop", "final", "tidy"} /\ Waited(task, replay, loop)
  BY HeadIs
<1>4. (replay = "over" => replay' = "over") /\ (replay' \in AtWork => replay \in AtWork)
  BY <1>1, <1>3 DEF Throws, Thrown, Waited, AtWork
<1>5. CASE ~(task.kind = "flush" /\ missing = "no")
  BY <1>1, <1>2, <1>4, <1>5, ShortKept
<1>6. CASE task.kind = "flush" /\ missing = "no"
  <2> SUFFICES ASSUME lost = 0, ~twice, replay' # "over" PROVE Short'
    BY <1>1 DEF Short
  <2>1. PICK a, b, c, d : Drafts(a, b, c, d) /\ Via(a, b, c, d)
    BY <1>4, <1>6, ComingIs
  <2>2. CASE ByLoop
    <3>1. LackingFrom(a, b)'
      BY <1>1, <1>2, <1>4, <2>1, <2>2, LoopDrops
    <3> QED
      BY <1>1, <2>1, <3>1 DEF Short, Drafts
  <2>3. CASE ~ByLoop
    <3>1. LackingFrom(b, c)'
      BY <1>1, <1>2, <1>4, <1>6, <2>1, <2>3, OwnDrops
    <3> QED
      BY <1>1, <2>1, <3>1 DEF Short, Drafts
  <2> QED
    BY <2>2, <2>3
<1> QED
  BY <1>5, <1>6

\* A call that is tried again, or whose answer is lost
LEMMA RetryShort ==
  ASSUME JobInv, DoneInv, Short, chain # <<>>, Retry, (doc' = doc /\ lost' = lost) \/ lost' # 0
  PROVE  Short'
<1>1. CASE lost' # 0
  BY <1>1 DEF Short
<1>2. CASE doc' = doc /\ lost' = lost
  <2>1. CASE Fail
    BY <1>2, <2>1, FailShort
  <2>2. CASE ~Fail
    <3>1. UNCHANGED <<plan, runner, chain, cursor, ghost>>
      BY <2>2 DEF Retry
    <3> QED
      BY <1>2, <3>1, LineKeeps, ShortKept DEF runner, ghost
  <2> QED
    BY <2>1, <2>2
<1> QED
  BY <1>1, <1>2

-----------------------------------------------------------------------------
\* runner.ts:283-290: the next repair of the plan, made on a page that lacks text, leaves it behind.
LEMMA RepairShort ==
  ASSUME JobInv, lost = 0, Answered, task.kind = "repair", Own' = <<>>,
         NEW n, n = planIndex, n \in RepairsOf(plan), task.index = n, Advance,
         NEW a \in 0..Len(plan), NEW b \in 0..Len(plan), LackingFrom(a, b)
  PROVE  MendedAt(n)'
<1>1. /\ chain # <<>> /\ Accepted /\ doc' = ApplyRequests(doc, Requests(task)) /\ plan' = plan
      /\ cursor' = NextCursor(task) /\ fixed' = fixed \cup {n}
  BY DEF Answered, Calling, Succeed
<1>2. /\ plan \in Plans /\ n \in 1..Len(plan) /\ Len(plan) \in Nat /\ Floor \in Nat /\ plan[n].kind = "repair"
  BY Known DEF RepairsOf
<1>3. /\ Page = DraftAt(a) /\ a < b /\ b <= n /\ NoRepair(a, b) /\ NoRepair(a, n - 1)
      /\ Len(DraftAt(a)) < Len(DraftAt(b))
  BY DEF LackingFrom
<1>4. n - 1 \in b..Len(plan) /\ NoRepair(b, n - 1)
  <2>1. b # n
    <3> SUFFICES ASSUME b = n PROVE FALSE
      OBVIOUS
    <3>1. n \in (a + 1)..b
      BY <1>2, <1>3
    <3> QED
      BY <1>2, <1>3, <3>1 DEF NoRepair
  <2>2. \A k \in (b + 1)..(n - 1) : k \in (a + 1)..(n - 1)
    BY <1>2, <1>3
  <2> QED
    BY <1>2, <1>3, <2>1, <2>2 DEF NoRepair
<1>5. Len(DraftAt(b)) <= Len(DraftAt(n - 1)) /\ Len(DraftAt(b)) \in Nat /\ Len(DraftAt(n - 1)) \in Nat
  BY <1>2, <1>4, DraftsGrow
<1>6. Page \in Seq(Characters) /\ Len(Page) \in Nat /\ Len(Page) < Len(DraftAt(n - 1))
  <2>1. Page \in Seq(Characters)
    BY <1>2, <1>3, DraftsAre
  <2>2. Len(Page) \in Nat
    BY <2>1
  <2>3. Len(Page) = Len(DraftAt(a))
    BY <1>3
  <2> QED
    BY <1>3, <1>5, <2>1, <2>2, <2>3
<1>7. AimedAt(plan, n) <= Len(Page)
  <2>1. Floor + AimedAt(plan, n) <= cursor /\ AimedAt(plan, n) \in Nat
    BY <1>1, <1>2, HeadIs, RepairIs
  <2>2. cursor = Len(doc) /\ doc = Before \o Page
    BY DEF JobInv, Believed
  <2>3. Len(doc) = Floor + Len(Page)
    BY <1>6, <2>2, BeforeAssumption, PageIs
  <2> QED
    BY <1>2, <1>6, <2>1, <2>2, <2>3
<1>8. NewPage = Abs!Repaired(Page, plan[n]) /\ cursor' = Floor + Len(NewPage)
  BY <1>1, Applied DEF NewPage
<1>9. Len(NewPage) < Len(DraftAt(n)) /\ NewPage \in Seq(Characters)
  BY <1>2, <1>6, <1>7, <1>8, MendedIsShort
<1>10. cursor' - Floor < Len(DraftAt(n))
  <2>1. Len(NewPage) \in Nat
    BY <1>9
  <2>2. PICK m : m = Len(NewPage)
    OBVIOUS
  <2> QED
    BY <1>2, <1>8, <1>9, <2>1, <2>2
<1>11. \/ n < planIndex'
       \/ n = planIndex' /\ n = Len(plan) /\ replay' = "join"
  BY <1>2 DEF Advance
<1>12. (cursor - Floor)' = cursor' - Floor /\ DraftAt(n)' = DraftAt(n) /\ RepairsOf(plan)' = RepairsOf(plan)
  BY <1>1, SamePlan DEF RepairsOf
<1> QED
  BY <1>1, <1>10, <1>11, <1>12 DEF MendedAt, AtWork

\* A call that Google answers
LEMMA AnsweredShort ==
  ASSUME JobInv, DoneInv, Short, Answered
  PROVE  Short'
<1> USE DEF DoneInv
<1>1. /\ chain # <<>> /\ Succeed /\ chain' = Tail(chain) /\ Returns /\ UNCHANGED <<plan, twice, lost>>
      /\ missing' = (IF task.kind = "flush" /\ missing = "lost" THEN "hole" ELSE missing)
  BY DEF Answered, Calling, Succeed, NextCall
<1>2. task.kind \in {"flush", "repair"} /\ Waited(task, replay, loop)
      /\ (task.kind = "repair" => task.by \in {"replay", "tidy"} /\ task.index \in RepairsOf(plan))
  BY <1>1, HeadIs
<1>3. CASE task.kind = "flush"
  BY <1>1, <1>3 DEF Short
<1>4. CASE task.kind = "repair"
  <2> SUFFICES ASSUME lost = 0, ~twice, missing = "lost", replay' # "over" PROVE Short'
    BY <1>1, <1>4 DEF Short
  <2>1. task.by = "replay" /\ replay = "repair" /\ Advance
    BY <1>1, <1>2, <1>4 DEF Returns, Waited
  <2>2. ~ByLoop
    BY <1>4, LineIs
  <2>3. Own' = <<>>
    BY <1>1, <2>2, HeadLeaves
  <2>4. Own # <<>> /\ Head(Own) = task
    BY <1>1, <2>2, HeadIsOwn
  <2>5. \A i : ~MendedAt(i)
    BY <1>4, <2>4 DEF MendedAt
  <2>6. PICK a, b \in 0..Len(plan) : LackingFrom(a, b)
    BY <2>1, <2>5 DEF Short
  <2>7. task.index = planIndex
    BY <1>4, <2>1, <2>4, <2>6 DEF LackingFrom
  <2>8. PICK n : n = planIndex
    OBVIOUS
  <2>9. n \in RepairsOf(plan)
    BY <1>2, <1>4, <2>7, <2>8
  <2>10. MendedAt(n)'
    BY <1>4, <2>1, <2>3, <2>6, <2>7, <2>8, <2>9, RepairShort
  <2> QED
    BY <1>1, <2>9, <2>10 DEF Short, RepairsOf
<1> QED
  BY <1>2, <1>3, <1>4

\* runner.ts and documents.ts: once a batch has been dropped, and until something is typed where it
\* was to go, the page stands at a draft that lacks its text, or at one that lacks it and is mended.
THEOREM ShortInvariant == Spec => []Short
<1>1. Init => Short
  BY DEF Init, Short
<1>2. JobInv /\ DoneInv /\ Short /\ [Next]_vars => Short'
  <2> SUFFICES ASSUME JobInv, DoneInv, Short, [Next]_vars PROVE Short'
    OBVIOUS
  <2>1. CASE TakeEvent \/ Type \/ RestOver \/ SleepAborted \/ Join
    BY <2>1, ReplayShort
  <2>2. CASE LoopWakes \/ LoopAborted \/ RecordFailure \/ Cancel \/ FinalFlush
    BY <2>2, LoopShort
  <2>3. CASE StartRepair \/ TidyUp
    BY <2>3, StartRepairShort, TidyUpShort
  <2>4. CASE Answered
    BY <2>4, AnsweredShort
  <2>5. CASE OutOfRange \/ CallAborted \/ Denied
    BY <2>5, FailShort DEF OutOfRange, CallAborted, Denied, Calling, google
  <2>6. CASE Refused
    BY <2>6, RetryShort DEF Refused, Calling
  <2>7. CASE AnswerLost
    <3>1. chain # <<>> /\ Retry /\ lost' # 0
      BY <2>7, Known DEF AnswerLost, Calling, TypeOK
    <3> QED
      BY <3>1, RetryShort
  <2>8. CASE GetPermit \/ TryAgain
    <3>1. UNCHANGED <<plan, planIndex, replay, doc, chain, cursor, fixed, lost, twice, missing>>
      BY <2>8 DEF GetPermit, TryAgain, runner, google, ghost
    <3> QED
      BY <3>1, LineKeeps, ShortKept
  <2>9. CASE UNCHANGED vars
    <3>1. UNCHANGED <<plan, planIndex, replay, doc, chain, cursor, fixed, lost, twice, missing>>
      BY <2>9 DEF vars, runner, writer, google, ghost
    <3> QED
      BY <3>1, LineKeeps, ShortKept
  <2> QED
    BY <2>1, <2>2, <2>3, <2>4, <2>5, <2>6, <2>7, <2>8, <2>9 DEF Next, Running
<1> QED
  BY <1>1, <1>2, JobInvariant, DoneInvariant, PTL DEF Spec

-----------------------------------------------------------------------------
\* ---- What a job promises

\* TypedDocument, of the page it sees
LEMMA PromiseIs ==
  /\ Abs!Init <=> SeenPage = <<>>
  /\ Abs!Spoil <=> SeenPage' = Spoilt /\ plan' = plan
  /\ Abs!Next <=> SeenPage # Spoilt /\ (Abs!GoOn \/ Abs!Tidy \/ Abs!Spoil)
BY DEF Abs!Init, Abs!Spoil, Abs!Next

\* A page is text, and no text is Spoilt.
LEMMA PageIsText ==
  ASSUME JobInv, ~BeyondPromise
  PROVE  SeenPage = Page /\ Page # Spoilt
BY MistakesAssumption DEF JobInv, Believed, SeenPage

\* The page goes on to a later draft.
LEMMA GoesOn ==
  ASSUME JobInv, plan' = plan, ~BeyondPromise, ~BeyondPromise', NEW x, NEW y, Drafts(x, x, y, y), x < y,
         Page = DraftAt(x), Page' = DraftAt(y)
  PROVE  Abs!Next
<1>1. Len(plan) \in Nat /\ x \in 0..Len(plan) /\ y \in 0..Len(plan)
  BY Known DEF Drafts
<1>2. SeenPage = Page /\ Page # Spoilt /\ SeenPage' = Page'
  BY PageIsText DEF SeenPage
<1>3. PICK m : m = x + 1
  OBVIOUS
<1>4. m \in 1..Len(plan) /\ y \in 1..Len(plan) /\ m <= y /\ m - 1 = x
  BY <1>1, <1>3
<1>5. SeenPage = Abs!Draft(plan, m - 1) /\ SeenPage' = Abs!Draft(plan, y)
  BY <1>2, <1>4 DEF DraftAt
<1>6. Abs!GoOn
  BY <1>4, <1>5 DEF Abs!GoOn, Abs!Events
<1> QED
  BY <1>2, <1>6, PromiseIs

\* A repair is made on the page, in its turn or ahead of it.
LEMMA Corrects ==
  ASSUME JobInv, plan' = plan, ~BeyondPromise, ~BeyondPromise', NEW x \in 0..Len(plan), NEW n \in RepairsOf(plan), x < n,
         NoRepair(x, n - 1), Page = DraftAt(x), AimedAt(plan, n) <= Len(Page), Page' = Abs!Repaired(Page, plan[n])
  PROVE  Abs!Next
<1>1. Len(plan) \in Nat /\ n \in 1..Len(plan) /\ plan[n].kind = "repair"
  BY Known DEF RepairsOf
<1>2. SeenPage = Page /\ Page # Spoilt /\ SeenPage' = Page'
  BY PageIsText DEF SeenPage
<1>3. PICK m : m = x + 1
  OBVIOUS
<1>4. m \in 1..Len(plan) /\ m <= n /\ m - 1 = x
  BY <1>1, <1>3
<1>5. SeenPage = Abs!Draft(plan, m - 1)
  BY <1>2, <1>4 DEF DraftAt
<1>6. \A i \in m..(n - 1) : plan[i].kind # "repair"
  BY <1>3 DEF NoRepair
<1>7. plan[n].offset + plan[n].remove <= Len(SeenPage) /\ SeenPage' = Abs!Repaired(SeenPage, plan[n])
  BY <1>2 DEF AimedAt
<1>8. Abs!Tidy
  BY <1>1, <1>4, <1>5, <1>6, <1>7 DEF Abs!Tidy, Abs!Events
<1> QED
  BY <1>2, <1>8, PromiseIs

\* A batch lands on the page.
LEMMA FlushPromised ==
  ASSUME JobInv, DoneInv, Answered, task.kind = "flush", ~BeyondPromise, ~BeyondPromise'
  PROVE  Abs!Next
<1> USE DEF DoneInv
<1>1. /\ chain # <<>> /\ Accepted /\ doc' = ApplyRequests(doc, Requests(task)) /\ plan' = plan
      /\ missing' = (IF missing = "lost" THEN "hole" ELSE missing)
  BY DEF Answered, Calling, Succeed
<1>2. lost = 0 /\ ~twice /\ missing = "no" /\ plan \in Plans
  <2>1. lost \in Nat /\ missing \in {"no", "lost", "hole"} /\ plan \in Plans
    BY Known DEF TypeOK
  <2> QED
    BY <1>1, <2>1 DEF BeyondPromise
<1>3. replay # "over" \/ ByLoop
  <2>1. ~ByLoop => Own # <<>>
    BY <1>1 DEF Own
  <2> QED
    BY <2>1, LineIs DEF Waiting
<1>4. PICK a, b, c, d : Drafts(a, b, c, d) /\ Via(a, b, c, d)
  <2>1. Coming
    BY <1>1, <1>2 DEF OnTheWay, Corrected
  <2> QED
    BY <2>1 DEF Coming, Drafts
<1>5. a \in 0..Len(plan) /\ b \in 0..Len(plan) /\ c \in 0..Len(plan)
  BY <1>4 DEF Drafts
<1>6. Page' = Page \o TaskText /\ TaskText \in SomeText
  <2>1. Page' = NewPage
    BY <1>1, PageAfter
  <2>2. NewPage = Page \o TaskText
    BY <1>1, <1>2, Applied
  <2> QED
    BY <1>1, <2>1, <2>2, BatchHasText
<1>7. CASE ByLoop
  <2>1. Page = DraftAt(a) /\ Grows(a, b, TaskText)
    BY <1>4, <1>7 DEF Via, LoopText
  <2>2. a < b /\ Page' = DraftAt(b)
    BY <1>2, <1>5, <1>6, <2>1, BehindWithout DEF Grows
  <2> QED
    BY <1>1, <1>5, <2>1, <2>2, GoesOn DEF Drafts
<1>8. CASE ~ByLoop
  <2>1. Own # <<>> /\ Head(Own) = task
    BY <1>1, <1>8, HeadIsOwn
  <2>2. Grows(b, c, TaskText)
    BY <1>4, <2>1 DEF Via, OwnCall, TaskText
  <2>3. Page = DraftAt(b)
    <3>1. Page = DraftAt(a) /\ Grows(a, b, <<>>)
      BY <1>4, <1>8 DEF Via, LoopText
    <3> QED
      BY <1>2, <1>5, <3>1, NothingTyped
  <2>4. b < c /\ Page' = DraftAt(c)
    BY <1>2, <1>5, <1>6, <2>2, <2>3, BehindWithout DEF Grows
  <2> QED
    BY <1>1, <1>5, <2>3, <2>4, GoesOn DEF Drafts
<1> QED
  BY <1>7, <1>8

\* A repair lands on the page.
LEMMA RepairPromised ==
  ASSUME JobInv, DoneInv, Short, Answered, task.kind = "repair", ~BeyondPromise, ~BeyondPromise'
  PROVE  Abs!Next
<1> USE DEF DoneInv
<1>1. chain # <<>> /\ Accepted /\ doc' = ApplyRequests(doc, Requests(task)) /\ plan' = plan
  BY DEF Answered, Calling, Succeed
<1>2. lost = 0 /\ ~twice /\ missing \in {"no", "lost"} /\ plan \in Plans /\ planIndex \in 1..Len(plan) /\ Len(plan) \in Nat
  <2>1. /\ lost \in Nat /\ missing \in {"no", "lost", "hole"}
        /\ plan \in Plans /\ planIndex \in 1..Len(plan) /\ Len(plan) \in Nat
    BY Known DEF TypeOK
  <2> QED
    BY <2>1 DEF BeyondPromise
<1>3. PICK n : n = task.index
  OBVIOUS
<1>4. n \in RepairsOf(plan) /\ n \in 1..Len(plan) /\ Floor + AimedAt(plan, n) <= cursor
      /\ task.by \in {"replay", "tidy"} /\ AimedAt(plan, n) \in Nat
  BY <1>1, <1>2, <1>3, HeadIs, RepairIs
<1>5. ~ByLoop /\ Own # <<>> /\ Head(Own) = task /\ replay \in Waiting
  <2>1. ~ByLoop
    BY LineIs
  <2>2. Own # <<>> /\ Head(Own) = task
    BY <1>1, <2>1, HeadIsOwn
  <2> QED
    BY <2>1, <2>2, LineIs
<1>6. Page' = Abs!Repaired(Page, plan[n]) /\ AimedAt(plan, n) <= Len(Page)
  <2>1. Page' = NewPage
    BY <1>1, PageAfter
  <2>2. cursor = Len(doc) /\ doc = Before \o Page /\ Page \in Seq(Characters)
    BY <1>2 DEF JobInv, Believed
  <2>3. Len(doc) = Floor + Len(Page) /\ Floor \in Nat /\ Len(Page) \in Nat
    BY <2>2, BeforeAssumption, PageIs
  <2>4. AimedAt(plan, n) <= Len(Page)
    BY <1>4, <2>2, <2>3
  <2> QED
    BY <1>3, <2>1, <2>4 DEF NewPage
<1>7. CASE missing = "no"
  <2>1. PICK a, b, c, d : Drafts(a, b, c, d) /\ Via(a, b, c, d)
    BY <1>2, <1>5, <1>7, ComingIs DEF Waiting
  <2>2. a \in 0..Len(plan) /\ b \in 0..Len(plan) /\ c \in 0..Len(plan)
    BY <2>1 DEF Drafts
  <2>3. Page = DraftAt(b)
    <3>1. Page = DraftAt(a) /\ Grows(a, b, <<>>)
      BY <1>5, <2>1 DEF Via, LoopText
    <3> QED
      BY <1>2, <2>2, <3>1, NothingTyped
  <2>4. b < n /\ NoRepair(b, n - 1)
    <3>1. CASE task.by = "replay"
      <4>1. n = planIndex /\ Grows(b, planIndex - 1, <<>>)
        BY <1>3, <1>5, <2>1, <3>1 DEF Via, OwnCall
      <4> QED
        BY <1>2, <2>2, <4>1 DEF Grows
    <3>2. CASE task.by = "tidy"
      BY <1>3, <1>5, <2>1, <3>2 DEF Via, OwnCall
    <3> QED
      BY <1>4, <3>1, <3>2
  <2> QED
    BY <1>1, <1>4, <1>6, <2>2, <2>3, <2>4, Corrects
<1>8. CASE missing = "lost"
  <2>1. \A i : ~MendedAt(i)
    BY <1>5 DEF MendedAt
  <2>2. PICK a, b \in 0..Len(plan) : LackingFrom(a, b)
    BY <1>2, <1>5, <1>8, <2>1 DEF Short, Waiting
  <2>3. Page = DraftAt(a) /\ a < b /\ b <= planIndex /\ planIndex <= n /\ NoRepair(a, n - 1)
    BY <1>3, <1>5, <2>2 DEF LackingFrom
  <2>4. a < n
    BY <1>2, <1>4, <2>2, <2>3
  <2> QED
    BY <1>1, <1>4, <1>6, <2>2, <2>3, <2>4, Corrects
<1> QED
  BY <1>2, <1>7, <1>8

-----------------------------------------------------------------------------
\* Nothing puts a spoilt page right, and only a call that Google answers, or whose answer is lost,
\* changes the document.
LEMMA PageMoves ==
  ASSUME JobInv, Next
  PROVE  /\ plan' = plan /\ (BeyondPromise => BeyondPromise') /\ lost' \in Nat
         /\ Answered \/ (AnswerLost /\ BeyondPromise') \/ doc' = doc
<1>1. lost \in Nat
  BY Known DEF TypeOK
<1>2. CASE TakeEvent \/ Type \/ RestOver \/ StartRepair \/ SleepAborted \/ Join
  BY <1>1, <1>2 DEF TakeEvent, Type, RestOver, StartRepair, SleepAborted, Join, google, ghost, BeyondPromise
<1>3. CASE LoopWakes \/ LoopAborted \/ RecordFailure \/ FinalFlush \/ Cancel
  BY <1>1, <1>3 DEF LoopWakes, LoopAborted, RecordFailure, FinalFlush, Cancel, google, ghost, BeyondPromise
<1>4. CASE TidyUp
  BY <1>1, <1>4 DEF TidyUp, google, BeyondPromise
<1>5. CASE GetPermit \/ TryAgain
  BY <1>1, <1>5 DEF GetPermit, TryAgain, google, ghost, BeyondPromise
<1>6. Fail => UNCHANGED <<plan, twice>> /\ (missing = "hole" => missing' = "hole")
  BY DEF Fail
<1>7. Retry => UNCHANGED <<plan, twice>> /\ (missing = "hole" => missing' = "hole")
  BY <1>6 DEF Retry, ghost
<1>8. CASE OutOfRange \/ CallAborted \/ Denied \/ Refused
  BY <1>1, <1>6, <1>7, <1>8 DEF OutOfRange, CallAborted, Denied, Refused, google, BeyondPromise
<1>9. CASE AnswerLost
  <2>1. lost' = lost + 1 /\ plan' = plan
    BY <1>7, <1>9 DEF AnswerLost
  <2> QED
    BY <1>1, <1>9, <2>1 DEF BeyondPromise
<1>10. CASE Answered
  <2>1. /\ plan' = plan /\ lost' = lost /\ twice' = twice
        /\ missing' = (IF task.kind = "flush" /\ missing = "lost" THEN "hole" ELSE missing)
    BY <1>10 DEF Answered, Succeed
  <2> QED
    BY <1>1, <1>10, <2>1 DEF BeyondPromise
<1> QED
  BY <1>2, <1>3, <1>4, <1>5, <1>8, <1>9, <1>10 DEF Next, Running

\* Each step of a job is a step of what it promises, or none of it.
LEMMA StepPromised ==
  ASSUME JobInv, DoneInv, Short, [Next]_vars
  PROVE  [Abs!Next]_<<plan, SeenPage>>
<1>1. CASE UNCHANGED vars
  BY <1>1 DEF vars, google, ghost, SeenPage, BeyondPromise, Page
<1>2. CASE Next
  <2>1. /\ plan' = plan /\ (BeyondPromise => BeyondPromise')
        /\ Answered \/ (AnswerLost /\ BeyondPromise') \/ doc' = doc
    BY <1>2, PageMoves
  <2>2. CASE BeyondPromise
    BY <2>1, <2>2 DEF SeenPage
  <2>3. CASE ~BeyondPromise /\ BeyondPromise'
    <3>1. SeenPage = Page /\ Page # Spoilt
      BY <2>3, PageIsText
    <3>2. SeenPage' = Spoilt
      BY <2>3 DEF SeenPage
    <3> QED
      BY <2>1, <3>1, <3>2, PromiseIs
  <2>4. CASE ~BeyondPromise /\ ~BeyondPromise' /\ doc' = doc
    <3>1. SeenPage = Page /\ SeenPage' = Page' /\ Page' = Page
      BY <2>4 DEF SeenPage, Page
    <3> QED
      BY <2>1, <3>1
  <2>5. CASE ~BeyondPromise /\ ~BeyondPromise' /\ Answered
    <3>1. task.kind \in {"flush", "repair"}
      BY <2>5, HeadIs DEF Answered, Calling
    <3> QED
      BY <2>5, <3>1, FlushPromised, RepairPromised
  <2> QED
    BY <2>1, <2>2, <2>3, <2>4, <2>5
<1> QED
  BY <1>1, <1>2

\* The page of a new job is empty.
LEMMA StartPromised == ASSUME Init PROVE Abs!Init
<1>1. DoneInv /\ JobInv /\ lost = 0 /\ twice = FALSE /\ missing = "no"
  BY DoneInit, JobInit DEF Init
<1>2. ~BeyondPromise
  BY <1>1 DEF BeyondPromise
<1> QED
  BY <1>2, FreshPage, PromiseIs DEF SeenPage

\* runner.ts and documents.ts: whatever is interleaved, aborted, refused or retried, a job types the plan
\* and nothing else, unless an answer is lost, text follows what was dropped or a repair is made twice.
THEOREM JobsImplementDrafts == Spec => ImplementsDraft
<1>1. Init => Abs!Init
  BY StartPromised
<1>2. JobInv /\ DoneInv /\ Short /\ [Next]_vars => [Abs!Next]_<<plan, SeenPage>>
  BY StepPromised
<1> QED
  BY <1>1, <1>2, JobInvariant, DoneInvariant, ShortInvariant, PTL DEF Spec, ImplementsDraft, Abs!Spec
=============================================================================
