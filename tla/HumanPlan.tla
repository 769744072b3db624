----------------------------- MODULE HumanPlan -----------------------------
(***************************************************************************)
(* The planner of jobs/humanize.ts: a text becomes a plan of keys, pauses  *)
(* and repairs.  Which letters a mistake swaps, when the planner stops and *)
(* for how long are drawn at random by the code and chosen here; times are *)
(* in units of one keystroke.  A character is one UTF-16 unit.  The        *)
(* hesitations inside a word, short pauses between two keys, are left out. *)
(***************************************************************************)
EXTENDS Integers, Sequences, SequencesExt, FiniteSetsExt, Functions

CONSTANTS
  Texts,          \* what jobs type: sequences of words and marks
  MinChunk, MaxChunk,
  StallAfter,     \* characters of a burst before its stall may come
  TypoLength,     \* letters of a word that may get a mistake
  RestTimes, StallTimes, ThinkTimes,
  CheckpointFloor,         \* checkpointFloor
  CorrectionGap,
  Targets         \* targetDurationMs; 0 for none

ASSUME PlanAssumption ==
  /\ {MinChunk, StallAfter, TypoLength, CorrectionGap} \subseteq Nat \ {0}
  /\ MaxChunk >= MinChunk
  /\ RestTimes \cup StallTimes \cup ThinkTimes \cup {CheckpointFloor} \subseteq Nat \ {0}
  /\ Targets \subseteq Nat

\* What is typed: the characters of the texts, and the neighbouring key of any of them.
Alphabet == {"*"} \cup UNION {UNION {Range(t[i].chars) : i \in DOMAIN t} : t \in Texts}

\* tokenize: a piece is a word, or a mark of one character.
ASSUME TextsAssumption ==
  \A t \in Texts :
    /\ t \in Seq([word : BOOLEAN, chars : Seq(Alphabet)])
    /\ \A i \in DOMAIN t : Len(t[i].chars) > 0 /\ (~t[i].word => Len(t[i].chars) = 1)

VARIABLES
  whole,     \* the text
  tokens,    \* what is left of it
  script,    \* the events emitted
  written,   \* writtenLength
  burst,     \* charsThisChunk
  spent,     \* elapsedMs
  laboured, stallOwed,
  mistake,   \* pendingTypo: a sequence of at most one
  wrongKeys, \* where in the script each mistake was typed
  target,    \* what the plan was stretched to, 0 before
  stage      \* of humanize()

draft == <<script, written, burst, spent>>
mood == <<laboured, stallOwed>>
intent == <<whole, target>>
planvars == <<intent, tokens, draft, mood, mistake, wrongKeys, stage>>

Word(s) == [word |-> TRUE, chars |-> s]
Sign(c) == [word |-> FALSE, chars |-> <<c>>]

Stroke(c) == [type |-> "type", char |-> c, ms |-> 1]
Still(ms) == [type |-> "pause", ms |-> ms, rest |-> FALSE, floor |-> 0]
Stalled(ms) == [Still(ms) EXCEPT !.floor = Min({CheckpointFloor, ms})]
Rested(ms) == [Still(ms) EXCEPT !.rest = TRUE, !.floor = CheckpointFloor]
Fixing(m) == [type |-> "repair", offset |-> m.offset, remove |-> m.remove, insert |-> m.insert, ms |-> 1]

IsPause(e) == e.type = "pause"
Strokes(s) == [i \in DOMAIN s |-> Stroke(s[i])]
Later(n, e) == n + e.ms
Lasting(events) == FoldLeft(Later, 0, events)

\* What the document gains by an event, netCharCount
Longer(n, e) ==
  CASE e.type = "type" -> n + 1
    [] e.type = "repair" -> n + Len(e.insert) - e.remove
    [] OTHER -> n
Net(events) == FoldLeft(Longer, 0, events)

-----------------------------------------------------------------------------
\* emitChar, emitString, emitPause: what one step adds to the plan.
Appended(events, chars) ==
  /\ script' = script \o events
  /\ written' = written + Net(events)
  /\ burst' = chars
  /\ spent' = spent + Lasting(events)

\* A pause or none.
Maybe(times) == {<<>>} \cup {<<Still(t)>> : t \in times}

Typed(s) == Appended(Strokes(s), burst + Len(s))

PlanInit ==
  /\ whole \in Texts /\ tokens = whole
  /\ script = <<>> /\ written = 0 /\ burst = 0 /\ spent = 0
  /\ laboured \in BOOLEAN /\ stallOwed = laboured
  /\ mistake = <<>> /\ wrongKeys = <<>>
  /\ target = 0 /\ stage = "next"

\* Mutant: a mistake is fixed at the first rest, however short.
TopUpNothing(fixing, before, duration) == duration

\* The rest that fixes a mistake is as long as the mistake still has to be seen.
TopUp(fixing, before, duration) ==
  IF fixing /\ CorrectionGap > spent + before - mistake[1].madeAt + duration
    THEN CorrectionGap - (spent + before - mistake[1].madeAt)
    ELSE duration

\* Mutant: writtenLength forgets what the repair did.
WrittenUnrepaired(events) == written + Len(SelectSeq(events, LAMBDA e : e.type = "type"))

WrittenAfter(events) == written + Net(events)

\* emitRest and repairPendingTypo, after the keys and pauses of this step
RestAfter(events, force) ==
  LET fixing == mistake # <<>> /\ (force \/ mistake[1].rests <= 1)
      before == Lasting(events)
      cut == IF fixing THEN <<Fixing(mistake[1])>> ELSE <<>>
  IN \E t \in RestTimes :
       LET all == events \o <<Rested(TopUp(fixing, before, t))>> \o cut
       IN /\ script' = script \o all
          /\ written' = WrittenAfter(all)
          /\ burst' = 0
          /\ spent' = spent + Lasting(all)
          /\ laboured' \in BOOLEAN /\ stallOwed' = laboured'
          /\ mistake' = IF fixing THEN <<>>
                        ELSE [i \in DOMAIN mistake |-> [mistake[i] EXCEPT !.rests = @ - 1]]

Piece == Head(tokens)
Taken == tokens' = Tail(tokens)
AtWord == stage = "next" /\ tokens # <<>> /\ Piece.word
AtMark == stage = "next" /\ tokens # <<>> /\ ~Piece.word
Char == Piece.chars[1]

-----------------------------------------------------------------------------
(* Words *)

\* A burst never runs past its ceiling; break at the word boundary.
BreakBurst ==
  /\ AtWord /\ burst >= MaxChunk
  /\ RestAfter(<<>>, FALSE)
  /\ stage' = "word"
  /\ UNCHANGED <<intent, tokens, wrongKeys>>

NoBreak ==
  /\ AtWord /\ burst < MaxChunk
  /\ stage' = "word"
  /\ UNCHANGED <<intent, tokens, draft, mood, mistake, wrongKeys>>

LastChance == 10 * burst >= 8 * MinChunk

\* The stall the burst owes, and the thinking before a word of a laboured one.
BeforeWord ==
  /\ stage = "word" /\ stage' = "keys"
  /\ \E stall \in {<<>>} \cup {<<Stalled(t)>> : t \in StallTimes},
        think \in Maybe(ThinkTimes) :
       /\ stall # <<>> => stallOwed /\ burst >= StallAfter
       /\ stallOwed /\ burst >= StallAfter /\ LastChance => stall # <<>>
       /\ think # <<>> => laboured /\ burst > 0
       /\ stallOwed' = (stallOwed /\ stall = <<>>)
       /\ Appended(stall \o think, burst)
  /\ UNCHANGED <<intent, tokens, laboured, mistake, wrongKeys>>

TypeWord ==
  /\ stage = "keys" /\ stage' = "next" /\ Taken
  /\ Typed(Piece.chars)
  /\ UNCHANGED <<intent, mood, mistake, wrongKeys>>

\* planTypo: a key that bounces, a neighbouring key, the next letter first.
Mistakes(w) ==
  LET at(i, n, wrong) == [at |-> i, consumed |-> n, wrong |-> wrong]
  IN UNION {  {at(i, 1, <<w[i], w[i]>>), at(i, 1, <<"*">>)}
       \cup (IF i < Len(w) /\ w[i] # w[i + 1] THEN {at(i, 2, <<w[i + 1], w[i]>>)} ELSE {})
            : i \in 2..Len(w) }

CanFumble == mistake = <<>> /\ Len(Piece.chars) >= TypoLength

\* typeWord with a mistake: up to it, the wrong keys, a stumble, the rest of the word
FumbleWord ==
  /\ stage = "keys" /\ CanFumble /\ stage' = "next" /\ Taken
  /\ \E m \in Mistakes(Piece.chars), waits \in 1..2 :
       LET w == Piece.chars
           upTo == SubSeq(w, 1, m.at - 1) \o m.wrong
           after == SubSeq(w, m.at + m.consumed, Len(w))
       IN /\ Appended(Strokes(upTo) \o <<Still(1)>> \o Strokes(after), burst + Len(upTo \o after))
          /\ wrongKeys' = Append(wrongKeys, Len(script) + Len(upTo))
          /\ mistake' = <<[offset |-> written + m.at - 1, remove |-> Len(m.wrong),
                           insert |-> SubSeq(w, m.at, m.at + m.consumed - 1),
                           madeAt |-> spent + Len(upTo) + 1, rests |-> waits]>>
  /\ UNCHANGED <<intent, mood>>

-----------------------------------------------------------------------------
(* Marks: typePunctuation *)

Enders == {".", "!", "?"}
Clauses == {",", ";", ":"}
EndsSentence == Char \in Enders /\ ~(Len(tokens) > 1 /\ tokens[2].chars[1] \in Enders)

\* A run of line breaks at the head of what is left
BreakRun == Max({n \in 1..Len(tokens) : \A i \in 1..n : tokens[i] = Sign("\n")})

TypeMark ==
  /\ AtMark /\ Char \notin Clauses \cup {"\n"} /\ ~EndsSentence
  /\ Typed(<<Char>>) /\ Taken
  /\ UNCHANGED <<intent, mood, mistake, wrongKeys, stage>>

TypeClause ==
  /\ AtMark /\ Char \in Clauses /\ Taken
  /\ \E think \in Maybe(ThinkTimes) :
       Appended(<<Stroke(Char), Still(1)>> \o think, burst + 1)
  /\ UNCHANGED <<intent, mood, mistake, wrongKeys, stage>>

\* The end of a sentence is the natural seam between bursts,
EndSentence ==
  /\ AtMark /\ EndsSentence /\ burst + 1 >= MinChunk /\ Taken
  /\ RestAfter(<<Stroke(Char), Still(1)>>, FALSE)
  /\ UNCHANGED <<intent, wrongKeys, stage>>

\* once the burst is long enough.
EndShortSentence ==
  /\ AtMark /\ EndsSentence /\ burst + 1 < MinChunk /\ Taken
  /\ \E think \in Maybe(ThinkTimes) :
       /\ think # <<>> => laboured
       /\ Appended(<<Stroke(Char), Still(1)>> \o think, burst + 1)
  /\ UNCHANGED <<intent, mood, mistake, wrongKeys, stage>>

Breaks == Strokes([i \in 1..BreakRun |-> "\n"]) \o <<Still(1)>>
Skipped == tokens' = SubSeq(tokens, BreakRun + 1, Len(tokens))

\* A paragraph break is the most natural place to walk away.
EndParagraph ==
  /\ AtMark /\ Char = "\n" /\ BreakRun >= 2 /\ burst + BreakRun >= MinChunk /\ Skipped
  /\ RestAfter(Breaks, FALSE)
  /\ UNCHANGED <<intent, wrongKeys, stage>>

BreakLine ==
  /\ AtMark /\ Char = "\n" /\ ~(BreakRun >= 2 /\ burst + BreakRun >= MinChunk) /\ Skipped
  /\ Appended(Breaks, burst + BreakRun)
  /\ UNCHANGED <<intent, mood, mistake, wrongKeys, stage>>

-----------------------------------------------------------------------------
(* The end of the plan *)

\* A mistake made in the last burst still has to be found.
LastLook ==
  /\ stage = "next" /\ tokens = <<>> /\ stage' = "trim"
  /\ IF mistake # <<>> THEN RestAfter(<<>>, TRUE) ELSE UNCHANGED <<draft, mood, mistake>>
  /\ UNCHANGED <<intent, tokens, wrongKeys>>

Trimmed == SubSeq(script, 1, Max({0} \cup {i \in DOMAIN script : ~IsPause(script[i])}))

Trim ==
  /\ stage = "trim" /\ stage' = "stretch"
  /\ script' = Trimmed
  /\ UNCHANGED <<intent, tokens, written, burst, spent, mood, mistake, wrongKeys>>

Rests == {i \in DOMAIN script : IsPause(script[i]) /\ script[i].rest}
Rounded(a, b) == (2 * a + b) \div (2 * b)

\* Mutant: only the rests lose their mark.
FloorKeptAfter(i) == IF script[i].rest THEN 0 ELSE script[i].floor

FloorAfter(i) == 0

\* A weight for each rest, between a half and one and a half, and none for what is no rest
Weights == {[i \in DOMAIN script |-> IF i \in Rests THEN w[i] ELSE 0] : w \in [Rests -> 1..2]}
Plus(a, b) == a + b

\* applyTargetDuration: the rests share what is missing by their weights, and no
\* gap of the plan may be cut short any more.
Stretched(ms) ==
  LET extra == ms - Lasting(script)
  IN /\ extra > 0 /\ Rests # {} /\ target' = ms
     /\ \E weight \in Weights :
          LET share(i) == Rounded(extra * weight[i], FoldLeft(Plus, 0, weight))
          IN script' = [i \in DOMAIN script |->
               IF IsPause(script[i]) THEN [script[i] EXCEPT !.floor = FloorAfter(i), !.ms = @ + share(i)]
               ELSE script[i]]

Stretch ==
  /\ stage = "stretch" /\ stage' = "done"
  /\ \E ms \in Targets :
       \/ Stretched(ms)
       \/ (ms <= Lasting(script) \/ Rests = {}) /\ UNCHANGED <<script, target>>
  /\ UNCHANGED <<whole, tokens, written, burst, spent, mood, mistake, wrongKeys>>

PlanNext ==
  \/ BreakBurst \/ NoBreak \/ BeforeWord \/ TypeWord \/ FumbleWord
  \/ TypeMark \/ TypeClause \/ EndSentence \/ EndShortSentence \/ EndParagraph \/ BreakLine
  \/ LastLook \/ Trim \/ Stretch

PlanSpec == PlanInit /\ [][PlanNext]_planvars

-----------------------------------------------------------------------------
\* The document after an event, and after the plan so far
Played(page, e) ==
  CASE e.type = "type" -> Append(page, e.char)
    [] e.type = "pause" -> page
    [] e.type = "repair" -> SubSeq(page, 1, e.offset) \o e.insert
                              \o SubSeq(page, e.offset + e.remove + 1, Len(page))
PageTyped == FoldLeft(Played, <<>>, script)

Spelt(text, piece) == text \o piece.chars
TextOf(pieces) == FoldLeft(Spelt, <<>>, pieces)
TextSoFar == TextOf(SubSeq(whole, 1, Len(whole) - Len(tokens)))

PlanTypeOK ==
  /\ whole \in Texts
  /\ {written, burst, spent, target} \subseteq Nat
  /\ {laboured, stallOwed} \subseteq BOOLEAN /\ (stallOwed => laboured)
  /\ Len(mistake) <= 1
  /\ stage \in {"next", "word", "keys", "trim", "stretch", "done"}

Repairs == {i \in DOMAIN script : script[i].type = "repair"}

\* humanize.ts:478-488, 598-602, 662: the plan so far, its outstanding mistake put
\* right, leaves exactly the text so far, and the length the offsets are computed
\* from is the document's: no earlier repair, shortening or not, shifts a later
\* one, and no mistake outlives the plan.  A repair is of text that is there, all
\* of it typed after the repair before, which is what JobTyping assumes of plans.
PageIsDraft ==
  /\ written = Len(PageTyped) /\ written = Net(script)
  /\ TextSoFar = IF mistake = <<>> THEN PageTyped ELSE Played(PageTyped, Fixing(mistake[1]))
  /\ stage = "done" => mistake = <<>>
  /\ LET lengthAfter(n) == Net(SubSeq(script, 1, n))
     IN \A i \in Repairs :
          /\ script[i].offset + script[i].remove <= lengthAfter(i - 1)
          /\ \A h \in Repairs : h < i => lengthAfter(h) <= script[i].offset

\* humanize.ts:149-165: from the wrong keys to their repair a mistake is on the
\* page for the correction gap, through every rest it waits, in the stretched
\* plan too.
MistakesAreSeen ==
  \A i \in Repairs :
    LET typedAt == wrongKeys[Cardinality({j \in Repairs : j <= i})]
    IN Lasting(SubSeq(script, typedAt + 1, i - 1)) >= CorrectionGap

\* humanize.ts:604-608, 789-791, 808-814: a finished plan has nothing to wait for
\* after its last key, and a stretched one lasts what was asked for, but for the
\* rounding of its rests, and leaves the runner no gap to cut short.
PlanEndsOnTime ==
  /\ stage \in {"stretch", "done"} /\ script # <<>> => ~IsPause(Last(script))
  /\ target # 0 =>
       LET off == 2 * (Lasting(script) - target)
       IN /\ off <= Cardinality(Rests) /\ -off <= Cardinality(Rests)
          /\ \A i \in DOMAIN script : IsPause(script[i]) => script[i].floor = 0
=============================================================================
