---------------------------- MODULE MCComponents ----------------------------
(***************************************************************************)
(* Small instances of the components that share no state, checked in one   *)
(* run: `focus` says which of them moves, and the others stay as they      *)
(* begin, in one initial state of theirs.                                  *)
(***************************************************************************)
EXTENDS JobTyping, TypingWindow, RateLimiter, CheckpointGap, HumanPlan, GoogleTokens, JobStream,
        Preferences, Composer, Picker, CreditAmounts, Deployment

VARIABLE focus

\* ---- JobTyping: a document that holds one character, and plans of the shapes
\* humanize makes, each mistake a doubled letter.
Key(char) == [kind |-> "type", char |-> char]
Gap == [kind |-> "rest"]
Doubled(offset, letter) == [kind |-> "repair", offset |-> offset, remove |-> 2, insert |-> <<letter>>]

MCCharacters == {"o", "a", "b", "c", "s", "t"}
MCBefore == <<"o">>

PlainPlan == <<Key("a"), Key("b"), Gap, Key("c")>>

\* No mistake; one found at the next rest, with text after it; one found at the
\* very end, after a rest in between.
MCPlans == {
  PlainPlan,
  <<Key("a"), Key("b"), Key("b"), Gap, Doubled(1, "b"), Key("c")>>,
  <<Key("a"), Key("a"), Gap, Key("b"), Gap, Doubled(0, "a")>>}

\* ---- TypingWindow: two letters, and backspaces that reach past the job's text.
MCSent == <<"s", "t">>
MCKeys == {InsertOp(<<"a">>), InsertOp(<<"b">>), DeleteOp(1), DeleteOp(2), DeleteOp(4)}

\* ---- HumanPlan: paragraphs, a word with a doubled letter, marks run together.
Sentences == <<Word(<<"a", "b">>), Sign(","), Word(<<"c", "d">>), Sign("."), Sign("\n"),
               Sign("\n"), Word(<<"e">>), Sign("."), Sign(".")>>
MCTexts == {
  Sentences,
  <<Word(<<"a", "b", "b">>), Sign(" "), Word(<<"c", "d", "e">>), Sign("\n")>>,
  <<Sign("?"), Word(<<"a">>), Sign(" "), Word(<<"b">>), Sign(" "), Word(<<"c">>)>>}

\* ---- CreditAmounts: rates at which a hundredth buys less than a character, and more.
MCRates == {30, 250, 700}

MCDocs == {"d"}

\* ---- Deployment: no variable set
NoEnv == [production |-> FALSE, secretKey |-> "unset", webhookSecret |-> "unset",
          allowFree |-> "unset", prices |-> [p \in Packs |-> "unset"], required |-> "unset"]

-----------------------------------------------------------------------------
\* The initial state of a component that does not move
AtRest(key) ==
  CASE key = "typing" -> plan = PlainPlan
    [] key = "plan" -> whole = Sentences /\ laboured = FALSE
    [] key = "picker" -> driveGranted = FALSE
    [] key = "amounts" -> rate = 30
    [] key = "deploy" -> env = NoEnv /\ credits = 0
    [] OTHER -> TRUE

Components == {"typing", "window", "limiter", "gap", "plan", "tokens", "stream",
               "prefs", "composer", "picker", "amounts", "deploy"}

ComponentsInit ==
  /\ focus \in Components
  /\ Init
  /\ WindowInit
  /\ LimInit
  /\ GapInit
  /\ PlanInit
  /\ TokenInit
  /\ StreamInit
  /\ PrefInit
  /\ ComposerInit
  /\ PickInit
  /\ AmountsInit
  /\ DeployInit
  /\ \A key \in Components \ {focus} : AtRest(key)

ComponentsNext ==
  /\ focus' = focus
  /\ \/ focus = "typing" /\ Next
        /\ UNCHANGED <<windowvars, limvars, gapvars, planvars, tokenvars, streamvars,
                       prefvars, composervars, pickvars, amountvars, deployvars>>
     \/ focus = "window" /\ WindowNext
        /\ UNCHANGED <<vars, limvars, gapvars, planvars, tokenvars, streamvars,
                       prefvars, composervars, pickvars, amountvars, deployvars>>
     \/ focus = "limiter" /\ LimNext
        /\ UNCHANGED <<vars, windowvars, gapvars, planvars, tokenvars, streamvars,
                       prefvars, composervars, pickvars, amountvars, deployvars>>
     \/ focus = "gap" /\ GapNext
        /\ UNCHANGED <<vars, windowvars, limvars, planvars, tokenvars, streamvars,
                       prefvars, composervars, pickvars, amountvars, deployvars>>
     \/ focus = "plan" /\ PlanNext
        /\ UNCHANGED <<vars, windowvars, limvars, gapvars, tokenvars, streamvars,
                       prefvars, composervars, pickvars, amountvars, deployvars>>
     \/ focus = "tokens" /\ TokenNext
        /\ UNCHANGED <<vars, windowvars, limvars, gapvars, planvars, streamvars,
                       prefvars, composervars, pickvars, amountvars, deployvars>>
     \/ focus = "stream" /\ StreamNext
        /\ UNCHANGED <<vars, windowvars, limvars, gapvars, planvars, tokenvars,
                       prefvars, composervars, pickvars, amountvars, deployvars>>
     \/ focus = "prefs" /\ PrefNext
        /\ UNCHANGED <<vars, windowvars, limvars, gapvars, planvars, tokenvars,
                       streamvars, composervars, pickvars, amountvars, deployvars>>
     \/ focus = "composer" /\ ComposerNext
        /\ UNCHANGED <<vars, windowvars, limvars, gapvars, planvars, tokenvars,
                       streamvars, prefvars, pickvars, amountvars, deployvars>>
     \/ focus = "picker" /\ PickNext
        /\ UNCHANGED <<vars, windowvars, limvars, gapvars, planvars, tokenvars,
                       streamvars, prefvars, composervars, amountvars, deployvars>>
     \/ focus = "amounts" /\ AmountsNext
        /\ UNCHANGED <<vars, windowvars, limvars, gapvars, planvars, tokenvars,
                       streamvars, prefvars, composervars, pickvars, deployvars>>
     \/ focus = "deploy" /\ DeployNext
        /\ UNCHANGED <<vars, windowvars, limvars, gapvars, planvars, tokenvars,
                       streamvars, prefvars, composervars, pickvars, amountvars>>

allvars == <<focus, vars, windowvars, limvars, gapvars, planvars, tokenvars,
             streamvars, prefvars, composervars, pickvars, amountvars, deployvars>>

-----------------------------------------------------------------------------
\* The fairness of FairSpec, GapSpec and PickSpec, each where its component moves.
ComponentsSpec ==
  /\ ComponentsInit /\ [][ComponentsNext]_allvars
  /\ WF_vars(focus = "typing" /\ Running)
  /\ WF_gapvars(focus = "gap" /\ GapStep)
  /\ WF_pickvars(focus = "picker" /\ PickBrowser)

\* The type invariants of all of them
ComponentsTypeOK ==
  /\ TypeOK /\ LimTypeOK /\ GapTypeOK /\ PlanTypeOK /\ TokenTypeOK
  /\ StreamTypeOK /\ PrefTypeOK /\ ComposerTypeOK /\ PickTypeOK /\ DeployTypeOK

\* No run is left waiting, whatever is aborted, fails or is full (runner.ts:233-287);
\* every checkpoint gap ends, whatever Drive does (runner.ts:171-211); and the
\* button of the picker is released although Google says nothing
\* (googlePicker.ts:250-254).
NothingHangs ==
  /\ focus = "typing" => RunEnds
  /\ focus = "gap" => GapsEnd
  /\ ButtonIsReleased

=============================================================================
