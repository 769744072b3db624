------------------------------- MODULE Picker -------------------------------
(***************************************************************************)
(* Choosing a document with Google's chooser: chooseDoc of                 *)
(* store/useJobStore.ts and lib/googlePicker.ts.  A click needs two things *)
(* at once (Promise.all of pickDocument): an access token, for which       *)
(* Google's sign-in script must have loaded, and the picker API, a second  *)
(* script and a load of its own.  Either may fail, and the token request   *)
(* of a click that failed on the other one stays open beside the next      *)
(* click's.  Google may grant, refuse, report a blocked popup, say nothing *)
(* until the timer gives up, or answer after it did.                       *)
(***************************************************************************)
EXTENDS Integers, Sequences

CONSTANTS
  Docs,          \* the documents that can be chosen
  MaxClicks,
  MaxFailures    \* script loads that fail

Scripts == {"gsi", "gapi"}

VARIABLES
  scriptLoads,   \* per script: "absent", "loading", "loaded"
  pickerApi,     \* pickerApiLoaded: "none", "waiting" for the script, "asked", "ready", "rejected"
  clicks,        \* per click its token request: where it stands, was it silent, is Google still to answer
  apiLeg,        \* the latest click's other half: "waiting", "ready", "failed"
  picking,       \* pickerBusy of the latest click: "no", "opening", "open"
  selectedDoc, cachedToken, driveGranted,
  verdict,       \* what Google last said to a request that was waiting: "none", "granted", "refused"
  failures

pickvars == <<scriptLoads, pickerApi, clicks, apiLeg, picking, selectedDoc, cachedToken,
              driveGranted, verdict, failures>>
loadsOfPicker == <<scriptLoads, pickerApi, failures>>
driveGrants == <<cachedToken, driveGranted, verdict>>

PickInit ==
  /\ scriptLoads = [s \in Scripts |-> "absent"] /\ pickerApi = "none"
  /\ clicks = <<>> /\ apiLeg = "waiting" /\ picking = "no"
  /\ selectedDoc = "none" /\ cachedToken = FALSE
  /\ driveGranted \in BOOLEAN            \* from an earlier visit, true or stale
  /\ verdict = "none" /\ failures = 0

Started(s) == IF scriptLoads[s] = "absent" THEN "loading" ELSE scriptLoads[s]

\* loadScript and loadPickerApi share a load in flight, and one that is done.  A
\* promise of loadPickerApi that was rejected by its script is shared as well.
BeginLoads ==
  /\ scriptLoads' = [gsi  |-> IF cachedToken THEN scriptLoads["gsi"] ELSE Started("gsi"),
                     gapi |-> IF pickerApi = "none" THEN Started("gapi") ELSE scriptLoads["gapi"]]
  /\ pickerApi' = IF pickerApi = "none" THEN "waiting" ELSE pickerApi

\* preloadPicker, when the page learns that the picker is configured
Preload ==
  /\ clicks = <<>> /\ scriptLoads["gsi"] = "absent"
  /\ BeginLoads /\ UNCHANGED <<clicks, apiLeg, picking, selectedDoc, driveGrants, failures>>

Click ==
  /\ picking = "no" /\ Len(clicks) < MaxClicks
  /\ picking' = "opening" /\ BeginLoads
  /\ clicks' = Append(clicks, [token |-> IF cachedToken THEN "got" ELSE "script",
                               silent |-> FALSE, due |-> FALSE, afterRefusal |-> FALSE])
  /\ apiLeg' = CASE pickerApi = "ready" -> "ready" [] pickerApi = "rejected" -> "failed"
                 [] OTHER -> "waiting"
  /\ UNCHANGED <<selectedDoc, driveGrants, failures>>

\* onerror: the load is forgotten, and what waits for it is rejected.
ScriptFails(s) ==
  /\ scriptLoads[s] = "loading" /\ failures < MaxFailures /\ failures' = failures + 1
  /\ scriptLoads' = [scriptLoads EXCEPT ![s] = "absent"]
  /\ clicks' = IF s = "gapi" THEN clicks
               ELSE [i \in DOMAIN clicks |->
                       IF clicks[i].token = "script" THEN [clicks[i] EXCEPT !.token = "failed"] ELSE clicks[i]]
  /\ pickerApi' = IF s = "gapi" THEN "rejected" ELSE pickerApi
  /\ apiLeg' = IF s = "gapi" THEN "failed" ELSE apiLeg
  /\ UNCHANGED <<picking, selectedDoc, driveGrants>>

ScriptLoads(s) ==
  /\ scriptLoads[s] = "loading" /\ scriptLoads' = [scriptLoads EXCEPT ![s] = "loaded"]
  /\ UNCHANGED <<pickerApi, failures, clicks, apiLeg, picking, selectedDoc, driveGrants>>

\* api.js is there, and may have left no gapi behind.
AskGapi ==
  /\ pickerApi = "waiting" /\ scriptLoads["gapi"] = "loaded"
  /\ \/ pickerApi' = "asked" /\ UNCHANGED <<apiLeg, failures>>
     \/ failures < MaxFailures /\ failures' = failures + 1 /\ pickerApi' = "none" /\ apiLeg' = "failed"
  /\ UNCHANGED <<scriptLoads, clicks, picking, selectedDoc, driveGrants>>

GapiReady ==
  /\ pickerApi = "asked" /\ pickerApi' = "ready" /\ apiLeg' = "ready"
  /\ UNCHANGED <<scriptLoads, failures, clicks, picking, selectedDoc, driveGrants>>

\* requestAccessToken; the library may be missing although its script ran.
AskToken(i) ==
  /\ clicks[i].token = "script" /\ scriptLoads["gsi"] = "loaded"
  /\ \/ clicks' = [clicks EXCEPT ![i] = [token |-> "asked", silent |-> driveGranted, due |-> TRUE,
                                         afterRefusal |-> verdict = "refused"]]
     \/ clicks' = [clicks EXCEPT ![i].token = "failed"]
  /\ UNCHANGED <<loadsOfPicker, apiLeg, picking, selectedDoc, driveGrants>>

Settle(i, how) == clicks' = [clicks EXCEPT ![i] = [@ EXCEPT !.token = how, !.due = FALSE]]

TokenGranted(i) ==
  /\ clicks[i].due /\ clicks[i].token = "asked" /\ Settle(i, "got")
  /\ cachedToken' = TRUE /\ driveGranted' = TRUE /\ verdict' = "granted"
  /\ UNCHANGED <<loadsOfPicker, apiLeg, picking, selectedDoc>>

\* Mutant: the recorded grant outlives a refusal.
GrantKept == driveGranted

GrantAfterRefusal == FALSE

\* An error answer, or a popup closed without a token
TokenRefused(i) ==
  /\ clicks[i].due /\ clicks[i].token = "asked" /\ Settle(i, "failed")
  /\ driveGranted' = GrantAfterRefusal /\ verdict' = "refused"
  /\ UNCHANGED <<loadsOfPicker, apiLeg, picking, selectedDoc, cachedToken>>

\* popup_failed_to_open says nothing about the grant.
PopupBlocked(i) ==
  /\ clicks[i].due /\ clicks[i].token = "asked" /\ Settle(i, "failed")
  /\ UNCHANGED <<loadsOfPicker, apiLeg, picking, selectedDoc, driveGrants>>

TimesOut(i) ==
  /\ clicks[i].token = "asked" /\ clicks' = [clicks EXCEPT ![i].token = "failed"]
  /\ UNCHANGED <<loadsOfPicker, apiLeg, picking, selectedDoc, driveGrants>>

\* An answer after the request was settled changes nothing.
LateAnswer(i) ==
  /\ clicks[i].due /\ clicks[i].token # "asked" /\ clicks' = [clicks EXCEPT ![i].due = FALSE]
  /\ UNCHANGED <<loadsOfPicker, apiLeg, picking, selectedDoc, driveGrants>>

TokenExpires ==
  /\ cachedToken /\ cachedToken' = FALSE
  /\ UNCHANGED <<loadsOfPicker, clicks, apiLeg, picking, selectedDoc, driveGranted, verdict>>

Latest == clicks[Len(clicks)]

\* The first half to fail ends the click, whatever becomes of the other.
PickFails ==
  /\ picking = "opening" /\ (Latest.token = "failed" \/ apiLeg = "failed") /\ picking' = "no"
  /\ UNCHANGED <<loadsOfPicker, clicks, apiLeg, selectedDoc, driveGrants>>

OpenPicker ==
  /\ picking = "opening" /\ Latest.token = "got" /\ apiLeg = "ready"
  /\ picking' \in {"open", "no"}
  /\ UNCHANGED <<loadsOfPicker, clicks, apiLeg, selectedDoc, driveGrants>>

\* A document, or none: the picker was closed, or what it returned was no document.
Chosen ==
  /\ picking = "open" /\ picking' = "no" /\ selectedDoc' \in Docs \cup {selectedDoc}
  /\ UNCHANGED <<loadsOfPicker, clicks, apiLeg, driveGrants>>

\* Typing a link, or dropping the choice
ClearDoc ==
  /\ selectedDoc # "none" /\ selectedDoc' = "none"
  /\ UNCHANGED <<loadsOfPicker, clicks, apiLeg, picking, driveGrants>>

PickBrowser ==
  \/ \E s \in Scripts : ScriptLoads(s) \/ ScriptFails(s)
  \/ AskGapi \/ GapiReady \/ PickFails \/ OpenPicker
  \/ \E i \in DOMAIN clicks : AskToken(i) \/ TimesOut(i)

PickNext ==
  \/ PickBrowser
  \/ Preload \/ Click \/ Chosen \/ ClearDoc \/ TokenExpires
  \/ \E i \in DOMAIN clicks : TokenGranted(i) \/ TokenRefused(i) \/ PopupBlocked(i) \/ LateAnswer(i)

-----------------------------------------------------------------------------
\* A script loads or fails, gapi.load calls back, timers fire: the browser's part.
\* Google owes no answer to a token request, and the user owes no choice.
PickFairness == WF_pickvars(PickBrowser)

PickSpec == PickInit /\ [][PickNext]_pickvars /\ PickFairness

PickTypeOK ==
  /\ scriptLoads \in [Scripts -> {"absent", "loading", "loaded"}]
  /\ pickerApi \in {"none", "waiting", "asked", "ready", "rejected"}
  /\ \A i \in DOMAIN clicks : clicks[i].token \in {"script", "asked", "got", "failed"}
  /\ selectedDoc \in Docs \cup {"none"} /\ cachedToken \in BOOLEAN

\* googlePicker.ts:226-237 and 283: after Google refused, the next request lets it ask
\* properly, also when requests of several clicks are open at once; a suppressed
\* prompt would close with nothing, every time.
RefusedIsAskedAgain ==
  \A i \in DOMAIN clicks : clicks[i].afterRefusal => ~clicks[i].silent

\* googlePicker.ts:250-254: the button never stays disabled because Google says
\* nothing: a click gets as far as an open picker or is released.
ButtonIsReleased == picking = "opening" ~> picking # "opening"
=============================================================================
