---------------------------- MODULE Preferences ----------------------------
(***************************************************************************)
(* The notification switches: optimistic in one tab (setNotificationPrefs  *)
(* of store/useJobStore.ts), patched in the account's row, which may have     *)
(* changed meanwhile (PATCH /me/notifications, updateNotificationPrefs),   *)
(* other tabs too.  Requests overlap, overtake one another and fail before *)
(* or after they did their work.                                           *)
(***************************************************************************)
EXTENDS Integers, FiniteSets

CONSTANTS
  Switches,
  BrowserSwitches,  \* those a browser's permission turns on together
  MaxFlips          \* clicks in this tab

ASSUME PrefAssumption == MaxFlips \in Nat /\ BrowserSwitches \in (SUBSET Switches) \ {{}}

VARIABLES
  prefs,        \* the row's switches
  switches,     \* the tab's copy, user.notifications
  patches,      \* requests of this tab and their answers, not yet back
  flips

prefvars == <<prefs, switches, patches, flips>>

PrefInit ==
  /\ prefs = [s \in Switches |-> FALSE] /\ switches = prefs
  /\ patches = {} /\ flips = 0

\* A copy of the switches with a patch in it; what the patch does not name stays.
Patched(copy, named, on) == [s \in Switches |-> IF s \in named THEN on ELSE copy[s]]

\* setNotificationPrefs: shown at once, the copy before it kept for the way back.
SetPrefs(named, on) ==
  /\ flips < MaxFlips /\ flips' = flips + 1
  /\ switches' = Patched(switches, named, on)
  /\ patches' = patches \cup {[id |-> flips, named |-> named, on |-> on, before |-> switches,
                               at |-> "sent", row |-> switches]}
  /\ UNCHANGED prefs

Flip(s) == SetPrefs({s}, ~switches[s])

\* enableBrowserNotifications, the permission given
EnableBrowser == SetPrefs(BrowserSwitches, TRUE)

Replace(p, q) == patches' = (patches \ {p}) \cup {q}

\* Mutant: the request carries the tab's whole copy.
SavedWhole(p) == Patched(p.before, p.named, p.on)

\* COALESCE, of the row as it is now
Saved(p) == Patched(prefs, p.named, p.on)

\* PATCH /me/notifications answers with the row it made.
Patch ==
  \E p \in patches :
    /\ p.at = "sent"
    /\ prefs' = Saved(p)
    /\ Replace(p, [p EXCEPT !.at = "saved", !.row = prefs'])
    /\ UNCHANGED <<switches, flips>>

\* Another tab's request
FlipElsewhere(s) ==
  /\ prefs' = [prefs EXCEPT ![s] = ~@]
  /\ UNCHANGED <<switches, patches, flips>>

PatchAnswered ==
  \E p \in patches :
    /\ p.at = "saved" /\ patches' = patches \ {p}
    /\ switches' = p.row
    /\ UNCHANGED <<prefs, flips>>

RolledBack(p) == p.before

\* The request or its answer is lost: the switches snap back.
PatchFails ==
  \E p \in patches :
    /\ patches' = patches \ {p}
    /\ switches' = RolledBack(p)
    /\ UNCHANGED <<prefs, flips>>

PrefNext ==
  \/ \E s \in Switches : Flip(s) \/ FlipElsewhere(s)
  \/ EnableBrowser \/ Patch \/ PatchAnswered \/ PatchFails

PrefSpec == PrefInit /\ [][PrefNext]_prefvars

-----------------------------------------------------------------------------
PrefTypeOK ==
  /\ {prefs, switches} \subseteq [Switches -> BOOLEAN]
  /\ flips \in 0..MaxFlips /\ Cardinality(patches) <= flips

\* users.ts:80-87: two tabs that disagree about one switch cannot silently revert
\* another.  However old the copy a click was made on, and whatever answers overtook
\* one another or snapped the switches back since, a request of the tab changes in
\* the row what was clicked, to what it was clicked to, and nothing else.
NoSilentRevert ==
  [][patches' # patches
       => \A s \in Switches : prefs'[s] # prefs[s]
            => \E p \in patches \ patches' : s \in p.named /\ prefs'[s] = p.on]_prefs
=============================================================================
