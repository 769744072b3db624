---------------------------- MODULE GoogleTokens ----------------------------
(***************************************************************************)
(* One account's Google tokens: the sign-in callback of auth/passport.ts,  *)
(* the refreshes of auth/googleClient.ts and the three statements of       *)
(* db/users.ts that write them.  Callers overlap: each works from the row *)
(* isAuthenticated read for it.  A refresh token is the consent it came    *)
(* from; an access token is the hour it expires.                           *)
(***************************************************************************)
EXTENDS Integers, FiniteSets

CONSTANTS
  Callers,   \* requests that need a Google client
  Consents,   \* sign-ins
  Life,       \* hours an access token lives
  Skew,       \* REFRESH_SKEW_MS
  Hours       \* the clock stops here

ASSUME TokenAssumption ==
  /\ Consents \in Nat /\ Hours \in Nat \ {0}
  /\ Skew \in Nat \ {0} /\ Life \in Nat /\ Life > Skew

VARIABLES
  hour,
  consented,  \* sign-ins so far
  accepted,   \* refresh tokens Google takes
  signing,    \* the tokens of a sign-in whose upsert has not run
  users,      \* the tokens of the account's row
  held,       \* each request: where it is, the row it read, the tokens of its client
  writes      \* updates of the unawaited 'tokens' events, yet to land

tokenvars == <<hour, consented, accepted, signing, users, held, writes>>

Null == 0
NoTokens == [access |-> Null, refresh |-> Null, expiry |-> Null]
Coalesce(a, b) == IF a # Null THEN a ELSE b

TokenInit ==
  /\ hour = 1 /\ consented = 0 /\ accepted = {}
  /\ signing = {} /\ writes = {}
  /\ users = NoTokens
  /\ held = [r \in Callers |-> [at |-> "start", user |-> NoTokens, client |-> NoTokens]]

-----------------------------------------------------------------------------
(* Google *)

HourPasses ==
  /\ hour < Hours /\ hour' = hour + 1
  /\ UNCHANGED <<consented, accepted, signing, users, held, writes>>

\* A consent brings a refresh token, as a rule.
Consent ==
  /\ consented < Consents /\ consented' = consented + 1
  /\ accepted' = accepted \cup {consented'}
  /\ \E refresh \in {consented', Null} :
       signing' = signing \cup {[access |-> hour + Life, refresh |-> refresh, expiry |-> hour + Life]}
  /\ UNCHANGED <<hour, users, held, writes>>

Revoke ==
  /\ accepted # {} /\ accepted' = {}
  /\ UNCHANGED <<hour, consented, signing, users, held, writes>>

-----------------------------------------------------------------------------
(* users *)

\* Mutant: a sign-in without a refresh token overwrites the stored one.
UpsertAll(row) == users' = row

\* Mutant: an answer without an expiry, as the event may be, keeps the stored one.
UpdateKeepingExpiry(row) ==
  users' = [access |-> row.access, refresh |-> Coalesce(row.refresh, users.refresh),
            expiry |-> Coalesce(users.expiry, row.expiry)]

\* upsertUser's and updateUserTokens' assignments
Update(row) == users' = [row EXCEPT !.refresh = Coalesce(@, users.refresh)]

\* passport.ts: the account is created or its tokens replaced.
Upsert ==
  \E row \in signing :
    /\ signing' = signing \ {row}
    /\ Update(row)
    /\ UNCHANGED <<hour, consented, accepted, held, writes>>

-----------------------------------------------------------------------------
(* authorizeUser *)

Go(r, place) == held' = [held EXCEPT ![r].at = place]
Reads(r, place) == held' = [held EXCEPT ![r] = [@ EXCEPT !.at = place, !.user = users, !.client = users]]

\* isAuthenticated: the row as it is now
ReadUser(r) ==
  /\ held[r].at = "start"
  /\ Reads(r, IF users = NoTokens THEN "reauth" ELSE "read")
  /\ UNCHANGED <<hour, consented, accepted, signing, users, writes>>

NeedsRefresh(user) == user.access = Null \/ user.expiry - hour < Skew

UseStored(r) ==
  /\ held[r].at = "read" /\ ~NeedsRefresh(held[r].user)
  /\ Go(r, "authorized")
  /\ UNCHANGED <<hour, consented, accepted, signing, users, writes>>

AskGoogle(r) ==
  /\ held[r].at = "read" /\ NeedsRefresh(held[r].user)
  /\ Go(r, IF held[r].user.refresh = Null THEN "reauth" ELSE "asking")
  /\ UNCHANGED <<hour, consented, accepted, signing, users, writes>>

\* The library emits 'tokens', whose update nobody waits for, and answers with
\* the new tokens; the refresh token it was asked with may come back with them.
Refreshed(r) ==
  /\ held[r].at = "asking" /\ held[r].user.refresh \in accepted
  /\ \E refresh \in {Null, held[r].user.refresh} :
       LET fresh == [access |-> hour + Life, refresh |-> refresh, expiry |-> hour + Life]
       IN /\ held' = [held EXCEPT ![r].at = "saving", ![r].client = fresh]
          /\ writes' = writes \cup {[fresh EXCEPT !.refresh = Null]}
  /\ UNCHANGED <<hour, consented, accepted, signing, users>>

SaveTokens(r) ==
  /\ held[r].at = "saving"
  /\ Update(held[r].client)
  /\ Go(r, "authorized")
  /\ UNCHANGED <<hour, consented, accepted, signing, writes>>

EventSaved ==
  \E row \in writes :
    /\ writes' = writes \ {row}
    /\ Update(row)
    /\ UNCHANGED <<hour, consented, accepted, signing, held>>

\* An error of any other kind, the save's own too, is the caller's and changes nothing.
RefreshFails(r) ==
  /\ held[r].at \in {"asking", "saving"}
  /\ Go(r, "failed")
  /\ UNCHANGED <<hour, consented, accepted, signing, users, writes>>

\* The errors that count as a dead grant: invalid_grant, and the invalid_request and
\* unauthorized that Google may answer with while it still takes the refresh token.
GrantRefused(r) ==
  /\ held[r].at = "asking"
  /\ Go(r, "clearing")
  /\ UNCHANGED <<hour, consented, accepted, signing, users, writes>>

\* clearUserTokens: of the row as it is now, which a sign-in may have filled again
ClearTokens(r) ==
  /\ held[r].at = "clearing"
  /\ users' = NoTokens
  /\ Go(r, "reauth")
  /\ UNCHANGED <<hour, consented, accepted, signing, writes>>

TokenNext ==
  \/ HourPasses \/ Consent \/ Revoke \/ Upsert \/ EventSaved
  \/ \E r \in Callers :
       ReadUser(r) \/ UseStored(r) \/ AskGoogle(r) \/ Refreshed(r) \/ SaveTokens(r)
         \/ RefreshFails(r) \/ GrantRefused(r) \/ ClearTokens(r)

TokenSpec == TokenInit /\ [][TokenNext]_tokenvars

-----------------------------------------------------------------------------
Ready(r) == held[r].at = "authorized"

TokenTypeOK ==
  /\ hour \in 1..Hours /\ consented \in 0..Consents
  /\ accepted \subseteq 1..Consents
  /\ \A row \in {users} \cup signing \cup writes :
       row.access \in Nat /\ row.expiry \in Nat /\ row.refresh \in 0..Consents
  /\ \A r \in Callers :
       held[r].at \in {"start", "read", "asking", "saving", "clearing", "authorized", "reauth", "failed"}

\* googleClient.ts:66-72, users.ts:59-65: whichever of the awaited and unawaited
\* writes of overlapping refreshes and sign-ins lands last, the row's expiry is
\* that of its access token, so no request trusts a token past its time.
ExpiryIsOfAccess == users.expiry = users.access

\* users.ts:18-21, googleClient.ts:74-80: however refreshes and sign-ins overlap, each
\* loss of the stored refresh token is the clearing by a request that asked Google
\* with a refresh token it had read and was answered with one of the three errors.  A sign-in or a refresh that brings no refresh
\* token takes none away, whatever was read, refused or cleared before it.
RefreshSurvives ==
  [][users.refresh # Null /\ users'.refresh = Null
       => \E r \in Callers : /\ held[r].at = "clearing" /\ held'[r].at = "reauth"
                            /\ held[r].user.refresh # Null]_users
=============================================================================
