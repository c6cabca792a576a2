------------------------------ MODULE Accounts ------------------------------
(***************************************************************************)
(* Who may use the console: the OIDC login (auth/routes.py, auth/oidc.py), *)
(* the accounts it provisions (auth/provisioning.py), the session a cookie *)
(* carries (auth/session.py, auth/dependencies.py) and the administrators' *)
(* changes to accounts (users/routes.py).                                  *)
(*                                                                         *)
(* A tab is one request at a time, served by any replica; its coroutine    *)
(* gives way at every await and its transaction at every statement.  The   *)
(* provider rotates its signing keys meanwhile.  The JWKS cache is the     *)
(* process's, shared by its coroutines.                                    *)
(***************************************************************************)
EXTENDS Naturals, FiniteSets

CONSTANTS
  Subject,        \* OIDC subjects
  Seeds,          \* the bootstrap identities, by subject and by verified email
  Tab,            \* browser tabs
  MaxSigningKey,  \* bound on the provider's key rotations
  MaxLogin,       \* bound on logins begun
  MaxPatch        \* bound on account changes begun

ASSUME AccountsAssumption ==
  /\ Seeds \subseteq Subject /\ Seeds # {}
  /\ MaxSigningKey \in Nat \ {0} /\ MaxLogin \in Nat /\ MaxPatch \in Nat

Role == {"viewer", "analyst", "admin"}
NoAccount == [role |-> "none", disabled |-> FALSE]
Account == [role : Role \cup {"none"}, disabled : BOOLEAN]

\* A PATCH of an account: either field may be left alone.
Change == [role : Role \cup {"same"}, disabled : {"yes", "no", "same"}]
NoChange == [role |-> "same", disabled |-> "same"]

VARIABLES
  accounts,    \* [Subject -> Account], the user rows
  decided,     \* [Subject -> Account], as created or as an administrator last decided
  sessions,    \* subjects holding an unexpired session cookie
  signingKey,  \* the key the provider signs with
  jwks,        \* the cached key set, {} if none is cached
  login,       \* [Tab -> the login under way]
  patch,       \* [Tab -> the account change under way]
  lost,        \* why logins that should have succeeded failed
  begun        \* logins and patches begun

accVars == <<accounts, decided, sessions, signingKey, jwks, login, patch, lost, begun>>

Somebody == CHOOSE s \in Subject : TRUE
NoLogin == [step |-> "idle", who |-> Somebody, key |-> 0, doc |-> {},
            refetched |-> FALSE, row |-> NoAccount, again |-> FALSE]
NoPatch == [step |-> "idle", by |-> Somebody, on |-> Somebody, change |-> NoChange,
            row |-> NoAccount, locks |-> {}]

AccountsInit ==
  /\ accounts = [s \in Subject |-> NoAccount]
  /\ decided = [s \in Subject |-> NoAccount]
  /\ sessions = {}
  /\ signingKey = 1
  /\ jwks = {}
  /\ login = [t \in Tab |-> NoLogin]
  /\ patch = [t \in Tab |-> NoPatch]
  /\ lost = {}
  /\ begun = [logins |-> 0, patches |-> 0]

TabFree(t) == login[t].step = "idle" /\ patch[t].step = "idle"
LockedByOther(t) == UNION {patch[u].locks : u \in Tab \ {t}}

----------------------------------------------------------------------------
\* Logging in.

IssueLoginState(s) == [NoLogin EXCEPT !.step = "away", !.who = s]

\* GET /auth/login, let through by the rate limit: the state, nonce and verifier go
\* into the login cookie and the browser goes to the provider.
LoginBegins(t, s) ==
  /\ TabFree(t)
  /\ begun.logins < MaxLogin
  /\ begun' = [begun EXCEPT !.logins = @ + 1]
  /\ login' = [login EXCEPT ![t] = IssueLoginState(s)]
  /\ UNCHANGED <<accounts, decided, sessions, signingKey, jwks, patch, lost>>

LoginEnds(t) ==
  /\ login[t].step = "away"
  /\ login' = [login EXCEPT ![t] = NoLogin]
  /\ UNCHANGED <<accounts, decided, sessions, signingKey, jwks, patch, lost, begun>>

\* Before the handler: the address has used up its window.
RateLimitRefuses(t) == LoginEnds(t)

\* The login cookie is missing, expired or forged, or its state is another login's.
LoginStateRefused(t) == LoginEnds(t)

\* The provider declined, or the exchange failed.
CallbackRefused(t) == LoginEnds(t)

\* exchange_code: the token is signed with the key of the moment.
CodeExchanged(t) ==
  /\ login[t].step = "away"
  /\ login' = [login EXCEPT ![t].step = "check", ![t].key = signingKey]
  /\ UNCHANGED <<accounts, decided, sessions, signingKey, jwks, patch, lost, begun>>

\* The provider publishes the key it signs with and the one before.
Published == {k \in 1..MaxSigningKey : k = signingKey \/ k + 1 = signingKey}

ProviderRotates ==
  /\ signingKey < MaxSigningKey
  /\ signingKey' = signingKey + 1
  /\ UNCHANGED <<accounts, decided, sessions, jwks, login, patch, lost, begun>>

\* Faulty variant: the cached key set is trusted to hold every key.
NeverRefetches(l) == FALSE
\* A key set without the token's key is dropped and fetched again, once.
Refetches(l) == ~l.refetched

\* What _signing_key does with the key set it holds.
Looked(l, held) ==
  IF l.key \in held THEN [l EXCEPT !.step = "verified", !.doc = {}]
  ELSE IF Refetches(l) THEN [l EXCEPT !.step = "fetch", !.doc = {}, !.refetched = TRUE]
  ELSE NoLogin

KeyLookup(t) ==
  /\ login[t].step = "check"
  /\ IF jwks = {}
     THEN login' = [login EXCEPT ![t].step = "fetch"] /\ UNCHANGED <<jwks, lost>>
     ELSE LET next == Looked(login[t], jwks)
          IN /\ login' = [login EXCEPT ![t] = next]
             /\ jwks' = IF next.step = "fetch" THEN {} ELSE jwks
             /\ lost' = IF next = NoLogin THEN lost \cup {"key"} ELSE lost
  /\ UNCHANGED <<accounts, decided, sessions, signingKey, patch, begun>>

\* The provider answers, and later the coroutine resumes and caches the answer,
\* over whatever another coroutine has cached since.
KeysAnswered(t) ==
  /\ login[t].step = "fetch" /\ login[t].doc = {}
  /\ login' = [login EXCEPT ![t].doc = Published]
  /\ UNCHANGED <<accounts, decided, sessions, signingKey, jwks, patch, lost, begun>>

KeysArrive(t) ==
  /\ login[t].step = "fetch" /\ login[t].doc # {}
  /\ LET next == Looked(login[t], login[t].doc)
     IN /\ login' = [login EXCEPT ![t] = next]
        /\ jwks' = IF next.step = "fetch" THEN {} ELSE login[t].doc
        /\ lost' = IF next = NoLogin /\ login[t].key \in Published THEN lost \cup {"key"}
                   ELSE lost
  /\ UNCHANGED <<accounts, decided, sessions, signingKey, patch, begun>>

----------------------------------------------------------------------------
\* Provisioning, and the session.

InitialRole(s) == IF s \in Seeds THEN "admin" ELSE "viewer"

\* Faulty variant: every login assigns the default role anew.
RoleReset(stored, loaded) == [stored EXCEPT !.role = "viewer"]
\* An update writes the profile and the login date, the columns it changed.
Renewed(stored, loaded) == stored

ProvisionReads(t) ==
  /\ login[t].step = "verified"
  /\ LET row == accounts[login[t].who]
     IN login' = [login EXCEPT ![t] = IF row.disabled THEN NoLogin      \* AccountDisabled
                                      ELSE [@ EXCEPT !.step = "read", !.row = row]]
  /\ UNCHANGED <<accounts, decided, sessions, signingKey, jwks, patch, lost, begun>>

\* The insert of a subject another tab has just created is refused; the handler
\* rolls back and provisions once more.
ProvisionsAgain(l) == ~l.again

IssueSession(s) == sessions' = sessions \cup {s}

ProvisionCommits(t) ==
  LET l == login[t]
      s == l.who
      raced == l.row = NoAccount /\ accounts[s] # NoAccount
      created == [role |-> InitialRole(s), disabled |-> FALSE]
  IN /\ l.step = "read"
     /\ s \notin LockedByOther(t)
     /\ IF raced
        THEN /\ login' = [login EXCEPT ![t] = IF ProvisionsAgain(l)
                                              THEN [l EXCEPT !.step = "verified", !.again = TRUE]
                                              ELSE NoLogin]
             /\ lost' = IF ProvisionsAgain(l) THEN lost ELSE lost \cup {"race"}
             /\ UNCHANGED <<accounts, decided, sessions>>
        ELSE /\ login' = [login EXCEPT ![t] = NoLogin]
             /\ IF l.row = NoAccount
                THEN /\ accounts' = [accounts EXCEPT ![s] = created]
                     /\ decided' = [decided EXCEPT ![s] = created]
                ELSE /\ accounts' = [accounts EXCEPT ![s] = Renewed(@, l.row)]
                     /\ UNCHANGED decided
             /\ IssueSession(s)
             /\ UNCHANGED lost
     /\ UNCHANGED <<signingKey, jwks, patch, begun>>

Logout(s) ==
  /\ s \in sessions
  /\ sessions' = sessions \ {s}
  /\ UNCHANGED <<accounts, decided, signingKey, jwks, login, patch, lost, begun>>

\* A cookie past its lifetime is no session, and a new signing secret ends them all.
SessionExpires(gone) ==
  /\ gone # {} /\ gone \subseteq sessions
  /\ sessions' = sessions \ gone
  /\ UNCHANGED <<accounts, decided, signingKey, jwks, login, patch, lost, begun>>

----------------------------------------------------------------------------
\* PATCH /users/{id}.

\* The session names the user and the row says whether it may: enabled and ranked
\* an administrator.
Admitted(s) == s \in sessions /\ accounts[s].role = "admin" /\ ~accounts[s].disabled

PatchBegins(t, by, on, change) ==
  /\ TabFree(t)
  /\ begun.patches < MaxPatch
  /\ Admitted(by)
  /\ on # by /\ accounts[on] # NoAccount
  /\ begun' = [begun EXCEPT !.patches = @ + 1]
  /\ patch' = [patch EXCEPT ![t] = [NoPatch EXCEPT !.step = "loaded", !.by = by, !.on = on,
                                                   !.change = change, !.row = accounts[on]]]
  /\ UNCHANGED <<accounts, decided, sessions, signingKey, jwks, login, lost>>

\* _guard_last_admin looks further only for a change that takes an administrator away,
\* judged on the row as it was loaded.
Removes(p) == /\ p.row.role = "admin"
              /\ p.change.role \in Role \ {"admin"} \/ p.change.disabled = "yes"

Admins == {s \in Subject : accounts[s].role = "admin"}

\* The locking read is filtered by what is stored, but the caller's own row is in
\* the session already and keeps the attributes it was loaded with: enabled.
OthersEnabled(p) == {s \in Admins \ {p.on} : s = p.by \/ ~accounts[s].disabled}

PatchGuard(t) ==
  LET p == patch[t] IN
  /\ p.step = "loaded"
  /\ IF ~Removes(p) THEN patch' = [patch EXCEPT ![t].step = "checked"]
     ELSE /\ Admins \cap LockedByOther(t) = {}             \* FOR UPDATE waits
          /\ patch' = [patch EXCEPT ![t] = IF OthersEnabled(p) = {} THEN NoPatch     \* 409
                                           ELSE [p EXCEPT !.step = "checked", !.locks = Admins]]
  /\ UNCHANGED <<accounts, decided, sessions, signingKey, jwks, login, lost, begun>>

\* Only a column that differs from the row as loaded is written.
Patched(stored, p) ==
  [role |-> IF p.change.role \in {"same", p.row.role} THEN stored.role ELSE p.change.role,
   disabled |-> CASE p.change.disabled = "yes" /\ ~p.row.disabled -> TRUE
                  [] p.change.disabled = "no" /\ p.row.disabled -> FALSE
                  [] OTHER -> stored.disabled]

PatchCommits(t) ==
  LET p == patch[t] IN
  /\ p.step = "checked"
  /\ p.on \notin LockedByOther(t)
  /\ accounts' = [accounts EXCEPT ![p.on] = Patched(@, p)]
  /\ decided' = [decided EXCEPT ![p.on] = Patched(@, p)]
  /\ patch' = [patch EXCEPT ![t] = NoPatch]
  /\ UNCHANGED <<sessions, signingKey, jwks, login, lost, begun>>

----------------------------------------------------------------------------
AccountsNext ==
  \/ ProviderRotates
  \/ \E s \in Subject : Logout(s)
  \/ \E gone \in SUBSET Subject : SessionExpires(gone)
  \/ \E t \in Tab :
       \/ \E s \in Subject : LoginBegins(t, s)
       \/ RateLimitRefuses(t) \/ LoginStateRefused(t) \/ CallbackRefused(t) \/ CodeExchanged(t)
       \/ KeyLookup(t) \/ KeysAnswered(t) \/ KeysArrive(t)
       \/ ProvisionReads(t) \/ ProvisionCommits(t)
       \/ \E by, on \in Subject, c \in Change : PatchBegins(t, by, on, c)
       \/ PatchGuard(t) \/ PatchCommits(t)

AccountsSpec == AccountsInit /\ [][AccountsNext]_accVars

----------------------------------------------------------------------------
LoginUnderway ==
  [step : {"idle", "away", "check", "fetch", "verified", "read"}, who : Subject,
   key : 0..MaxSigningKey, doc : SUBSET (1..MaxSigningKey), refetched : BOOLEAN, row : Account,
   again : BOOLEAN]
PatchUnderway ==
  [step : {"idle", "loaded", "checked"}, by : Subject, on : Subject, change : Change,
   row : Account, locks : SUBSET Subject]

AccountsTypeOK ==
  /\ accounts \in [Subject -> Account] /\ decided \in [Subject -> Account]
  /\ sessions \subseteq Subject
  /\ signingKey \in 1..MaxSigningKey /\ jwks \subseteq 1..MaxSigningKey
  /\ login \in [Tab -> LoginUnderway]
  /\ patch \in [Tab -> PatchUnderway]
  /\ lost \subseteq {"key", "race"}
  /\ begun \in [logins : 0..MaxLogin, patches : 0..MaxPatch]

\* A login the provider vouched for is not lost to a key set cached before the
\* provider rotated, whatever other coroutines do to the cache while this one waits
\* (OidcClient._signing_key), nor to a second tab creating the account at the same
\* moment (callback's retry after IntegrityError).
LoginNotLost == lost = {}

\* What an administrator decided about an account stays: no login brings a role or
\* an enabled account back, not the bootstrap identity's and not one that loaded the
\* row before the decision was committed (provision_user).
DemotionSticks == accounts = decided

\* Claimed by _guard_last_admin: no change leaves the instance with no enabled admin,
\* two administrators acting on each other at the same time included.
AnEnabledAdminRemains ==
  (\E s \in Seeds : accounts[s] # NoAccount) =>
    \E s \in Subject : accounts[s].role = "admin" /\ ~accounts[s].disabled

=============================================================================
