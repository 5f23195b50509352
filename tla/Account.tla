------------------------------ MODULE Account ------------------------------
(***************************************************************************)
(* One user's account: password, status and refresh tokens, under          *)
(* concurrent logins, refreshes, logouts, password changes and             *)
(* administration. A request is one PostgreSQL transaction at READ         *)
(* COMMITTED; the row locks it takes are part of the model.                *)
(* Sources: app/auth/security.py, auth/service.py, user/service.py.        *)
(***************************************************************************)
EXTENDS Naturals, FiniteSets

CONSTANTS
  Requests, (* requests that can be in progress at once          *)
  Tokens,   (* bound: refresh tokens ever issued to the user     *)
  NoToken   (* no token                                          *)

ASSUME AccountAssumption == NoToken \notin Tokens

VARIABLES
  status,   \* users.status
  password, \* users.password_hash: the default one or the user's own
  must,     \* users.must_change_password
  overtaken,\* history: resets since whose read a change has committed
  escaped,  \* history: the password was set by such a reset
  token,    \* user_refresh_tokens: not issued, active or revoked
  expired,  \* tokens whose expires_at has passed
  parent,   \* history: the token a token was exchanged for
  lapsed,   \* history: tokens that expired while a refresh was using them
  pc,       \* where each request is
  presented,\* the refresh token it presents
  sawMust,  \* must_change_password as it has read it
  swept     \* tokens a login has revoked, uncommitted

userVars == <<status, password, must, overtaken, escaped>>
tokenVars == <<token, expired, parent, lapsed>>
requestVars == <<pc, presented, sawMust, swept>>
vars == <<userVars, tokenVars, requestVars>>

Steps == {"idle", "loginLocked", "loginSwept", "found", "checked", "rotating",
          "issued", "changing", "resetting"}

TypeOK ==
  /\ status \in {"ACTIVE", "DISABLED"}
  /\ password \in {"default", "own"}
  /\ must \in BOOLEAN
  /\ overtaken \subseteq Requests
  /\ escaped \in BOOLEAN
  /\ token \in [Tokens -> {"none", "active", "revoked"}]
  /\ expired \subseteq Tokens
  /\ parent \in [Tokens -> Tokens \cup {NoToken}]
  /\ lapsed \subseteq Tokens
  /\ pc \in [Requests -> Steps]
  /\ presented \in [Requests -> Tokens \cup {NoToken}]
  /\ sawMust \in [Requests -> BOOLEAN]
  /\ swept \in [Requests -> SUBSET Tokens]

\* A registered user, or one an administrator has created.
Init ==
  /\ status = "ACTIVE"
  /\ \/ password = "own" /\ must = FALSE
     \/ password = "default" /\ must = TRUE
  /\ overtaken = {} /\ escaped = FALSE
  /\ token = [t \in Tokens |-> "none"]
  /\ expired = {} /\ lapsed = {}
  /\ parent = [t \in Tokens |-> NoToken]
  /\ pc = [r \in Requests |-> "idle"]
  /\ presented = [r \in Requests |-> NoToken]
  /\ sawMust = [r \in Requests |-> FALSE]
  /\ swept = [r \in Requests |-> {}]

-----------------------------------------------------------------------------

\* Tokens that find_active_token accepts, and revoke_active_tokens revokes.
Active == {t \in Tokens : token[t] = "active" /\ t \notin expired}

LoggingIn(r) == pc[r] \in {"loginLocked", "loginSwept"}

\* Faulty variant: find_user_by_login_id without FOR UPDATE.
UserLockedNever == FALSE

\* SELECT ... FOR UPDATE of a login in progress.
UserLocked == \E r \in Requests : LoggingIn(r)

\* Requests that have updated a token's row and not committed.
Rotating(r) == pc[r] \in {"rotating", "issued"}
RowHeld(t) ==
  \E r \in Requests : (Rotating(r) /\ presented[r] = t) \/ t \in swept[r]

\* Requests that will issue a token, and the bound: there is one for each.
Issuing(r) ==
  LoggingIn(r) \/ pc[r] \in {"found", "checked", "rotating", "issued"}
TokensLeft ==
  Cardinality({r \in Requests : Issuing(r)})
    < Cardinality({t \in Tokens : token[t] = "none"})

Goto(r, step) == pc' = [pc EXCEPT ![r] = step]

\* The request ends, by commit or rollback.
End(r) ==
  /\ Goto(r, "idle")
  /\ presented' = [presented EXCEPT ![r] = NoToken]
  /\ sawMust' = [sawMust EXCEPT ![r] = FALSE]
  /\ swept' = [swept EXCEPT ![r] = {}]

-----------------------------------------------------------------------------
(* login.                                                                  *)

\* The user's row is locked, status and password are right. The lock waits for
\* other logins and for the foreign key check of a refresh that has inserted.
LoginLock(r) ==
  /\ pc[r] = "idle"
  /\ TokensLeft
  /\ ~UserLocked
  /\ \A q \in Requests : pc[q] # "issued"
  /\ status = "ACTIVE"
  /\ Goto(r, "loginLocked")
  /\ UNCHANGED <<userVars, tokenVars, presented, sawMust, swept>>

\* revoke_active_tokens, waiting for the rows others have updated.
LoginSweep(r) ==
  /\ pc[r] = "loginLocked"
  /\ \A t \in Active : ~RowHeld(t)
  /\ swept' = [swept EXCEPT ![r] = Active]
  /\ Goto(r, "loginSwept")
  /\ UNCHANGED <<userVars, tokenVars, presented, sawMust>>

\* Faulty variant: the older tokens stay.
LoginCommitKeep(r) ==
  /\ pc[r] = "loginSwept"
  /\ \E new \in Tokens :
       /\ token[new] = "none"
       /\ token' = [token EXCEPT ![new] = "active"]
  /\ End(r)
  /\ UNCHANGED <<userVars, expired, parent, lapsed>>

\* issue_token, last_login_at and the commit.
LoginCommit(r) ==
  /\ pc[r] = "loginSwept"
  /\ \E new \in Tokens :
       /\ token[new] = "none"
       /\ token' = [t \in Tokens |->
                      IF t = new THEN "active"
                      ELSE IF t \in swept[r] THEN "revoked" ELSE token[t]]
  /\ End(r)
  /\ UNCHANGED <<userVars, expired, parent, lapsed>>

-----------------------------------------------------------------------------
(* refresh.                                                                *)

\* find_active_token.
RefreshFind(r, t) ==
  /\ pc[r] = "idle"
  /\ TokensLeft
  /\ t \in Active
  /\ Goto(r, "found")
  /\ presented' = [presented EXCEPT ![r] = t]
  /\ UNCHANGED <<userVars, tokenVars, sawMust, swept>>

\* The user is read, without a lock.
RefreshCheck(r) ==
  /\ pc[r] = "found"
  /\ status = "ACTIVE"
  /\ Goto(r, "checked")
  /\ UNCHANGED <<userVars, tokenVars, presented, sawMust, swept>>

RefreshDisabled(r) ==
  /\ pc[r] = "found"
  /\ status = "DISABLED"
  /\ End(r)
  /\ UNCHANGED <<userVars, tokenVars>>

\* Faulty variant: revoke_token_by_id without revoked_at IS NULL.
RefreshRevokeAny(r) ==
  /\ pc[r] = "checked"
  /\ ~RowHeld(presented[r])
  /\ Goto(r, "rotating")
  /\ UNCHANGED <<userVars, tokenVars, presented, sawMust, swept>>

\* revoke_token_by_id, waiting for the row: it is still active ...
RefreshRevoke(r) ==
  /\ pc[r] = "checked"
  /\ ~RowHeld(presented[r])
  /\ token[presented[r]] = "active"
  /\ Goto(r, "rotating")
  /\ UNCHANGED <<userVars, tokenVars, presented, sawMust, swept>>

\* Faulty variant: a lost race is tried again.
RefreshReplayRetries(r) ==
  /\ pc[r] = "checked"
  /\ ~RowHeld(presented[r])
  /\ token[presented[r]] = "revoked"
  /\ Goto(r, "found")
  /\ UNCHANGED <<userVars, tokenVars, presented, sawMust, swept>>

\* ... or another request has revoked it: a replay. revoke_active_tokens waits
\* for its rows and updates them; the exception that follows makes get_db roll
\* it back.
RefreshReplay(r) ==
  /\ pc[r] = "checked"
  /\ ~RowHeld(presented[r])
  /\ token[presented[r]] = "revoked"
  /\ \A t \in Active : ~RowHeld(t)
  /\ End(r)
  /\ UNCHANGED <<userVars, tokenVars>>

\* issue_token: the insert's foreign key check waits for a login's lock.
RefreshIssue(r) ==
  /\ pc[r] = "rotating"
  /\ ~UserLocked
  /\ Goto(r, "issued")
  /\ UNCHANGED <<userVars, tokenVars, presented, sawMust, swept>>

RefreshCommit(r) ==
  /\ pc[r] = "issued"
  /\ \E new \in Tokens :
       /\ token[new] = "none"
       /\ token' = [token EXCEPT ![presented[r]] = "revoked", ![new] = "active"]
       /\ parent' = [parent EXCEPT ![new] = presented[r]]
  /\ End(r)
  /\ UNCHANGED <<userVars, expired, lapsed>>

-----------------------------------------------------------------------------
(* The other requests.                                                     *)

\* logout: one statement, and the commit.
Logout(t) ==
  /\ token[t] = "active"
  /\ ~RowHeld(t)
  /\ token' = [token EXCEPT ![t] = "revoked"]
  /\ UNCHANGED <<userVars, expired, parent, lapsed, requestVars>>

\* update_user_status.
SetStatus ==
  /\ ~UserLocked
  /\ status' = IF status = "ACTIVE" THEN "DISABLED" ELSE "ACTIVE"
  /\ UNCHANGED <<password, must, overtaken, escaped, tokenVars, requestVars>>

\* change_password reads the user and verifies the current password ...
ChangeRead(r) ==
  /\ pc[r] = "idle"
  /\ Goto(r, "changing")
  /\ sawMust' = [sawMust EXCEPT ![r] = must]
  /\ UNCHANGED <<userVars, tokenVars, presented, swept>>

\* ... and writes the columns whose value differs from what it has read.
ChangeCommit(r) ==
  /\ pc[r] = "changing"
  /\ ~UserLocked
  /\ password' = "own"
  /\ must' = IF sawMust[r] THEN FALSE ELSE must
  /\ overtaken' = {q \in Requests : pc[q] = "resetting"}
  /\ escaped' = FALSE
  /\ End(r)
  /\ UNCHANGED <<status, tokenVars>>

\* reset_password reads the user ...
ResetRead(r) ==
  /\ pc[r] = "idle"
  /\ Goto(r, "resetting")
  /\ sawMust' = [sawMust EXCEPT ![r] = must]
  /\ overtaken' = overtaken \ {r}
  /\ UNCHANGED <<status, password, must, escaped, tokenVars, presented, swept>>

\* Faulty variant: must_change_password is left alone.
ResetCommitKeep(r) ==
  /\ pc[r] = "resetting"
  /\ ~UserLocked
  /\ password' = "default"
  /\ escaped' = (r \in overtaken)
  /\ End(r)
  /\ UNCHANGED <<status, must, overtaken, tokenVars>>

\* ... and writes its columns in the same way: a must_change_password that was
\* set when it was read is not written.
ResetCommit(r) ==
  /\ pc[r] = "resetting"
  /\ ~UserLocked
  /\ password' = "default"
  /\ must' = IF sawMust[r] THEN must ELSE TRUE
  /\ escaped' = (r \in overtaken)
  /\ End(r)
  /\ UNCHANGED <<status, overtaken, tokenVars>>

\* 14 days pass.
Expire(t) ==
  /\ token[t] # "none"
  /\ t \notin expired
  /\ expired' = expired \cup {t}
  /\ lapsed' = IF \E r \in Requests : presented[r] = t
               THEN lapsed \cup {t} ELSE lapsed
  /\ UNCHANGED <<userVars, token, parent, requestVars>>

\* A login waits for a token's row, the refresh that has it for the user's:
\* PostgreSQL aborts one of them.
Deadlock ==
  \E l, r \in Requests :
    /\ pc[l] = "loginLocked"
    /\ pc[r] = "rotating"
    /\ presented[r] \in Active
    /\ \E victim \in {l, r} : End(victim)
    /\ UNCHANGED <<userVars, tokenVars>>

\* An error of the database, or the end of the process: a rollback.
RequestFails(r) ==
  /\ pc[r] # "idle"
  /\ End(r)
  /\ UNCHANGED <<userVars, tokenVars>>

-----------------------------------------------------------------------------

Continue(r) ==
  \/ LoginSweep(r) \/ LoginCommit(r)
  \/ RefreshCheck(r) \/ RefreshDisabled(r) \/ RefreshRevoke(r)
  \/ RefreshReplay(r) \/ RefreshIssue(r) \/ RefreshCommit(r)
  \/ ChangeCommit(r) \/ ResetCommit(r)

Next ==
  \/ \E r \in Requests :
       \/ LoginLock(r) \/ ChangeRead(r) \/ ResetRead(r)
       \/ Continue(r) \/ RequestFails(r)
  \/ \E r \in Requests, t \in Tokens : RefreshFind(r, t)
  \/ \E t \in Tokens : Logout(t) \/ Expire(t)
  \/ SetStatus
  \/ Deadlock

Spec == Init /\ [][Next]_vars

\* A request in progress goes on, lock queues are fair, and PostgreSQL finds
\* deadlocks. Nobody has to send a request.
FairSpec ==
  Spec /\ WF_vars(Deadlock) /\ \A r \in Requests : SF_vars(Continue(r))

-----------------------------------------------------------------------------
(* Properties.                                                             *)

\* A login and a refresh that has inserted its token exclude each other, and
\* logins exclude logins (FOR UPDATE against the lock of the foreign key); the
\* status a login has read stays.
UserLockHolds ==
  \A q \in Requests :
    LoggingIn(q) =>
      /\ status = "ACTIVE"
      /\ \A r \in Requests : LoggingIn(r) \/ pc[r] = "issued" => q = r

\* A refresh that has revoked its token holds the row alone, and the token is
\* still active for everybody else.
RotationHolds ==
  \A r \in Requests :
    Rotating(r) =>
      /\ presented[r] \in Tokens
      /\ token[presented[r]] = "active"
      /\ \A q \in Requests :
           /\ presented[r] \notin swept[q]
           /\ Rotating(q) /\ presented[q] = presented[r] => q = r

\* A refresh knows its token, which was issued; only issued tokens expire.
RefreshesHaveTokens ==
  /\ \A r \in Requests :
       Issuing(r) /\ ~LoggingIn(r) =>
         presented[r] \in Tokens /\ token[presented[r]] # "none"
  /\ \A t \in Tokens : token[t] = "none" => t \notin expired

\* A login that has swept has everything that is active, unless a token
\* expired under a refresh.
SweepIsComplete ==
  \A r \in Requests :
    /\ swept[r] # {} => pc[r] = "loginSwept"
    /\ pc[r] = "loginSwept" => Active \subseteq swept[r]

\* An exchanged token is revoked.
ParentsAreRevoked ==
  \A t \in Tokens :
    parent[t] # NoToken => token[parent[t]] = "revoked" /\ token[t] # "none"

\* The token of a refresh in progress was good when it was found.
PresentedWereFresh ==
  \A r \in Requests : presented[r] \in expired => presented[r] \in lapsed

\* A reset that no change of the password has overtaken knows the flag as it is,
\* or leaves it set.
ResetsKnowTheFlag ==
  \A r \in Requests :
    pc[r] = "resetting" /\ sawMust[r] /\ r \notin overtaken => must

\* The user has at most one active refresh token, whatever logins, refreshes
\* and logouts overlap: a login replaces the session, a refresh exchanges its
\* token. (A token that expires while a refresh is using it escapes the login's
\* sweep, and its successor survives.)
OneSession ==
  lapsed = {} => \A t, u \in Active : t = u

\* The locks do what login and refresh need of them, and resets what they can
\* without any.
AccountInvariant ==
  /\ TypeOK
  /\ UserLockHolds
  /\ RotationHolds
  /\ RefreshesHaveTokens
  /\ SweepIsComplete
  /\ ParentsAreRevoked
  /\ PresentedWereFresh
  /\ ResetsKnowTheFlag

\* A password that an administrator has set must be changed, unless a change of
\* the password was committed between the read and the write of the reset that
\* set it (and took back the flag which the reset had found set).
ResetObliges == password = "default" /\ ~must => escaped

\* A refresh token is exchanged at most once (revoke_token_by_id's rowcount).
ExchangedOnce ==
  \A t, u \in Tokens : parent[t] = parent[u] /\ parent[t] # NoToken => t = u

\* No login of a disabled user ends with a token, although the administrator
\* may disable the user after login has read the status.
DisabledCannotLogIn ==
  [][\A r \in Requests : LoginCommit(r) => status = "ACTIVE"]_vars

\* Every request ends, deadlocks between login and refresh included.
RequestsEnd == \A r \in Requests : pc[r] # "idle" ~> pc[r] = "idle"

-----------------------------------------------------------------------------
(* What the documents say, and the code does not do.                       *)

\* A replay that is detected revokes every token of the user.
ReplayRevokesAll ==
  [][\A r \in Requests : RefreshReplay(r) => Active' = {}]_vars

=============================================================================
