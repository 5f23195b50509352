---------------------------- MODULE AccountProofs ----------------------------
(***************************************************************************)
(* Theorems about Account, for any number of requests and tokens.          *)
(***************************************************************************)
EXTENDS Account, TLAPS

\* The invariant that every theorem below rests on.
IInv == AccountInvariant

\* The initial state satisfies the invariant.
LEMMA InitIInv == Init => IInv
  <1> SUFFICES ASSUME Init PROVE IInv
    OBVIOUS
  <1> USE AccountAssumption DEF Init
  <1>1. TypeOK
    BY DEF TypeOK, Steps
  <1>2. UserLockHolds /\ RotationHolds
    BY DEF UserLockHolds, RotationHolds, LoggingIn, Rotating
  <1>3. RefreshesHaveTokens /\ SweepIsComplete
    BY DEF RefreshesHaveTokens, SweepIsComplete, Issuing, LoggingIn
  <1>4. ParentsAreRevoked /\ PresentedWereFresh
    BY DEF ParentsAreRevoked, PresentedWereFresh
  <1>5. ResetsKnowTheFlag
    BY DEF ResetsKnowTheFlag
  <1> QED BY <1>1, <1>2, <1>3, <1>4, <1>5 DEF IInv, AccountInvariant

\* Every step preserves the types.
LEMMA TypeStep == IInv /\ [Next]_vars => TypeOK'
  <1> SUFFICES ASSUME IInv /\ [Next]_vars PROVE TypeOK'
    OBVIOUS
  <1> USE DEF vars, userVars, tokenVars, requestVars
  <1>0. TypeOK
    BY DEF IInv, AccountInvariant
  <1>1. ASSUME NEW r \in Requests, LoginLock(r) PROVE TypeOK'
    BY <1>0, <1>1 DEF TypeOK, Steps, LoginLock, Goto
  <1>2. ASSUME NEW r \in Requests, LoginSweep(r) PROVE TypeOK'
    <2>1. Active \subseteq Tokens
      BY DEF Active
    <2> QED BY <1>0, <1>2, <2>1 DEF TypeOK, Steps, LoginSweep, Goto
  <1>3. ASSUME NEW r \in Requests, LoginCommit(r) PROVE TypeOK'
    BY <1>0, <1>3 DEF TypeOK, Steps, LoginCommit, End, Goto
  <1>4. ASSUME NEW r \in Requests, NEW t \in Tokens, RefreshFind(r, t)
       PROVE TypeOK'
    BY <1>0, <1>4 DEF TypeOK, Steps, RefreshFind, Goto
  <1>5. ASSUME NEW r \in Requests, RefreshCheck(r) PROVE TypeOK'
    BY <1>0, <1>5 DEF TypeOK, Steps, RefreshCheck, Goto
  <1>6. ASSUME NEW r \in Requests, RefreshDisabled(r) PROVE TypeOK'
    BY <1>0, <1>6 DEF TypeOK, Steps, RefreshDisabled, End, Goto
  <1>7. ASSUME NEW r \in Requests, RefreshRevoke(r) PROVE TypeOK'
    BY <1>0, <1>7 DEF TypeOK, Steps, RefreshRevoke, Goto
  <1>8. ASSUME NEW r \in Requests, RefreshReplay(r) PROVE TypeOK'
    BY <1>0, <1>8 DEF TypeOK, Steps, RefreshReplay, End, Goto
  <1>9. ASSUME NEW r \in Requests, RefreshIssue(r) PROVE TypeOK'
    BY <1>0, <1>9 DEF TypeOK, Steps, RefreshIssue, Goto
  <1>10. ASSUME NEW r \in Requests, RefreshCommit(r) PROVE TypeOK'
    BY <1>0, <1>10 DEF TypeOK, Steps, RefreshCommit, End, Goto
  <1>11. ASSUME NEW r \in Requests, ChangeRead(r) PROVE TypeOK'
    BY <1>0, <1>11 DEF TypeOK, Steps, ChangeRead, Goto
  <1>12. ASSUME NEW r \in Requests, ChangeCommit(r) PROVE TypeOK'
    BY <1>0, <1>12 DEF TypeOK, Steps, ChangeCommit, End, Goto
  <1>13. ASSUME NEW r \in Requests, ResetRead(r) PROVE TypeOK'
    BY <1>0, <1>13 DEF TypeOK, Steps, ResetRead, Goto
  <1>14. ASSUME NEW r \in Requests, ResetCommit(r) PROVE TypeOK'
    <2>1. (r \in overtaken) \in BOOLEAN
      OBVIOUS
    <2>2. escaped' \in BOOLEAN
      BY <1>14, <2>1, Zenon DEF ResetCommit
    <2> QED BY <1>0, <1>14, <2>2 DEF TypeOK, Steps, ResetCommit, End, Goto
  <1>15. ASSUME NEW t \in Tokens, Logout(t) PROVE TypeOK'
    BY <1>0, <1>15 DEF TypeOK, Steps, Logout
  <1>16. ASSUME NEW t \in Tokens, Expire(t) PROVE TypeOK'
    BY <1>0, <1>16 DEF TypeOK, Steps, Expire
  <1>17. CASE SetStatus
    BY <1>0, <1>17 DEF TypeOK, Steps, SetStatus
  <1>18. CASE Deadlock
    BY <1>0, <1>18 DEF TypeOK, Steps, Deadlock, End, Goto
  <1>19. ASSUME NEW r \in Requests, RequestFails(r) PROVE TypeOK'
    BY <1>0, <1>19 DEF TypeOK, Steps, RequestFails, End, Goto
  <1>20. CASE UNCHANGED vars
    BY <1>0, <1>20 DEF TypeOK, Steps
  <1> QED BY <1>1, <1>2, <1>3, <1>4, <1>5, <1>6, <1>7, <1>8, <1>9, <1>10,
    <1>11, <1>12, <1>13, <1>14, <1>15, <1>16, <1>17, <1>18, <1>19, <1>20 DEF
    Next, Continue

\* Logins keep the user's row to themselves.
LEMMA UserLockStep == IInv /\ [Next]_vars => UserLockHolds'
  <1> SUFFICES ASSUME IInv /\ [Next]_vars PROVE UserLockHolds'
    OBVIOUS
  <1> USE DEF vars, userVars, tokenVars, requestVars, UserLockHolds, LoggingIn
  <1>0. TypeOK /\ UserLockHolds
    BY DEF IInv, AccountInvariant
  <1>1. ASSUME NEW r \in Requests, LoginLock(r) PROVE UserLockHolds'
    BY <1>0, <1>1 DEF TypeOK, UserLocked, LoginLock, Goto
  <1>2. ASSUME NEW r \in Requests, LoginSweep(r) PROVE UserLockHolds'
    BY <1>0, <1>2 DEF TypeOK, UserLocked, LoginSweep, Goto
  <1>3. ASSUME NEW r \in Requests, LoginCommit(r) PROVE UserLockHolds'
    BY <1>0, <1>3 DEF TypeOK, UserLocked, LoginCommit, End, Goto
  <1>4. ASSUME NEW r \in Requests, NEW t \in Tokens, RefreshFind(r, t)
       PROVE UserLockHolds'
    BY <1>0, <1>4 DEF TypeOK, UserLocked, RefreshFind, Goto
  <1>5. ASSUME NEW r \in Requests, RefreshCheck(r) PROVE UserLockHolds'
    BY <1>0, <1>5 DEF TypeOK, UserLocked, RefreshCheck, Goto
  <1>6. ASSUME NEW r \in Requests, RefreshDisabled(r) PROVE UserLockHolds'
    BY <1>0, <1>6 DEF TypeOK, UserLocked, RefreshDisabled, End, Goto
  <1>7. ASSUME NEW r \in Requests, RefreshRevoke(r) PROVE UserLockHolds'
    BY <1>0, <1>7 DEF TypeOK, UserLocked, RefreshRevoke, Goto
  <1>8. ASSUME NEW r \in Requests, RefreshReplay(r) PROVE UserLockHolds'
    BY <1>0, <1>8 DEF TypeOK, UserLocked, RefreshReplay, End, Goto
  <1>9. ASSUME NEW r \in Requests, RefreshIssue(r) PROVE UserLockHolds'
    BY <1>0, <1>9 DEF TypeOK, UserLocked, RefreshIssue, Goto
  <1>10. ASSUME NEW r \in Requests, RefreshCommit(r) PROVE UserLockHolds'
    BY <1>0, <1>10 DEF TypeOK, UserLocked, RefreshCommit, End, Goto
  <1>11. ASSUME NEW r \in Requests, ChangeRead(r) PROVE UserLockHolds'
    BY <1>0, <1>11 DEF TypeOK, UserLocked, ChangeRead, Goto
  <1>12. ASSUME NEW r \in Requests, ChangeCommit(r) PROVE UserLockHolds'
    BY <1>0, <1>12 DEF TypeOK, UserLocked, ChangeCommit, End, Goto
  <1>13. ASSUME NEW r \in Requests, ResetRead(r) PROVE UserLockHolds'
    BY <1>0, <1>13 DEF TypeOK, UserLocked, ResetRead, Goto
  <1>14. ASSUME NEW r \in Requests, ResetCommit(r) PROVE UserLockHolds'
    BY <1>0, <1>14 DEF TypeOK, UserLocked, ResetCommit, End, Goto
  <1>15. ASSUME NEW t \in Tokens, Logout(t) PROVE UserLockHolds'
    BY <1>0, <1>15 DEF TypeOK, UserLocked, Logout
  <1>16. ASSUME NEW t \in Tokens, Expire(t) PROVE UserLockHolds'
    BY <1>0, <1>16 DEF TypeOK, UserLocked, Expire
  <1>17. CASE SetStatus
    BY <1>0, <1>17 DEF TypeOK, UserLocked, SetStatus
  <1>18. CASE Deadlock
    BY <1>0, <1>18 DEF TypeOK, UserLocked, Deadlock, End, Goto
  <1>19. ASSUME NEW r \in Requests, RequestFails(r) PROVE UserLockHolds'
    BY <1>0, <1>19 DEF TypeOK, UserLocked, RequestFails, End, Goto
  <1>20. CASE UNCHANGED vars
    BY <1>0, <1>20 DEF TypeOK, UserLocked
  <1> QED BY <1>1, <1>2, <1>3, <1>4, <1>5, <1>6, <1>7, <1>8, <1>9, <1>10,
    <1>11, <1>12, <1>13, <1>14, <1>15, <1>16, <1>17, <1>18, <1>19, <1>20 DEF
    Next, Continue

\* A refresh keeps the row of the token it has revoked.
LEMMA RotationStep == IInv /\ [Next]_vars => RotationHolds'
  <1> SUFFICES ASSUME IInv /\ [Next]_vars PROVE RotationHolds'
    OBVIOUS
  <1> USE DEF vars, userVars, tokenVars, requestVars, RotationHolds, Rotating
  <1>0. TypeOK /\ RotationHolds
    BY DEF IInv, AccountInvariant
  <1>a. SweepIsComplete /\ RefreshesHaveTokens
    BY DEF IInv, AccountInvariant
  <1>1. ASSUME NEW r \in Requests, LoginLock(r) PROVE RotationHolds'
    BY <1>0, <1>a, <1>1 DEF TypeOK, SweepIsComplete, RowHeld, LoginLock, Goto
  <1>2. ASSUME NEW r \in Requests, LoginSweep(r) PROVE RotationHolds'
    BY <1>0, <1>a, <1>2 DEF TypeOK, SweepIsComplete, RowHeld, LoginSweep, Goto
  <1>3. ASSUME NEW r \in Requests, LoginCommit(r) PROVE RotationHolds'
    BY <1>0, <1>a, <1>3 DEF TypeOK, SweepIsComplete, RowHeld, LoginCommit, End,
      Goto
  <1>4. ASSUME NEW r \in Requests, NEW t \in Tokens, RefreshFind(r, t)
       PROVE RotationHolds'
    BY <1>0, <1>a, <1>4 DEF TypeOK, SweepIsComplete, RowHeld, RefreshFind, Goto
  <1>5. ASSUME NEW r \in Requests, RefreshCheck(r) PROVE RotationHolds'
    BY <1>0, <1>a, <1>5 DEF TypeOK, SweepIsComplete, RowHeld, RefreshCheck,
      Goto
  <1>6. ASSUME NEW r \in Requests, RefreshDisabled(r) PROVE RotationHolds'
    BY <1>0, <1>a, <1>6 DEF TypeOK, SweepIsComplete, RowHeld, RefreshDisabled,
      End, Goto
  <1>7. ASSUME NEW r \in Requests, RefreshRevoke(r) PROVE RotationHolds'
    <2>1. presented[r] \in Tokens
      BY <1>a, <1>7 DEF RefreshesHaveTokens, RefreshRevoke, Issuing,
         LoggingIn
    <2> QED BY <1>0, <1>a, <1>7, <2>1 DEF TypeOK, RowHeld, RefreshRevoke, Goto
  <1>8. ASSUME NEW r \in Requests, RefreshReplay(r) PROVE RotationHolds'
    BY <1>0, <1>a, <1>8 DEF TypeOK, SweepIsComplete, RowHeld, RefreshReplay,
      End, Goto
  <1>9. ASSUME NEW r \in Requests, RefreshIssue(r) PROVE RotationHolds'
    BY <1>0, <1>a, <1>9 DEF TypeOK, SweepIsComplete, RowHeld, RefreshIssue,
      Goto
  <1>10. ASSUME NEW r \in Requests, RefreshCommit(r) PROVE RotationHolds'
    BY <1>0, <1>a, <1>10 DEF TypeOK, SweepIsComplete, RowHeld, RefreshCommit,
      End, Goto
  <1>11. ASSUME NEW r \in Requests, ChangeRead(r) PROVE RotationHolds'
    BY <1>0, <1>a, <1>11 DEF TypeOK, SweepIsComplete, RowHeld, ChangeRead, Goto
  <1>12. ASSUME NEW r \in Requests, ChangeCommit(r) PROVE RotationHolds'
    BY <1>0, <1>a, <1>12 DEF TypeOK, SweepIsComplete, RowHeld, ChangeCommit,
      End, Goto
  <1>13. ASSUME NEW r \in Requests, ResetRead(r) PROVE RotationHolds'
    BY <1>0, <1>a, <1>13 DEF TypeOK, SweepIsComplete, RowHeld, ResetRead, Goto
  <1>14. ASSUME NEW r \in Requests, ResetCommit(r) PROVE RotationHolds'
    BY <1>0, <1>a, <1>14 DEF TypeOK, SweepIsComplete, RowHeld, ResetCommit,
      End, Goto
  <1>15. ASSUME NEW t \in Tokens, Logout(t) PROVE RotationHolds'
    BY <1>0, <1>a, <1>15 DEF TypeOK, SweepIsComplete, RowHeld, Logout
  <1>16. ASSUME NEW t \in Tokens, Expire(t) PROVE RotationHolds'
    BY <1>0, <1>a, <1>16 DEF TypeOK, SweepIsComplete, RowHeld, Expire
  <1>17. CASE SetStatus
    BY <1>0, <1>a, <1>17 DEF TypeOK, SweepIsComplete, RowHeld, SetStatus
  <1>18. CASE Deadlock
    BY <1>0, <1>a, <1>18 DEF TypeOK, SweepIsComplete, RowHeld, Deadlock, End,
      Goto
  <1>19. ASSUME NEW r \in Requests, RequestFails(r) PROVE RotationHolds'
    BY <1>0, <1>a, <1>19 DEF TypeOK, SweepIsComplete, RowHeld, RequestFails,
      End, Goto
  <1>20. CASE UNCHANGED vars
    BY <1>0, <1>a, <1>20 DEF TypeOK, SweepIsComplete, RowHeld
  <1> QED BY <1>1, <1>2, <1>3, <1>4, <1>5, <1>6, <1>7, <1>8, <1>9, <1>10,
    <1>11, <1>12, <1>13, <1>14, <1>15, <1>16, <1>17, <1>18, <1>19, <1>20 DEF
    Next, Continue

\* A refresh knows its token.
LEMMA TokensStep == IInv /\ [Next]_vars => RefreshesHaveTokens'
  <1> SUFFICES ASSUME IInv /\ [Next]_vars PROVE RefreshesHaveTokens'
    OBVIOUS
  <1> USE DEF vars, userVars, tokenVars, requestVars, RefreshesHaveTokens,
        Issuing, LoggingIn
  <1>0. TypeOK /\ RefreshesHaveTokens
    BY DEF IInv, AccountInvariant
  <1>1. ASSUME NEW r \in Requests, LoginLock(r) PROVE RefreshesHaveTokens'
    BY <1>0, <1>1 DEF TypeOK, Active, LoginLock, Goto
  <1>2. ASSUME NEW r \in Requests, LoginSweep(r) PROVE RefreshesHaveTokens'
    BY <1>0, <1>2 DEF TypeOK, Active, LoginSweep, Goto
  <1>3. ASSUME NEW r \in Requests, LoginCommit(r) PROVE RefreshesHaveTokens'
    BY <1>0, <1>3 DEF TypeOK, Active, LoginCommit, End, Goto
  <1>4. ASSUME NEW r \in Requests, NEW t \in Tokens, RefreshFind(r, t)
       PROVE RefreshesHaveTokens'
    BY <1>0, <1>4 DEF TypeOK, Active, RefreshFind, Goto
  <1>5. ASSUME NEW r \in Requests, RefreshCheck(r) PROVE RefreshesHaveTokens'
    BY <1>0, <1>5 DEF TypeOK, Active, RefreshCheck, Goto
  <1>6. ASSUME NEW r \in Requests, RefreshDisabled(r)
       PROVE RefreshesHaveTokens'
    BY <1>0, <1>6 DEF TypeOK, Active, RefreshDisabled, End, Goto
  <1>7. ASSUME NEW r \in Requests, RefreshRevoke(r) PROVE RefreshesHaveTokens'
    BY <1>0, <1>7 DEF TypeOK, Active, RefreshRevoke, Goto
  <1>8. ASSUME NEW r \in Requests, RefreshReplay(r) PROVE RefreshesHaveTokens'
    BY <1>0, <1>8 DEF TypeOK, Active, RefreshReplay, End, Goto
  <1>9. ASSUME NEW r \in Requests, RefreshIssue(r) PROVE RefreshesHaveTokens'
    BY <1>0, <1>9 DEF TypeOK, Active, RefreshIssue, Goto
  <1>10. ASSUME NEW r \in Requests, RefreshCommit(r) PROVE RefreshesHaveTokens'
    BY <1>0, <1>10 DEF TypeOK, Active, RefreshCommit, End, Goto
  <1>11. ASSUME NEW r \in Requests, ChangeRead(r) PROVE RefreshesHaveTokens'
    BY <1>0, <1>11 DEF TypeOK, Active, ChangeRead, Goto
  <1>12. ASSUME NEW r \in Requests, ChangeCommit(r) PROVE RefreshesHaveTokens'
    BY <1>0, <1>12 DEF TypeOK, Active, ChangeCommit, End, Goto
  <1>13. ASSUME NEW r \in Requests, ResetRead(r) PROVE RefreshesHaveTokens'
    BY <1>0, <1>13 DEF TypeOK, Active, ResetRead, Goto
  <1>14. ASSUME NEW r \in Requests, ResetCommit(r) PROVE RefreshesHaveTokens'
    BY <1>0, <1>14 DEF TypeOK, Active, ResetCommit, End, Goto
  <1>15. ASSUME NEW t \in Tokens, Logout(t) PROVE RefreshesHaveTokens'
    BY <1>0, <1>15 DEF TypeOK, Active, Logout
  <1>16. ASSUME NEW t \in Tokens, Expire(t) PROVE RefreshesHaveTokens'
    BY <1>0, <1>16 DEF TypeOK, Active, Expire
  <1>17. CASE SetStatus
    BY <1>0, <1>17 DEF TypeOK, Active, SetStatus
  <1>18. CASE Deadlock
    BY <1>0, <1>18 DEF TypeOK, Active, Deadlock, End, Goto
  <1>19. ASSUME NEW r \in Requests, RequestFails(r) PROVE RefreshesHaveTokens'
    BY <1>0, <1>19 DEF TypeOK, Active, RequestFails, End, Goto
  <1>20. CASE UNCHANGED vars
    BY <1>0, <1>20 DEF TypeOK, Active
  <1> QED BY <1>1, <1>2, <1>3, <1>4, <1>5, <1>6, <1>7, <1>8, <1>9, <1>10,
    <1>11, <1>12, <1>13, <1>14, <1>15, <1>16, <1>17, <1>18, <1>19, <1>20 DEF
    Next, Continue

\* What a login has swept stays complete: nobody else issues a token.
LEMMA SweepStep == IInv /\ [Next]_vars => SweepIsComplete'
  <1> SUFFICES ASSUME IInv /\ [Next]_vars PROVE SweepIsComplete'
    OBVIOUS
  <1> USE DEF vars, userVars, tokenVars, requestVars, SweepIsComplete, Active
  <1>0. TypeOK /\ SweepIsComplete
    BY DEF IInv, AccountInvariant
  <1>a. UserLockHolds
    BY DEF IInv, AccountInvariant
  <1>1. ASSUME NEW r \in Requests, LoginLock(r) PROVE SweepIsComplete'
    BY <1>0, <1>a, <1>1 DEF TypeOK, UserLockHolds, LoggingIn, LoginLock, Goto
  <1>2. ASSUME NEW r \in Requests, LoginSweep(r) PROVE SweepIsComplete'
    BY <1>0, <1>a, <1>2 DEF TypeOK, UserLockHolds, LoggingIn, LoginSweep, Goto
  <1>3. ASSUME NEW r \in Requests, LoginCommit(r) PROVE SweepIsComplete'
    BY <1>0, <1>a, <1>3 DEF TypeOK, UserLockHolds, LoggingIn, LoginCommit, End,
      Goto
  <1>4. ASSUME NEW r \in Requests, NEW t \in Tokens, RefreshFind(r, t)
       PROVE SweepIsComplete'
    BY <1>0, <1>a, <1>4 DEF TypeOK, UserLockHolds, LoggingIn, RefreshFind, Goto
  <1>5. ASSUME NEW r \in Requests, RefreshCheck(r) PROVE SweepIsComplete'
    BY <1>0, <1>a, <1>5 DEF TypeOK, UserLockHolds, LoggingIn, RefreshCheck,
      Goto
  <1>6. ASSUME NEW r \in Requests, RefreshDisabled(r) PROVE SweepIsComplete'
    BY <1>0, <1>a, <1>6 DEF TypeOK, UserLockHolds, LoggingIn, RefreshDisabled,
      End, Goto
  <1>7. ASSUME NEW r \in Requests, RefreshRevoke(r) PROVE SweepIsComplete'
    BY <1>0, <1>a, <1>7 DEF TypeOK, UserLockHolds, LoggingIn, RefreshRevoke,
      Goto
  <1>8. ASSUME NEW r \in Requests, RefreshReplay(r) PROVE SweepIsComplete'
    BY <1>0, <1>a, <1>8 DEF TypeOK, UserLockHolds, LoggingIn, RefreshReplay,
      End, Goto
  <1>9. ASSUME NEW r \in Requests, RefreshIssue(r) PROVE SweepIsComplete'
    BY <1>0, <1>a, <1>9 DEF TypeOK, UserLockHolds, LoggingIn, RefreshIssue,
      Goto
  <1>10. ASSUME NEW r \in Requests, RefreshCommit(r) PROVE SweepIsComplete'
    BY <1>0, <1>a, <1>10 DEF TypeOK, UserLockHolds, LoggingIn, RefreshCommit,
      End, Goto
  <1>11. ASSUME NEW r \in Requests, ChangeRead(r) PROVE SweepIsComplete'
    BY <1>0, <1>a, <1>11 DEF TypeOK, UserLockHolds, LoggingIn, ChangeRead, Goto
  <1>12. ASSUME NEW r \in Requests, ChangeCommit(r) PROVE SweepIsComplete'
    BY <1>0, <1>a, <1>12 DEF TypeOK, UserLockHolds, LoggingIn, ChangeCommit,
      End, Goto
  <1>13. ASSUME NEW r \in Requests, ResetRead(r) PROVE SweepIsComplete'
    BY <1>0, <1>a, <1>13 DEF TypeOK, UserLockHolds, LoggingIn, ResetRead, Goto
  <1>14. ASSUME NEW r \in Requests, ResetCommit(r) PROVE SweepIsComplete'
    BY <1>0, <1>a, <1>14 DEF TypeOK, UserLockHolds, LoggingIn, ResetCommit,
      End, Goto
  <1>15. ASSUME NEW t \in Tokens, Logout(t) PROVE SweepIsComplete'
    BY <1>0, <1>a, <1>15 DEF TypeOK, UserLockHolds, LoggingIn, Logout
  <1>16. ASSUME NEW t \in Tokens, Expire(t) PROVE SweepIsComplete'
    BY <1>0, <1>a, <1>16 DEF TypeOK, UserLockHolds, LoggingIn, Expire
  <1>17. CASE SetStatus
    BY <1>0, <1>a, <1>17 DEF TypeOK, UserLockHolds, LoggingIn, SetStatus
  <1>18. CASE Deadlock
    BY <1>0, <1>a, <1>18 DEF TypeOK, UserLockHolds, LoggingIn, Deadlock, End,
      Goto
  <1>19. ASSUME NEW r \in Requests, RequestFails(r) PROVE SweepIsComplete'
    BY <1>0, <1>a, <1>19 DEF TypeOK, UserLockHolds, LoggingIn, RequestFails,
      End, Goto
  <1>20. CASE UNCHANGED vars
    BY <1>0, <1>a, <1>20 DEF TypeOK, UserLockHolds, LoggingIn
  <1> QED BY <1>1, <1>2, <1>3, <1>4, <1>5, <1>6, <1>7, <1>8, <1>9, <1>10,
    <1>11, <1>12, <1>13, <1>14, <1>15, <1>16, <1>17, <1>18, <1>19, <1>20 DEF
    Next, Continue

\* An exchanged token stays revoked.
LEMMA ParentsStep == IInv /\ [Next]_vars => ParentsAreRevoked'
  <1> SUFFICES ASSUME IInv /\ [Next]_vars PROVE ParentsAreRevoked'
    OBVIOUS
  <1> USE DEF vars, userVars, tokenVars, requestVars, ParentsAreRevoked
  <1>0. TypeOK /\ ParentsAreRevoked
    BY DEF IInv, AccountInvariant
  <1>a. RefreshesHaveTokens /\ RotationHolds
    BY DEF IInv, AccountInvariant
  <1>1. ASSUME NEW r \in Requests, LoginLock(r) PROVE ParentsAreRevoked'
    BY <1>0, <1>a, AccountAssumption, <1>1 DEF TypeOK, RefreshesHaveTokens,
      RotationHolds, Issuing, Rotating, LoggingIn, LoginLock, Goto
  <1>2. ASSUME NEW r \in Requests, LoginSweep(r) PROVE ParentsAreRevoked'
    BY <1>0, <1>a, AccountAssumption, <1>2 DEF TypeOK, RefreshesHaveTokens,
      RotationHolds, Issuing, Rotating, LoggingIn, LoginSweep, Goto
  <1>3. ASSUME NEW r \in Requests, LoginCommit(r) PROVE ParentsAreRevoked'
    BY <1>0, <1>a, AccountAssumption, <1>3 DEF TypeOK, RefreshesHaveTokens,
      RotationHolds, Issuing, Rotating, LoggingIn, LoginCommit, End, Goto
  <1>4. ASSUME NEW r \in Requests, NEW t \in Tokens, RefreshFind(r, t)
       PROVE ParentsAreRevoked'
    BY <1>0, <1>a, AccountAssumption, <1>4 DEF TypeOK, RefreshesHaveTokens,
      RotationHolds, Issuing, Rotating, LoggingIn, RefreshFind, Goto
  <1>5. ASSUME NEW r \in Requests, RefreshCheck(r) PROVE ParentsAreRevoked'
    BY <1>0, <1>a, AccountAssumption, <1>5 DEF TypeOK, RefreshesHaveTokens,
      RotationHolds, Issuing, Rotating, LoggingIn, RefreshCheck, Goto
  <1>6. ASSUME NEW r \in Requests, RefreshDisabled(r) PROVE ParentsAreRevoked'
    BY <1>0, <1>a, AccountAssumption, <1>6 DEF TypeOK, RefreshesHaveTokens,
      RotationHolds, Issuing, Rotating, LoggingIn, RefreshDisabled, End, Goto
  <1>7. ASSUME NEW r \in Requests, RefreshRevoke(r) PROVE ParentsAreRevoked'
    BY <1>0, <1>a, AccountAssumption, <1>7 DEF TypeOK, RefreshesHaveTokens,
      RotationHolds, Issuing, Rotating, LoggingIn, RefreshRevoke, Goto
  <1>8. ASSUME NEW r \in Requests, RefreshReplay(r) PROVE ParentsAreRevoked'
    BY <1>0, <1>a, AccountAssumption, <1>8 DEF TypeOK, RefreshesHaveTokens,
      RotationHolds, Issuing, Rotating, LoggingIn, RefreshReplay, End, Goto
  <1>9. ASSUME NEW r \in Requests, RefreshIssue(r) PROVE ParentsAreRevoked'
    BY <1>0, <1>a, AccountAssumption, <1>9 DEF TypeOK, RefreshesHaveTokens,
      RotationHolds, Issuing, Rotating, LoggingIn, RefreshIssue, Goto
  <1>10. ASSUME NEW r \in Requests, RefreshCommit(r) PROVE ParentsAreRevoked'
    BY <1>0, <1>a, AccountAssumption, <1>10 DEF TypeOK, RefreshesHaveTokens,
      RotationHolds, Issuing, Rotating, LoggingIn, RefreshCommit, End, Goto
  <1>11. ASSUME NEW r \in Requests, ChangeRead(r) PROVE ParentsAreRevoked'
    BY <1>0, <1>a, AccountAssumption, <1>11 DEF TypeOK, RefreshesHaveTokens,
      RotationHolds, Issuing, Rotating, LoggingIn, ChangeRead, Goto
  <1>12. ASSUME NEW r \in Requests, ChangeCommit(r) PROVE ParentsAreRevoked'
    BY <1>0, <1>a, AccountAssumption, <1>12 DEF TypeOK, RefreshesHaveTokens,
      RotationHolds, Issuing, Rotating, LoggingIn, ChangeCommit, End, Goto
  <1>13. ASSUME NEW r \in Requests, ResetRead(r) PROVE ParentsAreRevoked'
    BY <1>0, <1>a, AccountAssumption, <1>13 DEF TypeOK, RefreshesHaveTokens,
      RotationHolds, Issuing, Rotating, LoggingIn, ResetRead, Goto
  <1>14. ASSUME NEW r \in Requests, ResetCommit(r) PROVE ParentsAreRevoked'
    BY <1>0, <1>a, AccountAssumption, <1>14 DEF TypeOK, RefreshesHaveTokens,
      RotationHolds, Issuing, Rotating, LoggingIn, ResetCommit, End, Goto
  <1>15. ASSUME NEW t \in Tokens, Logout(t) PROVE ParentsAreRevoked'
    BY <1>0, <1>a, AccountAssumption, <1>15 DEF TypeOK, RefreshesHaveTokens,
      RotationHolds, Issuing, Rotating, LoggingIn, Logout
  <1>16. ASSUME NEW t \in Tokens, Expire(t) PROVE ParentsAreRevoked'
    BY <1>0, <1>a, AccountAssumption, <1>16 DEF TypeOK, RefreshesHaveTokens,
      RotationHolds, Issuing, Rotating, LoggingIn, Expire
  <1>17. CASE SetStatus
    BY <1>0, <1>a, AccountAssumption, <1>17 DEF TypeOK, RefreshesHaveTokens,
      RotationHolds, Issuing, Rotating, LoggingIn, SetStatus
  <1>18. CASE Deadlock
    BY <1>0, <1>a, AccountAssumption, <1>18 DEF TypeOK, RefreshesHaveTokens,
      RotationHolds, Issuing, Rotating, LoggingIn, Deadlock, End, Goto
  <1>19. ASSUME NEW r \in Requests, RequestFails(r) PROVE ParentsAreRevoked'
    BY <1>0, <1>a, AccountAssumption, <1>19 DEF TypeOK, RefreshesHaveTokens,
      RotationHolds, Issuing, Rotating, LoggingIn, RequestFails, End, Goto
  <1>20. CASE UNCHANGED vars
    BY <1>0, <1>a, AccountAssumption, <1>20 DEF TypeOK, RefreshesHaveTokens,
      RotationHolds, Issuing, Rotating, LoggingIn
  <1> QED BY <1>1, <1>2, <1>3, <1>4, <1>5, <1>6, <1>7, <1>8, <1>9, <1>10,
    <1>11, <1>12, <1>13, <1>14, <1>15, <1>16, <1>17, <1>18, <1>19, <1>20 DEF
    Next, Continue

\* A token that expires in a refresh's hands is noted.
LEMMA FreshStep == IInv /\ [Next]_vars => PresentedWereFresh'
  <1> SUFFICES ASSUME IInv /\ [Next]_vars PROVE PresentedWereFresh'
    OBVIOUS
  <1> USE AccountAssumption DEF vars, userVars, tokenVars, requestVars,
        PresentedWereFresh
  <1>0. TypeOK /\ PresentedWereFresh
    BY DEF IInv, AccountInvariant
  <1>1. ASSUME NEW r \in Requests, LoginLock(r) PROVE PresentedWereFresh'
    BY <1>0, <1>1 DEF TypeOK, Active, LoginLock, Goto
  <1>2. ASSUME NEW r \in Requests, LoginSweep(r) PROVE PresentedWereFresh'
    BY <1>0, <1>2 DEF TypeOK, Active, LoginSweep, Goto
  <1>3. ASSUME NEW r \in Requests, LoginCommit(r) PROVE PresentedWereFresh'
    BY <1>0, <1>3 DEF TypeOK, Active, LoginCommit, End, Goto
  <1>4. ASSUME NEW r \in Requests, NEW t \in Tokens, RefreshFind(r, t)
       PROVE PresentedWereFresh'
    BY <1>0, <1>4 DEF TypeOK, Active, RefreshFind, Goto
  <1>5. ASSUME NEW r \in Requests, RefreshCheck(r) PROVE PresentedWereFresh'
    BY <1>0, <1>5 DEF TypeOK, Active, RefreshCheck, Goto
  <1>6. ASSUME NEW r \in Requests, RefreshDisabled(r) PROVE PresentedWereFresh'
    BY <1>0, <1>6 DEF TypeOK, Active, RefreshDisabled, End, Goto
  <1>7. ASSUME NEW r \in Requests, RefreshRevoke(r) PROVE PresentedWereFresh'
    BY <1>0, <1>7 DEF TypeOK, Active, RefreshRevoke, Goto
  <1>8. ASSUME NEW r \in Requests, RefreshReplay(r) PROVE PresentedWereFresh'
    BY <1>0, <1>8 DEF TypeOK, Active, RefreshReplay, End, Goto
  <1>9. ASSUME NEW r \in Requests, RefreshIssue(r) PROVE PresentedWereFresh'
    BY <1>0, <1>9 DEF TypeOK, Active, RefreshIssue, Goto
  <1>10. ASSUME NEW r \in Requests, RefreshCommit(r) PROVE PresentedWereFresh'
    BY <1>0, <1>10 DEF TypeOK, Active, RefreshCommit, End, Goto
  <1>11. ASSUME NEW r \in Requests, ChangeRead(r) PROVE PresentedWereFresh'
    BY <1>0, <1>11 DEF TypeOK, Active, ChangeRead, Goto
  <1>12. ASSUME NEW r \in Requests, ChangeCommit(r) PROVE PresentedWereFresh'
    BY <1>0, <1>12 DEF TypeOK, Active, ChangeCommit, End, Goto
  <1>13. ASSUME NEW r \in Requests, ResetRead(r) PROVE PresentedWereFresh'
    BY <1>0, <1>13 DEF TypeOK, Active, ResetRead, Goto
  <1>14. ASSUME NEW r \in Requests, ResetCommit(r) PROVE PresentedWereFresh'
    BY <1>0, <1>14 DEF TypeOK, Active, ResetCommit, End, Goto
  <1>15. ASSUME NEW t \in Tokens, Logout(t) PROVE PresentedWereFresh'
    BY <1>0, <1>15 DEF TypeOK, Active, Logout
  <1>16. ASSUME NEW t \in Tokens, Expire(t) PROVE PresentedWereFresh'
    BY <1>0, <1>16 DEF TypeOK, Active, Expire
  <1>17. CASE SetStatus
    BY <1>0, <1>17 DEF TypeOK, Active, SetStatus
  <1>18. CASE Deadlock
    BY <1>0, <1>18 DEF TypeOK, Active, Deadlock, End, Goto
  <1>19. ASSUME NEW r \in Requests, RequestFails(r) PROVE PresentedWereFresh'
    BY <1>0, <1>19 DEF TypeOK, Active, RequestFails, End, Goto
  <1>20. CASE UNCHANGED vars
    BY <1>0, <1>20 DEF TypeOK, Active
  <1> QED BY <1>1, <1>2, <1>3, <1>4, <1>5, <1>6, <1>7, <1>8, <1>9, <1>10,
    <1>11, <1>12, <1>13, <1>14, <1>15, <1>16, <1>17, <1>18, <1>19, <1>20 DEF
    Next, Continue

\* Only a change of the password takes the flag back, and it overtakes every
\* reset in progress.
LEMMA FlagStep == IInv /\ [Next]_vars => ResetsKnowTheFlag'
  <1> SUFFICES ASSUME IInv /\ [Next]_vars PROVE ResetsKnowTheFlag'
    OBVIOUS
  <1> USE DEF vars, userVars, tokenVars, requestVars, ResetsKnowTheFlag
  <1>0. TypeOK /\ ResetsKnowTheFlag
    BY DEF IInv, AccountInvariant
  <1>1. ASSUME NEW r \in Requests, LoginLock(r) PROVE ResetsKnowTheFlag'
    BY <1>0, <1>1 DEF TypeOK, LoginLock, Goto
  <1>2. ASSUME NEW r \in Requests, LoginSweep(r) PROVE ResetsKnowTheFlag'
    BY <1>0, <1>2 DEF TypeOK, LoginSweep, Goto
  <1>3. ASSUME NEW r \in Requests, LoginCommit(r) PROVE ResetsKnowTheFlag'
    BY <1>0, <1>3 DEF TypeOK, LoginCommit, End, Goto
  <1>4. ASSUME NEW r \in Requests, NEW t \in Tokens, RefreshFind(r, t)
       PROVE ResetsKnowTheFlag'
    BY <1>0, <1>4 DEF TypeOK, RefreshFind, Goto
  <1>5. ASSUME NEW r \in Requests, RefreshCheck(r) PROVE ResetsKnowTheFlag'
    BY <1>0, <1>5 DEF TypeOK, RefreshCheck, Goto
  <1>6. ASSUME NEW r \in Requests, RefreshDisabled(r) PROVE ResetsKnowTheFlag'
    BY <1>0, <1>6 DEF TypeOK, RefreshDisabled, End, Goto
  <1>7. ASSUME NEW r \in Requests, RefreshRevoke(r) PROVE ResetsKnowTheFlag'
    BY <1>0, <1>7 DEF TypeOK, RefreshRevoke, Goto
  <1>8. ASSUME NEW r \in Requests, RefreshReplay(r) PROVE ResetsKnowTheFlag'
    BY <1>0, <1>8 DEF TypeOK, RefreshReplay, End, Goto
  <1>9. ASSUME NEW r \in Requests, RefreshIssue(r) PROVE ResetsKnowTheFlag'
    BY <1>0, <1>9 DEF TypeOK, RefreshIssue, Goto
  <1>10. ASSUME NEW r \in Requests, RefreshCommit(r) PROVE ResetsKnowTheFlag'
    BY <1>0, <1>10 DEF TypeOK, RefreshCommit, End, Goto
  <1>11. ASSUME NEW r \in Requests, ChangeRead(r) PROVE ResetsKnowTheFlag'
    BY <1>0, <1>11 DEF TypeOK, ChangeRead, Goto
  <1>12. ASSUME NEW r \in Requests, ChangeCommit(r) PROVE ResetsKnowTheFlag'
    BY <1>0, <1>12 DEF TypeOK, ChangeCommit, End, Goto
  <1>13. ASSUME NEW r \in Requests, ResetRead(r) PROVE ResetsKnowTheFlag'
    BY <1>0, <1>13 DEF TypeOK, ResetRead, Goto
  <1>14. ASSUME NEW r \in Requests, ResetCommit(r) PROVE ResetsKnowTheFlag'
    BY <1>0, <1>14 DEF TypeOK, ResetCommit, End, Goto
  <1>15. ASSUME NEW t \in Tokens, Logout(t) PROVE ResetsKnowTheFlag'
    BY <1>0, <1>15 DEF TypeOK, Logout
  <1>16. ASSUME NEW t \in Tokens, Expire(t) PROVE ResetsKnowTheFlag'
    BY <1>0, <1>16 DEF TypeOK, Expire
  <1>17. CASE SetStatus
    BY <1>0, <1>17 DEF TypeOK, SetStatus
  <1>18. CASE Deadlock
    BY <1>0, <1>18 DEF TypeOK, Deadlock, End, Goto
  <1>19. ASSUME NEW r \in Requests, RequestFails(r) PROVE ResetsKnowTheFlag'
    BY <1>0, <1>19 DEF TypeOK, RequestFails, End, Goto
  <1>20. CASE UNCHANGED vars
    BY <1>0, <1>20 DEF TypeOK
  <1> QED BY <1>1, <1>2, <1>3, <1>4, <1>5, <1>6, <1>7, <1>8, <1>9, <1>10,
    <1>11, <1>12, <1>13, <1>14, <1>15, <1>16, <1>17, <1>18, <1>19, <1>20 DEF
    Next, Continue

\* The invariant is inductive.
THEOREM Invariance == Spec => []IInv
  <1>1. IInv /\ [Next]_vars => IInv'
    BY TypeStep, UserLockStep, RotationStep, TokensStep, SweepStep,
       ParentsStep, FreshStep, FlagStep DEF IInv, AccountInvariant
  <1> QED BY InitIInv, <1>1, PTL DEF Spec

\* Every variable keeps its type (TypeOK).
THEOREM TypeCorrect == Spec => []TypeOK
  <1>1. IInv => TypeOK
    BY DEF IInv, AccountInvariant
  <1> QED BY Invariance, <1>1, PTL

\* The locks do what login and refresh need of them (AccountInvariant).
THEOREM LocksHold == Spec => []AccountInvariant
  <1>1. IInv => AccountInvariant
    BY DEF IInv
  <1> QED BY Invariance, <1>1, PTL

\* A login leaves its own token only, a refresh the successor only.
LEMMA SessionStep == IInv /\ OneSession /\ [Next]_vars => OneSession'
  <1> SUFFICES ASSUME IInv /\ OneSession /\ [Next]_vars PROVE OneSession'
    OBVIOUS
  <1> USE DEF vars, userVars, tokenVars, requestVars, OneSession, Active
  <1>0. TypeOK /\ OneSession
    BY DEF IInv, AccountInvariant
  <1>a. SweepIsComplete /\ PresentedWereFresh /\ RotationHolds
    BY DEF IInv, AccountInvariant
  <1>1. ASSUME NEW r \in Requests, LoginLock(r) PROVE OneSession'
    BY <1>0, <1>a, <1>1 DEF TypeOK, SweepIsComplete, PresentedWereFresh,
      RotationHolds, Rotating, LoginLock, Goto
  <1>2. ASSUME NEW r \in Requests, LoginSweep(r) PROVE OneSession'
    BY <1>0, <1>a, <1>2 DEF TypeOK, SweepIsComplete, PresentedWereFresh,
      RotationHolds, Rotating, LoginSweep, Goto
  <1>3. ASSUME NEW r \in Requests, LoginCommit(r) PROVE OneSession'
    BY <1>0, <1>a, <1>3 DEF TypeOK, SweepIsComplete, PresentedWereFresh,
      RotationHolds, Rotating, LoginCommit, End, Goto
  <1>4. ASSUME NEW r \in Requests, NEW t \in Tokens, RefreshFind(r, t)
       PROVE OneSession'
    BY <1>0, <1>a, <1>4 DEF TypeOK, SweepIsComplete, PresentedWereFresh,
      RotationHolds, Rotating, RefreshFind, Goto
  <1>5. ASSUME NEW r \in Requests, RefreshCheck(r) PROVE OneSession'
    BY <1>0, <1>a, <1>5 DEF TypeOK, SweepIsComplete, PresentedWereFresh,
      RotationHolds, Rotating, RefreshCheck, Goto
  <1>6. ASSUME NEW r \in Requests, RefreshDisabled(r) PROVE OneSession'
    BY <1>0, <1>a, <1>6 DEF TypeOK, SweepIsComplete, PresentedWereFresh,
      RotationHolds, Rotating, RefreshDisabled, End, Goto
  <1>7. ASSUME NEW r \in Requests, RefreshRevoke(r) PROVE OneSession'
    BY <1>0, <1>a, <1>7 DEF TypeOK, SweepIsComplete, PresentedWereFresh,
      RotationHolds, Rotating, RefreshRevoke, Goto
  <1>8. ASSUME NEW r \in Requests, RefreshReplay(r) PROVE OneSession'
    BY <1>0, <1>a, <1>8 DEF TypeOK, SweepIsComplete, PresentedWereFresh,
      RotationHolds, Rotating, RefreshReplay, End, Goto
  <1>9. ASSUME NEW r \in Requests, RefreshIssue(r) PROVE OneSession'
    BY <1>0, <1>a, <1>9 DEF TypeOK, SweepIsComplete, PresentedWereFresh,
      RotationHolds, Rotating, RefreshIssue, Goto
  <1>10. ASSUME NEW r \in Requests, RefreshCommit(r) PROVE OneSession'
    BY <1>0, <1>a, <1>10 DEF TypeOK, SweepIsComplete, PresentedWereFresh,
      RotationHolds, Rotating, RefreshCommit, End, Goto
  <1>11. ASSUME NEW r \in Requests, ChangeRead(r) PROVE OneSession'
    BY <1>0, <1>a, <1>11 DEF TypeOK, SweepIsComplete, PresentedWereFresh,
      RotationHolds, Rotating, ChangeRead, Goto
  <1>12. ASSUME NEW r \in Requests, ChangeCommit(r) PROVE OneSession'
    BY <1>0, <1>a, <1>12 DEF TypeOK, SweepIsComplete, PresentedWereFresh,
      RotationHolds, Rotating, ChangeCommit, End, Goto
  <1>13. ASSUME NEW r \in Requests, ResetRead(r) PROVE OneSession'
    BY <1>0, <1>a, <1>13 DEF TypeOK, SweepIsComplete, PresentedWereFresh,
      RotationHolds, Rotating, ResetRead, Goto
  <1>14. ASSUME NEW r \in Requests, ResetCommit(r) PROVE OneSession'
    BY <1>0, <1>a, <1>14 DEF TypeOK, SweepIsComplete, PresentedWereFresh,
      RotationHolds, Rotating, ResetCommit, End, Goto
  <1>15. ASSUME NEW t \in Tokens, Logout(t) PROVE OneSession'
    BY <1>0, <1>a, <1>15 DEF TypeOK, SweepIsComplete, PresentedWereFresh,
      RotationHolds, Rotating, Logout
  <1>16. ASSUME NEW t \in Tokens, Expire(t) PROVE OneSession'
    BY <1>0, <1>a, <1>16 DEF TypeOK, SweepIsComplete, PresentedWereFresh,
      RotationHolds, Rotating, Expire
  <1>17. CASE SetStatus
    BY <1>0, <1>a, <1>17 DEF TypeOK, SweepIsComplete, PresentedWereFresh,
      RotationHolds, Rotating, SetStatus
  <1>18. CASE Deadlock
    BY <1>0, <1>a, <1>18 DEF TypeOK, SweepIsComplete, PresentedWereFresh,
      RotationHolds, Rotating, Deadlock, End, Goto
  <1>19. ASSUME NEW r \in Requests, RequestFails(r) PROVE OneSession'
    BY <1>0, <1>a, <1>19 DEF TypeOK, SweepIsComplete, PresentedWereFresh,
      RotationHolds, Rotating, RequestFails, End, Goto
  <1>20. CASE UNCHANGED vars
    BY <1>0, <1>a, <1>20 DEF TypeOK, SweepIsComplete, PresentedWereFresh,
      RotationHolds, Rotating
  <1> QED BY <1>1, <1>2, <1>3, <1>4, <1>5, <1>6, <1>7, <1>8, <1>9, <1>10,
    <1>11, <1>12, <1>13, <1>14, <1>15, <1>16, <1>17, <1>18, <1>19, <1>20 DEF
    Next, Continue

\* At most one refresh token of the user is active (OneSession).
THEOREM SessionIsUnique == Spec => []OneSession
  <1>1. Init => OneSession
    BY DEF Init, OneSession, Active
  <1>2. IInv /\ OneSession /\ [Next]_vars => OneSession'
    BY SessionStep
  <1> QED BY Invariance, <1>1, <1>2, PTL DEF Spec

\* Only an active token is exchanged, and its exchange revokes it.
LEMMA ExchangeStep == IInv /\ ExchangedOnce /\ [Next]_vars => ExchangedOnce'
  <1> SUFFICES ASSUME IInv /\ ExchangedOnce /\ [Next]_vars PROVE ExchangedOnce'
    OBVIOUS
  <1> USE DEF vars, userVars, tokenVars, requestVars, ExchangedOnce
  <1>0. TypeOK /\ ExchangedOnce
    BY DEF IInv, AccountInvariant
  <1>a. ParentsAreRevoked /\ RotationHolds
    BY DEF IInv, AccountInvariant
  <1>1. ASSUME NEW r \in Requests, LoginLock(r) PROVE ExchangedOnce'
    BY <1>0, <1>a, <1>1 DEF TypeOK, ParentsAreRevoked, RotationHolds, Rotating,
      LoginLock, Goto
  <1>2. ASSUME NEW r \in Requests, LoginSweep(r) PROVE ExchangedOnce'
    BY <1>0, <1>a, <1>2 DEF TypeOK, ParentsAreRevoked, RotationHolds, Rotating,
      LoginSweep, Goto
  <1>3. ASSUME NEW r \in Requests, LoginCommit(r) PROVE ExchangedOnce'
    BY <1>0, <1>a, <1>3 DEF TypeOK, ParentsAreRevoked, RotationHolds, Rotating,
      LoginCommit, End, Goto
  <1>4. ASSUME NEW r \in Requests, NEW t \in Tokens, RefreshFind(r, t)
       PROVE ExchangedOnce'
    BY <1>0, <1>a, <1>4 DEF TypeOK, ParentsAreRevoked, RotationHolds, Rotating,
      RefreshFind, Goto
  <1>5. ASSUME NEW r \in Requests, RefreshCheck(r) PROVE ExchangedOnce'
    BY <1>0, <1>a, <1>5 DEF TypeOK, ParentsAreRevoked, RotationHolds, Rotating,
      RefreshCheck, Goto
  <1>6. ASSUME NEW r \in Requests, RefreshDisabled(r) PROVE ExchangedOnce'
    BY <1>0, <1>a, <1>6 DEF TypeOK, ParentsAreRevoked, RotationHolds, Rotating,
      RefreshDisabled, End, Goto
  <1>7. ASSUME NEW r \in Requests, RefreshRevoke(r) PROVE ExchangedOnce'
    BY <1>0, <1>a, <1>7 DEF TypeOK, ParentsAreRevoked, RotationHolds, Rotating,
      RefreshRevoke, Goto
  <1>8. ASSUME NEW r \in Requests, RefreshReplay(r) PROVE ExchangedOnce'
    BY <1>0, <1>a, <1>8 DEF TypeOK, ParentsAreRevoked, RotationHolds, Rotating,
      RefreshReplay, End, Goto
  <1>9. ASSUME NEW r \in Requests, RefreshIssue(r) PROVE ExchangedOnce'
    BY <1>0, <1>a, <1>9 DEF TypeOK, ParentsAreRevoked, RotationHolds, Rotating,
      RefreshIssue, Goto
  <1>10. ASSUME NEW r \in Requests, RefreshCommit(r) PROVE ExchangedOnce'
    BY <1>0, <1>a, <1>10 DEF TypeOK, ParentsAreRevoked, RotationHolds,
      Rotating, RefreshCommit, End, Goto
  <1>11. ASSUME NEW r \in Requests, ChangeRead(r) PROVE ExchangedOnce'
    BY <1>0, <1>a, <1>11 DEF TypeOK, ParentsAreRevoked, RotationHolds,
      Rotating, ChangeRead, Goto
  <1>12. ASSUME NEW r \in Requests, ChangeCommit(r) PROVE ExchangedOnce'
    BY <1>0, <1>a, <1>12 DEF TypeOK, ParentsAreRevoked, RotationHolds,
      Rotating, ChangeCommit, End, Goto
  <1>13. ASSUME NEW r \in Requests, ResetRead(r) PROVE ExchangedOnce'
    BY <1>0, <1>a, <1>13 DEF TypeOK, ParentsAreRevoked, RotationHolds,
      Rotating, ResetRead, Goto
  <1>14. ASSUME NEW r \in Requests, ResetCommit(r) PROVE ExchangedOnce'
    BY <1>0, <1>a, <1>14 DEF TypeOK, ParentsAreRevoked, RotationHolds,
      Rotating, ResetCommit, End, Goto
  <1>15. ASSUME NEW t \in Tokens, Logout(t) PROVE ExchangedOnce'
    BY <1>0, <1>a, <1>15 DEF TypeOK, ParentsAreRevoked, RotationHolds,
      Rotating, Logout
  <1>16. ASSUME NEW t \in Tokens, Expire(t) PROVE ExchangedOnce'
    BY <1>0, <1>a, <1>16 DEF TypeOK, ParentsAreRevoked, RotationHolds,
      Rotating, Expire
  <1>17. CASE SetStatus
    BY <1>0, <1>a, <1>17 DEF TypeOK, ParentsAreRevoked, RotationHolds,
      Rotating, SetStatus
  <1>18. CASE Deadlock
    BY <1>0, <1>a, <1>18 DEF TypeOK, ParentsAreRevoked, RotationHolds,
      Rotating, Deadlock, End, Goto
  <1>19. ASSUME NEW r \in Requests, RequestFails(r) PROVE ExchangedOnce'
    BY <1>0, <1>a, <1>19 DEF TypeOK, ParentsAreRevoked, RotationHolds,
      Rotating, RequestFails, End, Goto
  <1>20. CASE UNCHANGED vars
    BY <1>0, <1>a, <1>20 DEF TypeOK, ParentsAreRevoked, RotationHolds, Rotating
  <1> QED BY <1>1, <1>2, <1>3, <1>4, <1>5, <1>6, <1>7, <1>8, <1>9, <1>10,
    <1>11, <1>12, <1>13, <1>14, <1>15, <1>16, <1>17, <1>18, <1>19, <1>20 DEF
    Next, Continue

\* No refresh token is exchanged twice (ExchangedOnce).
THEOREM ExchangeIsUnique == Spec => []ExchangedOnce
  <1>1. Init => ExchangedOnce
    BY DEF Init, ExchangedOnce
  <1>2. IInv /\ ExchangedOnce /\ [Next]_vars => ExchangedOnce'
    BY ExchangeStep
  <1> QED BY Invariance, <1>1, <1>2, PTL DEF Spec

\* A step that leaves the user's columns alone leaves this as it is; a change
\* makes the password the user's own, and a reset knows the flag.
LEMMA ObligationStep == IInv /\ ResetObliges /\ [Next]_vars => ResetObliges'
  <1> SUFFICES ASSUME IInv, ResetObliges, [Next]_vars PROVE ResetObliges'
    OBVIOUS
  <1>0. TypeOK /\ ResetsKnowTheFlag
    BY DEF IInv, AccountInvariant
  <1>1. ASSUME NEW r \in Requests, ChangeCommit(r) PROVE ResetObliges'
    BY <1>1 DEF ChangeCommit, ResetObliges
  <1>2. ASSUME NEW r \in Requests, ResetCommit(r) PROVE ResetObliges'
    <2>1. must' \/ r \in overtaken
      BY <1>0, <1>2 DEF TypeOK, ResetsKnowTheFlag, ResetCommit
    <2> QED BY <1>2, <2>1 DEF ResetCommit, ResetObliges
  <1>3. CASE password' = password /\ must' = must /\ escaped' = escaped
    BY <1>3 DEF ResetObliges
  <1>4. \/ \E r \in Requests : ChangeCommit(r) \/ ResetCommit(r)
        \/ password' = password /\ must' = must /\ escaped' = escaped
    BY DEF Next, Continue, vars, userVars, LoginLock, LoginSweep, LoginCommit,
       RefreshFind, RefreshCheck, RefreshDisabled, RefreshRevoke, RefreshReplay,
       RefreshIssue, RefreshCommit, ChangeRead, ResetRead, Logout, Expire,
       SetStatus, Deadlock, RequestFails
  <1> QED BY <1>1, <1>2, <1>3, <1>4

\* A password that an administrator has set must be changed, unless a change of
\* the password overtook the reset (ResetObliges).
THEOREM ResetsOblige == Spec => []ResetObliges
  <1>1. Init => ResetObliges
    BY DEF Init, ResetObliges
  <1>2. IInv /\ ResetObliges /\ [Next]_vars => ResetObliges'
    BY ObligationStep
  <1> QED BY Invariance, <1>1, <1>2, PTL DEF Spec

\* A login never ends with a token for a disabled user (DisabledCannotLogIn).
THEOREM DisabledStayOut == Spec => DisabledCannotLogIn
  <1>1. IInv /\ [Next]_vars =>
          [\A r \in Requests : LoginCommit(r) => status = "ACTIVE"]_vars
    BY DEF IInv, AccountInvariant, UserLockHolds, LoggingIn, LoginCommit
  <1> QED BY Invariance, <1>1, PTL DEF Spec, DisabledCannotLogIn

=============================================================================
