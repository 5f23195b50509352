---------------------------- MODULE UploadProofs ----------------------------
(***************************************************************************)
(* Theorems about Upload, for any number of requests, sessions, chunks,    *)
(* documents and interrupted cleanups.                                     *)
(***************************************************************************)
EXTENDS Upload, FiniteSetTheorems, TLAPS

\* The invariant that every theorem below rests on.
IInv == TypeOK /\ SessionInvariant

\* The initial state satisfies the invariant.
LEMMA InitIInv == Init => IInv
  <1> SUFFICES ASSUME Init PROVE IInv
    OBVIOUS
  <1> USE UploadAssumption DEF Init, NoChunks, Chunks
  <1>1. TypeOK
    BY DEF TypeOK, SessionStatuses, ClientSteps, Bodies
  <1>2. CompletesAreSerial /\ RequestsHaveSessions /\ CompletingIsSafe
    BY DEF CompletesAreSerial, RequestsHaveSessions, CompletingIsSafe, Completing
  <1>3. RowsHaveObjects /\ StoredIsKept
    BY DEF RowsHaveObjects, StoredIsKept
  <1>4. CleanupKnowsItsWork /\ GoneHasNoRows
    BY DEF CleanupKnowsItsWork, GoneHasNoRows
  <1>5. BodiesAreCounted
    BY DEF BodiesAreCounted, Completing
  <1> QED BY <1>1, <1>2, <1>3, <1>4, <1>5 DEF IInv, SessionInvariant

\* The chunk keys of a session.
LEMMA KeysType ==
  ASSUME TypeOK, NEW s \in Sessions
  PROVE  KeysOf(s) \subseteq {s} \X Indexes
  BY DEF KeysOf

\* A chunk request adds its own row and leaves the others.
LEMMA ChunkCommitRows ==
  ASSUME TypeOK, NEW c \in Clients, ChunkCommit(c), csession[c] \in Sessions
  PROVE  /\ rows' \in [Sessions -> Bodies]
         /\ \A s \in Sessions, i \in Indexes :
              /\ rows[s][i] > 0 => rows'[s][i] > 0
              /\ rows'[s][i] > 0 =>
                   rows[s][i] > 0 \/ (s = csession[c] /\ i = cindex[c])
  <1>1. cindex[c] \in Indexes /\ rows[csession[c]][cindex[c]] \in 0..MaxRows
    BY DEF TypeOK, Bodies
  <1>2. rows[csession[c]][cindex[c]] + 1 \in 1..MaxRows
    BY <1>1, UploadAssumption DEF ChunkCommit
  <1> QED BY <1>1, <1>2, UploadAssumption DEF TypeOK, ChunkCommit, Bodies

\* Every step preserves the types.
LEMMA TypeStep == IInv /\ [Next]_vars => TypeOK'
  <1> SUFFICES ASSUME IInv, [Next]_vars PROVE TypeOK'
    OBVIOUS
  <1> USE UploadAssumption DEF vars, sessionVars, docVars, clientVars,
        cleanVars, cleanWork
  <1>0. TypeOK /\ RequestsHaveSessions /\ CleanupKnowsItsWork
    BY DEF IInv, SessionInvariant
  <1>a. NoChunks \in Bodies /\ Whole \in Bodies /\ 0 \in Indexes
    BY DEF NoChunks, Whole, Bodies, Chunks
  <1>1. ASSUME NEW c \in Clients, DirectCheck(c) PROVE TypeOK'
    BY <1>0, <1>a, <1>1 DEF TypeOK, SessionStatuses, ClientSteps,
      RequestsHaveSessions, Completing, DirectCheck, Goto
  <1>2. ASSUME NEW c \in Clients, DirectCommit(c) PROVE TypeOK'
    BY <1>0, <1>a, <1>2 DEF TypeOK, SessionStatuses, ClientSteps,
      RequestsHaveSessions, Completing, DirectCommit, CreateDocument, Answer,
      Goto
  <1>3. ASSUME NEW c \in Clients, ChunkStore(c) PROVE TypeOK'
    BY <1>0, <1>a, <1>3 DEF TypeOK, SessionStatuses, ClientSteps,
      RequestsHaveSessions, Completing, ChunkStore, Goto
  <1>4. ASSUME NEW c \in Clients, ChunkCommit(c) PROVE TypeOK'
    <2>1. csession[c] \in Sessions
      BY <1>0, <1>4 DEF RequestsHaveSessions, ChunkCommit
    <2>2. rows' \in [Sessions -> Bodies]
      BY <1>0, <1>4, <2>1, ChunkCommitRows
    <2> QED BY <1>0, <1>a, <1>4, <2>1, <2>2
          DEF TypeOK, SessionStatuses, ClientSteps, ChunkCommit, Answer, Goto
  <1>5. ASSUME NEW c \in Clients, CompleteCompose(c) PROVE TypeOK'
    BY <1>0, <1>a, <1>5 DEF TypeOK, SessionStatuses, ClientSteps,
      RequestsHaveSessions, Completing, CompleteCompose, Goto
  <1>6. ASSUME NEW c \in Clients, CompleteCheck(c) PROVE TypeOK'
    BY <1>0, <1>a, <1>6 DEF TypeOK, SessionStatuses, ClientSteps,
      RequestsHaveSessions, Completing, CompleteCheck, Goto
  <1>7. ASSUME NEW c \in Clients, CompleteDuplicate(c) PROVE TypeOK'
    BY <1>0, <1>a, <1>7 DEF TypeOK, SessionStatuses, ClientSteps,
      RequestsHaveSessions, Completing, CompleteDuplicate, Answer, Goto
  <1>8. ASSUME NEW c \in Clients, CompleteCommit(c) PROVE TypeOK'
    BY <1>0, <1>a, <1>8 DEF TypeOK, SessionStatuses, ClientSteps,
      RequestsHaveSessions, Completing, CompleteCommit, CreateDocument, Answer,
      Goto
  <1>9. ASSUME NEW c \in Clients, RequestFails(c) PROVE TypeOK'
    BY <1>0, <1>a, <1>9 DEF TypeOK, SessionStatuses, ClientSteps,
      RequestsHaveSessions, Completing, RequestFails, Answer, Goto
  <1>10. ASSUME NEW c \in Clients, NEW s \in Sessions, NEW i \in Indexes,
                ChunkRead(c, s, i)
         PROVE TypeOK'
    BY <1>0, <1>a, <1>10 DEF TypeOK, SessionStatuses, ClientSteps,
      RequestsHaveSessions, Completing, ChunkRead, Goto
  <1>11. ASSUME NEW c \in Clients, NEW s \in Sessions, CompleteLock(c, s)
         PROVE TypeOK'
    BY <1>0, <1>a, <1>11 DEF TypeOK, SessionStatuses, ClientSteps,
      RequestsHaveSessions, Completing, CompleteLock, Goto
  <1>12. ASSUME NEW s \in Sessions, InitUpload(s) PROVE TypeOK'
    BY <1>0, <1>a, <1>12 DEF TypeOK, SessionStatuses, ClientSteps,
      RequestsHaveSessions, Completing, InitUpload
  <1>13. ASSUME NEW s \in Sessions, Expire(s) PROVE TypeOK'
    BY <1>0, <1>a, <1>13 DEF TypeOK, SessionStatuses, ClientSteps,
      RequestsHaveSessions, Completing, Expire
  <1>14. ASSUME NEW d \in DocIds, DeleteDocument(d) PROVE TypeOK'
    BY <1>0, <1>a, <1>14 DEF TypeOK, SessionStatuses, ClientSteps,
      RequestsHaveSessions, Completing, DeleteDocument
  <1>15. CASE CleanSelect
    BY <1>0, <1>a, <1>15 DEF TypeOK, SessionStatuses, ClientSteps,
      RequestsHaveSessions, Completing, CleanSelect
  <1>16. ASSUME NEW s \in Sessions, CleanRows(s) PROVE TypeOK'
    BY <1>0, <1>a, <1>16, KeysType DEF TypeOK, CleanRows
  <1>17. CASE CleanSession
    BY <1>0, <1>a, <1>17 DEF TypeOK, CleanupKnowsItsWork, CleanSession
  <1>18. CASE CleanObjects
    BY <1>0, <1>a, <1>18 DEF TypeOK, SessionStatuses, ClientSteps,
      RequestsHaveSessions, Completing, CleanObjects
  <1>19. CASE CleanCommit
    BY <1>0, <1>a, <1>19 DEF TypeOK, SessionStatuses, ClientSteps,
      RequestsHaveSessions, Completing, CleanCommit, CleanEnds
  <1>20. CASE CleanBlocked
    BY <1>0, <1>a, <1>20 DEF TypeOK, SessionStatuses, ClientSteps,
      RequestsHaveSessions, Completing, CleanBlocked, CleanEnds
  <1>21. CASE CleanAborts
    <2>1. faults' \in 0..MaxFaults
      BY <1>0, <1>21 DEF TypeOK, CleanAborts
    <2> QED BY <1>0, <1>a, <1>21, <2>1 DEF TypeOK, CleanAborts, CleanEnds
  <1>22. CASE UNCHANGED vars
    BY <1>0, <1>a, <1>22 DEF TypeOK, SessionStatuses, ClientSteps,
      RequestsHaveSessions, Completing
  <1> QED BY <1>1, <1>2, <1>3, <1>4, <1>5, <1>6, <1>7, <1>8, <1>9, <1>10,
    <1>11, <1>12, <1>13, <1>14, <1>15, <1>16, <1>17, <1>18, <1>19, <1>20,
    <1>21, <1>22 DEF Next, ClientNext, CleanNext

\* A session is completed by one request at a time.
LEMMA SerialStep == IInv /\ [Next]_vars => CompletesAreSerial'
  <1> SUFFICES ASSUME IInv, [Next]_vars PROVE CompletesAreSerial'
    OBVIOUS
  <1> USE DEF vars, sessionVars, docVars, clientVars, cleanVars, cleanWork,
        CompletesAreSerial, Completing
  <1>0. TypeOK /\ CompletesAreSerial
    BY DEF IInv, SessionInvariant
  <1>1. ASSUME NEW c \in Clients, DirectCheck(c) PROVE CompletesAreSerial'
    BY <1>0, <1>1 DEF TypeOK, DirectCheck, Goto
  <1>2. ASSUME NEW c \in Clients, DirectCommit(c) PROVE CompletesAreSerial'
    BY <1>0, <1>2 DEF TypeOK, DirectCommit, CreateDocument, Answer, Goto
  <1>3. ASSUME NEW c \in Clients, ChunkStore(c) PROVE CompletesAreSerial'
    BY <1>0, <1>3 DEF TypeOK, ChunkStore, Goto
  <1>4. ASSUME NEW c \in Clients, ChunkCommit(c) PROVE CompletesAreSerial'
    BY <1>0, <1>4 DEF TypeOK, ChunkCommit, Answer, Goto
  <1>5. ASSUME NEW c \in Clients, CompleteCompose(c) PROVE CompletesAreSerial'
    BY <1>0, <1>5 DEF TypeOK, CompleteCompose, Goto
  <1>6. ASSUME NEW c \in Clients, CompleteCheck(c) PROVE CompletesAreSerial'
    BY <1>0, <1>6 DEF TypeOK, CompleteCheck, Goto
  <1>7. ASSUME NEW c \in Clients, CompleteDuplicate(c)
        PROVE CompletesAreSerial'
    BY <1>0, <1>7 DEF TypeOK, CompleteDuplicate, Answer, Goto
  <1>8. ASSUME NEW c \in Clients, CompleteCommit(c) PROVE CompletesAreSerial'
    BY <1>0, <1>8 DEF TypeOK, CompleteCommit, CreateDocument, Answer, Goto
  <1>9. ASSUME NEW c \in Clients, RequestFails(c) PROVE CompletesAreSerial'
    BY <1>0, <1>9 DEF TypeOK, RequestFails, Answer, Goto
  <1>10. ASSUME NEW c \in Clients, NEW s \in Sessions, NEW i \in Indexes,
                ChunkRead(c, s, i)
         PROVE CompletesAreSerial'
    BY <1>0, <1>10 DEF TypeOK, ChunkRead, Goto
  <1>11. ASSUME NEW c \in Clients, NEW s \in Sessions, CompleteLock(c, s)
         PROVE CompletesAreSerial'
    BY <1>0, <1>11 DEF TypeOK, CompleteLock, LockedByClient, Goto
  <1>12. ASSUME NEW s \in Sessions, InitUpload(s) PROVE CompletesAreSerial'
    BY <1>0, <1>12 DEF TypeOK, InitUpload
  <1>13. ASSUME NEW s \in Sessions, Expire(s) PROVE CompletesAreSerial'
    BY <1>0, <1>13 DEF TypeOK, Expire
  <1>14. ASSUME NEW d \in DocIds, DeleteDocument(d) PROVE CompletesAreSerial'
    BY <1>0, <1>14 DEF TypeOK, DeleteDocument
  <1>15. CASE CleanSelect
    BY <1>0, <1>15 DEF TypeOK, CleanSelect
  <1>16. ASSUME NEW s \in Sessions, CleanRows(s) PROVE CompletesAreSerial'
    BY <1>0, <1>16 DEF TypeOK, CleanRows
  <1>17. CASE CleanSession
    BY <1>0, <1>17 DEF TypeOK, CleanSession
  <1>18. CASE CleanObjects
    BY <1>0, <1>18 DEF TypeOK, CleanObjects
  <1>19. CASE CleanCommit
    BY <1>0, <1>19 DEF TypeOK, CleanCommit, CleanEnds
  <1>20. CASE CleanBlocked
    BY <1>0, <1>20 DEF TypeOK, CleanBlocked, CleanEnds
  <1>21. CASE CleanAborts
    BY <1>0, <1>21 DEF TypeOK, CleanAborts, CleanEnds
  <1>22. CASE UNCHANGED vars
    BY <1>0, <1>22 DEF TypeOK
  <1> QED BY <1>1, <1>2, <1>3, <1>4, <1>5, <1>6, <1>7, <1>8, <1>9, <1>10,
    <1>11, <1>12, <1>13, <1>14, <1>15, <1>16, <1>17, <1>18, <1>19, <1>20,
    <1>21, <1>22 DEF Next, ClientNext, CleanNext

\* Requests keep their sessions.
LEMMA RequestsStep == IInv /\ [Next]_vars => RequestsHaveSessions'
  <1> SUFFICES ASSUME IInv, [Next]_vars PROVE RequestsHaveSessions'
    OBVIOUS
  <1> USE DEF vars, sessionVars, docVars, clientVars, cleanVars, cleanWork,
        RequestsHaveSessions, Completing
  <1>0. TypeOK /\ RequestsHaveSessions
    BY DEF IInv, SessionInvariant
  <1>1. ASSUME NEW c \in Clients, DirectCheck(c) PROVE RequestsHaveSessions'
    BY <1>0, <1>1 DEF TypeOK, DirectCheck, Goto
  <1>2. ASSUME NEW c \in Clients, DirectCommit(c) PROVE RequestsHaveSessions'
    BY <1>0, <1>2 DEF TypeOK, DirectCommit, CreateDocument, Answer, Goto
  <1>3. ASSUME NEW c \in Clients, ChunkStore(c) PROVE RequestsHaveSessions'
    BY <1>0, <1>3 DEF TypeOK, ChunkStore, Goto
  <1>4. ASSUME NEW c \in Clients, ChunkCommit(c) PROVE RequestsHaveSessions'
    BY <1>0, <1>4 DEF TypeOK, ChunkCommit, Answer, Goto
  <1>5. ASSUME NEW c \in Clients, CompleteCompose(c)
        PROVE RequestsHaveSessions'
    BY <1>0, <1>5 DEF TypeOK, CompleteCompose, Goto
  <1>6. ASSUME NEW c \in Clients, CompleteCheck(c) PROVE RequestsHaveSessions'
    BY <1>0, <1>6 DEF TypeOK, CompleteCheck, Goto
  <1>7. ASSUME NEW c \in Clients, CompleteDuplicate(c)
        PROVE RequestsHaveSessions'
    BY <1>0, <1>7 DEF TypeOK, CompleteDuplicate, Answer, Goto
  <1>8. ASSUME NEW c \in Clients, CompleteCommit(c) PROVE RequestsHaveSessions'
    BY <1>0, <1>8 DEF TypeOK, CompleteCommit, CreateDocument, Answer, Goto
  <1>9. ASSUME NEW c \in Clients, RequestFails(c) PROVE RequestsHaveSessions'
    BY <1>0, <1>9 DEF TypeOK, RequestFails, Answer, Goto
  <1>10. ASSUME NEW c \in Clients, NEW s \in Sessions, NEW i \in Indexes,
                ChunkRead(c, s, i)
         PROVE RequestsHaveSessions'
    BY <1>0, <1>10 DEF TypeOK, ChunkRead, Goto
  <1>11. ASSUME NEW c \in Clients, NEW s \in Sessions, CompleteLock(c, s)
         PROVE RequestsHaveSessions'
    BY <1>0, <1>11 DEF TypeOK, CompleteLock, Goto
  <1>12. ASSUME NEW s \in Sessions, InitUpload(s) PROVE RequestsHaveSessions'
    BY <1>0, <1>12 DEF TypeOK, InitUpload
  <1>13. ASSUME NEW s \in Sessions, Expire(s) PROVE RequestsHaveSessions'
    BY <1>0, <1>13 DEF TypeOK, Expire
  <1>14. ASSUME NEW d \in DocIds, DeleteDocument(d) PROVE RequestsHaveSessions'
    BY <1>0, <1>14 DEF TypeOK, DeleteDocument
  <1>15. CASE CleanSelect
    BY <1>0, <1>15 DEF TypeOK, CleanSelect
  <1>16. ASSUME NEW s \in Sessions, CleanRows(s) PROVE RequestsHaveSessions'
    BY <1>0, <1>16 DEF TypeOK, CleanRows
  <1>17. CASE CleanSession
    BY <1>0, <1>17 DEF TypeOK, CleanSession
  <1>18. CASE CleanObjects
    BY <1>0, <1>18 DEF TypeOK, CleanObjects
  <1>19. CASE CleanCommit
    BY <1>0, <1>19 DEF TypeOK, CleanCommit, CleanEnds
  <1>20. CASE CleanBlocked
    BY <1>0, <1>20 DEF TypeOK, CleanBlocked, CleanEnds
  <1>21. CASE CleanAborts
    BY <1>0, <1>21 DEF TypeOK, CleanAborts, CleanEnds
  <1>22. CASE UNCHANGED vars
    BY <1>0, <1>22 DEF TypeOK
  <1> QED BY <1>1, <1>2, <1>3, <1>4, <1>5, <1>6, <1>7, <1>8, <1>9, <1>10,
    <1>11, <1>12, <1>13, <1>14, <1>15, <1>16, <1>17, <1>18, <1>19, <1>20,
    <1>21, <1>22 DEF Next, ClientNext, CleanNext

\* A session that is being completed stays, with its chunk rows.
LEMMA CompletingStep == IInv /\ [Next]_vars => CompletingIsSafe'
  <1> SUFFICES ASSUME IInv, [Next]_vars PROVE CompletingIsSafe'
    OBVIOUS
  <1> USE DEF vars, sessionVars, docVars, clientVars, cleanVars, cleanWork,
        CompletingIsSafe, Completing, Exists
  <1>0. TypeOK /\ CompletingIsSafe /\ RequestsHaveSessions
    BY DEF IInv, SessionInvariant
  <1>b. CleanupKnowsItsWork
    BY DEF IInv, SessionInvariant
  <1>1. ASSUME NEW c \in Clients, DirectCheck(c) PROVE CompletingIsSafe'
    BY <1>0, <1>1 DEF TypeOK, RequestsHaveSessions, DirectCheck, Goto
  <1>2. ASSUME NEW c \in Clients, DirectCommit(c) PROVE CompletingIsSafe'
    BY <1>0, <1>2 DEF TypeOK, RequestsHaveSessions, DirectCommit,
      CreateDocument, Answer, Goto
  <1>3. ASSUME NEW c \in Clients, ChunkStore(c) PROVE CompletingIsSafe'
    BY <1>0, <1>3 DEF TypeOK, RequestsHaveSessions, ChunkStore, Goto
  <1>4. ASSUME NEW c \in Clients, ChunkCommit(c) PROVE CompletingIsSafe'
    <2>1. csession[c] \in Sessions
      BY <1>0, <1>4 DEF RequestsHaveSessions, ChunkCommit
    <2> SUFFICES ASSUME NEW k \in Clients, Completing(k)'
                 PROVE  /\ Exists(csession[k])'
                        /\ (csession[k] \notin kdeleted)'
                        /\ \A i \in Indexes :
                             (cbody[k][i] > 0 => rows[csession[k]][i] > 0)'
      OBVIOUS
    <2>2. /\ Completing(k) /\ csession'[k] = csession[k] /\ cbody'[k] = cbody[k]
          /\ kdeleted' = kdeleted
      BY <1>0, <1>4 DEF TypeOK, ChunkCommit, Answer, Goto
    <2>3. csession[k] \in Sessions
      BY <1>0, <2>2 DEF RequestsHaveSessions
    <2>4. Exists(csession[k])'
      BY <1>0, <1>4, <2>1, <2>2, <2>3 DEF TypeOK, ChunkCommit
    <2> QED BY <1>0, <1>4, <2>1, <2>2, <2>3, <2>4, ChunkCommitRows
  <1>5. ASSUME NEW c \in Clients, CompleteCompose(c) PROVE CompletingIsSafe'
    BY <1>0, <1>5 DEF TypeOK, RequestsHaveSessions, CompleteCompose, Goto
  <1>6. ASSUME NEW c \in Clients, CompleteCheck(c) PROVE CompletingIsSafe'
    BY <1>0, <1>6 DEF TypeOK, RequestsHaveSessions, CompleteCheck, Goto
  <1>7. ASSUME NEW c \in Clients, CompleteDuplicate(c) PROVE CompletingIsSafe'
    BY <1>0, <1>7 DEF TypeOK, RequestsHaveSessions, CompleteDuplicate, Answer,
      Goto
  <1>8. ASSUME NEW c \in Clients, CompleteCommit(c) PROVE CompletingIsSafe'
    BY <1>0, <1>8 DEF TypeOK, RequestsHaveSessions, CompleteCommit,
      CreateDocument, Answer, Goto
  <1>9. ASSUME NEW c \in Clients, RequestFails(c) PROVE CompletingIsSafe'
    BY <1>0, <1>9 DEF TypeOK, RequestsHaveSessions, RequestFails, Answer, Goto
  <1>10. ASSUME NEW c \in Clients, NEW s \in Sessions, NEW i \in Indexes,
                ChunkRead(c, s, i)
         PROVE CompletingIsSafe'
    BY <1>0, <1>10 DEF TypeOK, RequestsHaveSessions, ChunkRead, Goto
  <1>11. ASSUME NEW c \in Clients, NEW s \in Sessions, CompleteLock(c, s)
         PROVE CompletingIsSafe'
    BY <1>0, <1>11 DEF TypeOK, RequestsHaveSessions, CompleteLock, Goto
  <1>12. ASSUME NEW s \in Sessions, InitUpload(s) PROVE CompletingIsSafe'
    BY <1>0, <1>12 DEF TypeOK, RequestsHaveSessions, InitUpload
  <1>13. ASSUME NEW s \in Sessions, Expire(s) PROVE CompletingIsSafe'
    BY <1>0, <1>13 DEF TypeOK, RequestsHaveSessions, Expire
  <1>14. ASSUME NEW d \in DocIds, DeleteDocument(d) PROVE CompletingIsSafe'
    BY <1>0, <1>14 DEF TypeOK, RequestsHaveSessions, DeleteDocument
  <1>15. CASE CleanSelect
    BY <1>0, <1>15 DEF TypeOK, RequestsHaveSessions, CleanSelect
  <1>16. ASSUME NEW s \in Sessions, CleanRows(s) PROVE CompletingIsSafe'
    BY <1>0, <1>16 DEF TypeOK, RequestsHaveSessions, CleanRows
  <1>17. CASE CleanSession
    BY <1>0, <1>b, <1>17
      DEF TypeOK, CleanSession, CleanupKnowsItsWork, LockedByClient
  <1>18. CASE CleanObjects
    BY <1>0, <1>18 DEF TypeOK, RequestsHaveSessions, CleanObjects
  <1>19. CASE CleanCommit
    BY <1>0, <1>19 DEF TypeOK, RequestsHaveSessions, CleanCommit, CleanEnds
  <1>20. CASE CleanBlocked
    BY <1>0, <1>20 DEF TypeOK, RequestsHaveSessions, CleanBlocked, CleanEnds
  <1>21. CASE CleanAborts
    BY <1>0, <1>21 DEF TypeOK, RequestsHaveSessions, CleanAborts, CleanEnds
  <1>22. CASE UNCHANGED vars
    BY <1>0, <1>22 DEF TypeOK, RequestsHaveSessions
  <1> QED BY <1>1, <1>2, <1>3, <1>4, <1>5, <1>6, <1>7, <1>8, <1>9, <1>10,
    <1>11, <1>12, <1>13, <1>14, <1>15, <1>16, <1>17, <1>18, <1>19, <1>20,
    <1>21, <1>22 DEF Next, ClientNext, CleanNext

\* A chunk row keeps its object.
LEMMA ObjectsStep == IInv /\ [Next]_vars => RowsHaveObjects'
  <1> SUFFICES ASSUME IInv, [Next]_vars PROVE RowsHaveObjects'
    OBVIOUS
  <1> USE DEF vars, sessionVars, docVars, clientVars, cleanVars, cleanWork,
        RowsHaveObjects, Doomed
  <1>0. TypeOK /\ RowsHaveObjects /\ CleanupKnowsItsWork
    BY DEF IInv, SessionInvariant
  <1>1. ASSUME NEW c \in Clients, DirectCheck(c) PROVE RowsHaveObjects'
    BY <1>0, <1>1 DEF TypeOK, CleanupKnowsItsWork, DirectCheck, Goto
  <1>2. ASSUME NEW c \in Clients, DirectCommit(c) PROVE RowsHaveObjects'
    BY <1>0, <1>2 DEF TypeOK, CleanupKnowsItsWork, DirectCommit,
      CreateDocument, Answer, Goto
  <1>3. ASSUME NEW c \in Clients, ChunkStore(c) PROVE RowsHaveObjects'
    BY <1>0, <1>3 DEF TypeOK, CleanupKnowsItsWork, ChunkStore, Goto
  <1>4. ASSUME NEW c \in Clients, ChunkCommit(c) PROVE RowsHaveObjects'
    <2>1. csession[c] \in Sessions /\ StoredIsKept
      BY <1>4 DEF IInv, SessionInvariant, RequestsHaveSessions, ChunkCommit
    <2>2. \/ <<csession[c], cindex[c]>> \in objects
          \/ Doomed(csession[c])
      BY <1>4, <2>1 DEF StoredIsKept, ChunkCommit, Exists
    <2> QED BY <1>0, <1>4, <2>1, <2>2, ChunkCommitRows DEF ChunkCommit, Answer
  <1>5. ASSUME NEW c \in Clients, CompleteCompose(c) PROVE RowsHaveObjects'
    BY <1>0, <1>5 DEF TypeOK, CleanupKnowsItsWork, CompleteCompose, Goto
  <1>6. ASSUME NEW c \in Clients, CompleteCheck(c) PROVE RowsHaveObjects'
    BY <1>0, <1>6 DEF TypeOK, CleanupKnowsItsWork, CompleteCheck, Goto
  <1>7. ASSUME NEW c \in Clients, CompleteDuplicate(c) PROVE RowsHaveObjects'
    BY <1>0, <1>7 DEF TypeOK, CleanupKnowsItsWork, CompleteDuplicate, Answer,
      Goto
  <1>8. ASSUME NEW c \in Clients, CompleteCommit(c) PROVE RowsHaveObjects'
    BY <1>0, <1>8 DEF TypeOK, CleanupKnowsItsWork, CompleteCommit,
      CreateDocument, Answer, Goto
  <1>9. ASSUME NEW c \in Clients, RequestFails(c) PROVE RowsHaveObjects'
    BY <1>0, <1>9 DEF TypeOK, CleanupKnowsItsWork, RequestFails, Answer, Goto
  <1>10. ASSUME NEW c \in Clients, NEW s \in Sessions, NEW i \in Indexes,
                ChunkRead(c, s, i)
         PROVE RowsHaveObjects'
    BY <1>0, <1>10 DEF TypeOK, CleanupKnowsItsWork, ChunkRead, Goto
  <1>11. ASSUME NEW c \in Clients, NEW s \in Sessions, CompleteLock(c, s)
         PROVE RowsHaveObjects'
    BY <1>0, <1>11 DEF TypeOK, CleanupKnowsItsWork, CompleteLock, Goto
  <1>12. ASSUME NEW s \in Sessions, InitUpload(s) PROVE RowsHaveObjects'
    BY <1>0, <1>12 DEF TypeOK, CleanupKnowsItsWork, InitUpload
  <1>13. ASSUME NEW s \in Sessions, Expire(s) PROVE RowsHaveObjects'
    BY <1>0, <1>13 DEF TypeOK, CleanupKnowsItsWork, Expire
  <1>14. ASSUME NEW d \in DocIds, DeleteDocument(d) PROVE RowsHaveObjects'
    BY <1>0, <1>14 DEF TypeOK, CleanupKnowsItsWork, DeleteDocument
  <1>15. CASE CleanSelect
    BY <1>0, <1>15 DEF TypeOK, CleanupKnowsItsWork, CleanSelect
  <1>16. ASSUME NEW s \in Sessions, CleanRows(s) PROVE RowsHaveObjects'
    BY <1>0, <1>16 DEF TypeOK, CleanupKnowsItsWork, CleanRows
  <1>17. CASE CleanSession
    BY <1>0, <1>17 DEF TypeOK, CleanupKnowsItsWork, CleanSession
  <1>18. CASE CleanObjects
    BY <1>0, <1>18 DEF TypeOK, CleanupKnowsItsWork, CleanObjects
  <1>19. CASE CleanCommit
    <2>1. \A s \in kdeleted, i \in Indexes : ~(rows'[s][i] > 0)
      BY <1>0, <1>19 DEF TypeOK, CleanCommit, NoChunks
    <2> QED BY <1>0, <1>19, <2>1 DEF TypeOK, CleanCommit, CleanEnds
  <1>20. CASE CleanBlocked
    BY <1>0, <1>20 DEF TypeOK, CleanupKnowsItsWork, CleanBlocked, CleanEnds
  <1>21. CASE CleanAborts
    BY <1>0, <1>21 DEF TypeOK, CleanupKnowsItsWork, CleanAborts, CleanEnds
  <1>22. CASE UNCHANGED vars
    BY <1>0, <1>22 DEF TypeOK, CleanupKnowsItsWork
  <1> QED BY <1>1, <1>2, <1>3, <1>4, <1>5, <1>6, <1>7, <1>8, <1>9, <1>10,
    <1>11, <1>12, <1>13, <1>14, <1>15, <1>16, <1>17, <1>18, <1>19, <1>20,
    <1>21, <1>22 DEF Next, ClientNext, CleanNext

\* A stored chunk keeps its object until its row is inserted.
LEMMA StoredStep == IInv /\ [Next]_vars => StoredIsKept'
  <1> SUFFICES ASSUME IInv, [Next]_vars PROVE StoredIsKept'
    OBVIOUS
  <1> USE DEF vars, sessionVars, docVars, clientVars, cleanVars, cleanWork,
        StoredIsKept, Doomed
  <1>0. TypeOK /\ StoredIsKept /\ CleanupKnowsItsWork /\ RequestsHaveSessions
    BY DEF IInv, SessionInvariant
  <1>b. CompletingIsSafe
    BY DEF IInv, SessionInvariant
  <1>1. ASSUME NEW c \in Clients, DirectCheck(c) PROVE StoredIsKept'
    BY <1>0, <1>1 DEF TypeOK, CleanupKnowsItsWork, RequestsHaveSessions,
      DirectCheck, Goto
  <1>2. ASSUME NEW c \in Clients, DirectCommit(c) PROVE StoredIsKept'
    BY <1>0, <1>2 DEF TypeOK, CleanupKnowsItsWork, RequestsHaveSessions,
      DirectCommit, CreateDocument, Answer, Goto
  <1>3. ASSUME NEW c \in Clients, ChunkStore(c) PROVE StoredIsKept'
    BY <1>0, <1>3 DEF TypeOK, CleanupKnowsItsWork, RequestsHaveSessions,
      ChunkStore, Goto
  <1>4. ASSUME NEW c \in Clients, ChunkCommit(c) PROVE StoredIsKept'
    BY <1>0, <1>4 DEF TypeOK, RequestsHaveSessions, ChunkCommit, Exists, Answer,
                      Goto
  <1>5. ASSUME NEW c \in Clients, CompleteCompose(c) PROVE StoredIsKept'
    BY <1>0, <1>5 DEF TypeOK, CleanupKnowsItsWork, RequestsHaveSessions,
      CompleteCompose, Goto
  <1>6. ASSUME NEW c \in Clients, CompleteCheck(c) PROVE StoredIsKept'
    BY <1>0, <1>6 DEF TypeOK, CleanupKnowsItsWork, RequestsHaveSessions,
      CompleteCheck, Goto
  <1>7. ASSUME NEW c \in Clients, CompleteDuplicate(c) PROVE StoredIsKept'
    BY <1>0, <1>b, <1>7
      DEF TypeOK, CompletingIsSafe, Completing, Exists, CompleteDuplicate, Answer, Goto
  <1>8. ASSUME NEW c \in Clients, CompleteCommit(c) PROVE StoredIsKept'
    BY <1>0, <1>b, <1>8
      DEF TypeOK, CompletingIsSafe, Completing, Exists, CompleteCommit, Answer, Goto
  <1>9. ASSUME NEW c \in Clients, RequestFails(c) PROVE StoredIsKept'
    BY <1>0, <1>9 DEF TypeOK, CleanupKnowsItsWork, RequestsHaveSessions,
      RequestFails, Answer, Goto
  <1>10. ASSUME NEW c \in Clients, NEW s \in Sessions, NEW i \in Indexes,
                ChunkRead(c, s, i)
         PROVE StoredIsKept'
    BY <1>0, <1>10 DEF TypeOK, CleanupKnowsItsWork, RequestsHaveSessions,
      ChunkRead, Goto
  <1>11. ASSUME NEW c \in Clients, NEW s \in Sessions, CompleteLock(c, s)
         PROVE StoredIsKept'
    BY <1>0, <1>11 DEF TypeOK, CleanupKnowsItsWork, RequestsHaveSessions,
      CompleteLock, Goto
  <1>12. ASSUME NEW s \in Sessions, InitUpload(s) PROVE StoredIsKept'
    BY <1>0, <1>12 DEF TypeOK, CleanupKnowsItsWork, RequestsHaveSessions,
      InitUpload
  <1>13. ASSUME NEW s \in Sessions, Expire(s) PROVE StoredIsKept'
    BY <1>0, <1>13 DEF TypeOK, CleanupKnowsItsWork, RequestsHaveSessions,
      Expire
  <1>14. ASSUME NEW d \in DocIds, DeleteDocument(d) PROVE StoredIsKept'
    BY <1>0, <1>14 DEF TypeOK, CleanupKnowsItsWork, RequestsHaveSessions,
      DeleteDocument
  <1>15. CASE CleanSelect
    BY <1>0, <1>15 DEF TypeOK, CleanupKnowsItsWork, RequestsHaveSessions,
      CleanSelect
  <1>16. ASSUME NEW s \in Sessions, CleanRows(s) PROVE StoredIsKept'
    BY <1>0, <1>16 DEF TypeOK, CleanupKnowsItsWork, RequestsHaveSessions,
      CleanRows
  <1>17. CASE CleanSession
    BY <1>0, <1>17 DEF TypeOK, CleanupKnowsItsWork, RequestsHaveSessions,
      CleanSession
  <1>18. CASE CleanObjects
    BY <1>0, <1>18 DEF TypeOK, CleanupKnowsItsWork, RequestsHaveSessions,
      CleanObjects
  <1>19. CASE CleanCommit
    BY <1>0, <1>19 DEF TypeOK, CleanupKnowsItsWork, RequestsHaveSessions,
      CleanCommit, CleanEnds
  <1>20. CASE CleanBlocked
    BY <1>0, <1>20 DEF TypeOK, CleanupKnowsItsWork, RequestsHaveSessions,
      CleanBlocked, CleanEnds
  <1>21. CASE CleanAborts
    BY <1>0, <1>21 DEF TypeOK, CleanupKnowsItsWork, RequestsHaveSessions,
      CleanAborts, CleanEnds
  <1>22. CASE UNCHANGED vars
    BY <1>0, <1>22 DEF TypeOK, CleanupKnowsItsWork, RequestsHaveSessions
  <1> QED BY <1>1, <1>2, <1>3, <1>4, <1>5, <1>6, <1>7, <1>8, <1>9, <1>10,
    <1>11, <1>12, <1>13, <1>14, <1>15, <1>16, <1>17, <1>18, <1>19, <1>20,
    <1>21, <1>22 DEF Next, ClientNext, CleanNext

\* The cleanup deletes what it selected.
LEMMA CleanupStep == IInv /\ [Next]_vars => CleanupKnowsItsWork'
  <1> SUFFICES ASSUME IInv, [Next]_vars PROVE CleanupKnowsItsWork'
    OBVIOUS
  <1> USE DEF vars, sessionVars, docVars, clientVars, cleanVars, cleanWork,
        CleanupKnowsItsWork
  <1>0. TypeOK /\ CleanupKnowsItsWork
    BY DEF IInv, SessionInvariant
  <1>1. ASSUME NEW c \in Clients, DirectCheck(c) PROVE CleanupKnowsItsWork'
    BY <1>0, <1>1 DEF TypeOK, DirectCheck, Goto
  <1>2. ASSUME NEW c \in Clients, DirectCommit(c) PROVE CleanupKnowsItsWork'
    BY <1>0, <1>2 DEF TypeOK, DirectCommit, CreateDocument, Answer, Goto
  <1>3. ASSUME NEW c \in Clients, ChunkStore(c) PROVE CleanupKnowsItsWork'
    BY <1>0, <1>3 DEF TypeOK, ChunkStore, Goto
  <1>4. ASSUME NEW c \in Clients, ChunkCommit(c) PROVE CleanupKnowsItsWork'
    BY <1>0, <1>4 DEF TypeOK, ChunkCommit, Answer, Goto
  <1>5. ASSUME NEW c \in Clients, CompleteCompose(c) PROVE CleanupKnowsItsWork'
    BY <1>0, <1>5 DEF TypeOK, CompleteCompose, Goto
  <1>6. ASSUME NEW c \in Clients, CompleteCheck(c) PROVE CleanupKnowsItsWork'
    BY <1>0, <1>6 DEF TypeOK, CompleteCheck, Goto
  <1>7. ASSUME NEW c \in Clients, CompleteDuplicate(c)
        PROVE CleanupKnowsItsWork'
    BY <1>0, <1>7 DEF TypeOK, CompleteDuplicate, Answer, Goto
  <1>8. ASSUME NEW c \in Clients, CompleteCommit(c) PROVE CleanupKnowsItsWork'
    BY <1>0, <1>8 DEF TypeOK, CompleteCommit, CreateDocument, Answer, Goto
  <1>9. ASSUME NEW c \in Clients, RequestFails(c) PROVE CleanupKnowsItsWork'
    BY <1>0, <1>9 DEF TypeOK, RequestFails, Answer, Goto
  <1>10. ASSUME NEW c \in Clients, NEW s \in Sessions, NEW i \in Indexes,
                ChunkRead(c, s, i)
         PROVE CleanupKnowsItsWork'
    BY <1>0, <1>10 DEF TypeOK, ChunkRead, Goto
  <1>11. ASSUME NEW c \in Clients, NEW s \in Sessions, CompleteLock(c, s)
         PROVE CleanupKnowsItsWork'
    BY <1>0, <1>11 DEF TypeOK, CompleteLock, Goto
  <1>12. ASSUME NEW s \in Sessions, InitUpload(s) PROVE CleanupKnowsItsWork'
    BY <1>0, <1>12 DEF TypeOK, InitUpload
  <1>13. ASSUME NEW s \in Sessions, Expire(s) PROVE CleanupKnowsItsWork'
    BY <1>0, <1>13 DEF TypeOK, Expire
  <1>14. ASSUME NEW d \in DocIds, DeleteDocument(d) PROVE CleanupKnowsItsWork'
    BY <1>0, <1>14 DEF TypeOK, DeleteDocument
  <1>15. CASE CleanSelect
    BY <1>0, <1>15 DEF TypeOK, CleanSelect
  <1>16. ASSUME NEW s \in Sessions, CleanRows(s) PROVE CleanupKnowsItsWork'
    BY <1>0, <1>16, KeysType DEF CleanRows
  <1>17. CASE CleanSession
    BY <1>0, <1>17 DEF TypeOK, CleanSession
  <1>18. CASE CleanObjects
    BY <1>0, <1>18 DEF TypeOK, CleanObjects
  <1>19. CASE CleanCommit
    BY <1>0, <1>19 DEF TypeOK, CleanCommit, CleanEnds
  <1>20. CASE CleanBlocked
    BY <1>0, <1>20 DEF TypeOK, CleanBlocked, CleanEnds
  <1>21. CASE CleanAborts
    BY <1>0, <1>21 DEF TypeOK, CleanAborts, CleanEnds
  <1>22. CASE UNCHANGED vars
    BY <1>0, <1>22 DEF TypeOK
  <1> QED BY <1>1, <1>2, <1>3, <1>4, <1>5, <1>6, <1>7, <1>8, <1>9, <1>10,
    <1>11, <1>12, <1>13, <1>14, <1>15, <1>16, <1>17, <1>18, <1>19, <1>20,
    <1>21, <1>22 DEF Next, ClientNext, CleanNext

\* Nothing remains of a session that is gone.
LEMMA GoneStep == IInv /\ [Next]_vars => GoneHasNoRows'
  <1> SUFFICES ASSUME IInv, [Next]_vars PROVE GoneHasNoRows'
    OBVIOUS
  <1> USE DEF vars, sessionVars, docVars, clientVars, cleanVars, cleanWork,
        GoneHasNoRows, Exists
  <1>0. TypeOK /\ GoneHasNoRows /\ CompletingIsSafe
    BY DEF IInv, SessionInvariant
  <1>1. ASSUME NEW c \in Clients, DirectCheck(c) PROVE GoneHasNoRows'
    BY <1>0, <1>1 DEF TypeOK, CompletingIsSafe, Completing, DirectCheck, Goto
  <1>2. ASSUME NEW c \in Clients, DirectCommit(c) PROVE GoneHasNoRows'
    BY <1>0, <1>2 DEF TypeOK, CompletingIsSafe, Completing, DirectCommit,
      CreateDocument, Answer, Goto
  <1>3. ASSUME NEW c \in Clients, ChunkStore(c) PROVE GoneHasNoRows'
    BY <1>0, <1>3 DEF TypeOK, CompletingIsSafe, Completing, ChunkStore, Goto
  <1>4. ASSUME NEW c \in Clients, ChunkCommit(c) PROVE GoneHasNoRows'
    BY <1>0, <1>4 DEF TypeOK, CompletingIsSafe, Completing, ChunkCommit,
      Answer, Goto
  <1>5. ASSUME NEW c \in Clients, CompleteCompose(c) PROVE GoneHasNoRows'
    BY <1>0, <1>5 DEF TypeOK, CompletingIsSafe, Completing, CompleteCompose,
      Goto
  <1>6. ASSUME NEW c \in Clients, CompleteCheck(c) PROVE GoneHasNoRows'
    BY <1>0, <1>6 DEF TypeOK, CompletingIsSafe, Completing, CompleteCheck, Goto
  <1>7. ASSUME NEW c \in Clients, CompleteDuplicate(c) PROVE GoneHasNoRows'
    BY <1>0, <1>7 DEF TypeOK, CompletingIsSafe, Completing, CompleteDuplicate,
      Answer, Goto
  <1>8. ASSUME NEW c \in Clients, CompleteCommit(c) PROVE GoneHasNoRows'
    BY <1>0, <1>8 DEF TypeOK, CompletingIsSafe, Completing, CompleteCommit,
      CreateDocument, Answer, Goto
  <1>9. ASSUME NEW c \in Clients, RequestFails(c) PROVE GoneHasNoRows'
    BY <1>0, <1>9 DEF TypeOK, CompletingIsSafe, Completing, RequestFails,
      Answer, Goto
  <1>10. ASSUME NEW c \in Clients, NEW s \in Sessions, NEW i \in Indexes,
                ChunkRead(c, s, i)
         PROVE GoneHasNoRows'
    BY <1>0, <1>10 DEF TypeOK, CompletingIsSafe, Completing, ChunkRead, Goto
  <1>11. ASSUME NEW c \in Clients, NEW s \in Sessions, CompleteLock(c, s)
         PROVE GoneHasNoRows'
    BY <1>0, <1>11 DEF TypeOK, CompletingIsSafe, Completing, CompleteLock, Goto
  <1>12. ASSUME NEW s \in Sessions, InitUpload(s) PROVE GoneHasNoRows'
    BY <1>0, <1>12 DEF TypeOK, CompletingIsSafe, Completing, InitUpload
  <1>13. ASSUME NEW s \in Sessions, Expire(s) PROVE GoneHasNoRows'
    BY <1>0, <1>13 DEF TypeOK, CompletingIsSafe, Completing, Expire
  <1>14. ASSUME NEW d \in DocIds, DeleteDocument(d) PROVE GoneHasNoRows'
    BY <1>0, <1>14 DEF TypeOK, CompletingIsSafe, Completing, DeleteDocument
  <1>15. CASE CleanSelect
    BY <1>0, <1>15 DEF TypeOK, CompletingIsSafe, Completing, CleanSelect
  <1>16. ASSUME NEW s \in Sessions, CleanRows(s) PROVE GoneHasNoRows'
    BY <1>0, <1>16 DEF TypeOK, CompletingIsSafe, Completing, CleanRows
  <1>17. CASE CleanSession
    BY <1>0, <1>17 DEF TypeOK, CompletingIsSafe, Completing, CleanSession
  <1>18. CASE CleanObjects
    BY <1>0, <1>18 DEF TypeOK, CompletingIsSafe, Completing, CleanObjects
  <1>19. CASE CleanCommit
    BY <1>0, <1>19 DEF TypeOK, CompletingIsSafe, Completing, CleanCommit,
      CleanEnds
  <1>20. CASE CleanBlocked
    BY <1>0, <1>20 DEF TypeOK, CompletingIsSafe, Completing, CleanBlocked,
      CleanEnds
  <1>21. CASE CleanAborts
    BY <1>0, <1>21 DEF TypeOK, CompletingIsSafe, Completing, CleanAborts,
      CleanEnds
  <1>22. CASE UNCHANGED vars
    BY <1>0, <1>22 DEF TypeOK, CompletingIsSafe, Completing
  <1> QED BY <1>1, <1>2, <1>3, <1>4, <1>5, <1>6, <1>7, <1>8, <1>9, <1>10,
    <1>11, <1>12, <1>13, <1>14, <1>15, <1>16, <1>17, <1>18, <1>19, <1>20,
    <1>21, <1>22 DEF Next, ClientNext, CleanNext

\* The chunks of a file are counted by ChunkCount.
LEMMA ChunkCardinality ==
  /\ IsFiniteSet(Chunks) /\ Cardinality(Chunks) = ChunkCount
  /\ Chunks \subseteq Indexes
  BY UploadAssumption, FS_Interval DEF Chunks

\* Taking each member of a finite set once does not change its number.
LEMMA OnceCardinality ==
  ASSUME NEW S, IsFiniteSet(S)
  PROVE  /\ IsFiniteSet(S \X {1})
         /\ Cardinality(S \X {1}) = Cardinality(S)
  <1>1. IsFiniteSet({1}) /\ Cardinality({1}) = 1
    BY FS_Singleton
  <1>2. Cardinality(S \X {1}) = Cardinality(S) * 1 /\ IsFiniteSet(S \X {1})
    BY <1>1, FS_Product, Zenon
  <1> QED BY <1>2, FS_CardinalityType

\* The rows of a body are finitely many.
LEMMA RowsFinite == ASSUME NEW b \in Bodies PROVE IsFiniteSet(Rows(b))
  <1>1. IsFiniteSet(Indexes) /\ IsFiniteSet(1..MaxRows)
    BY UploadAssumption, FS_Interval
  <1>2. IsFiniteSet(Indexes \X (1..MaxRows))
    BY <1>1, FS_Product, Zenon
  <1>3. Rows(b) \subseteq Indexes \X (1..MaxRows)
    BY DEF Rows
  <1> QED BY <1>2, <1>3, FS_Subset

\* A file that is whole has as many rows as chunks.
LEMMA WholeCount == Whole \in Bodies /\ RowCount(Whole) = ChunkCount
  <1>1. Whole \in Bodies
    BY UploadAssumption DEF Whole, Bodies
  <1>2. Rows(Whole) = Chunks \X {1}
    <2>1. \A i \in Indexes, n \in 1..MaxRows :
            n <= Whole[i] <=> i \in Chunks /\ n = 1
      BY UploadAssumption DEF Whole
    <2>2. Rows(Whole) \subseteq Chunks \X {1}
      BY <2>1 DEF Rows
    <2>3. \A i \in Chunks : <<i, 1>> \in Rows(Whole)
      BY <2>1, ChunkCardinality, UploadAssumption DEF Rows
    <2> QED BY <2>2, <2>3
  <1> QED BY <1>1, <1>2, ChunkCardinality, OnceCardinality DEF RowCount

\* As many rows as chunks: then every missing chunk is made up for by a row that
\* repeats a chunk or belongs to none. The rows left over are one for each chunk
\* that is not missing.
LEMMA CountedIsBalanced ==
  ASSUME NEW b \in Bodies, RowCount(b) >= ChunkCount
  PROVE  Cardinality(Missing(b)) <= Cardinality(Surplus(b))
  <1> DEFINE Present == Chunks \ Missing(b)
             First == Rows(b) \ Surplus(b)
  <1>1. /\ IsFiniteSet(Missing(b)) /\ IsFiniteSet(Present)
        /\ Cardinality(Present) = ChunkCount - Cardinality(Missing(b))
    <2>1. Missing(b) \subseteq Chunks /\ Chunks \cap Missing(b) = Missing(b)
      BY DEF Missing
    <2>2. IsFiniteSet(Missing(b))
      BY <2>1, ChunkCardinality, FS_Subset
    <2>3. /\ IsFiniteSet(Chunks \ Missing(b))
          /\ Cardinality(Chunks \ Missing(b)) =
               Cardinality(Chunks) - Cardinality(Chunks \cap Missing(b))
      BY ChunkCardinality, FS_Difference
    <2> QED BY <2>1, <2>2, <2>3, ChunkCardinality
  <1>2. First = Present \X {1}
    <2>1. \A i \in Indexes : b[i] \in 0..MaxRows
      BY DEF Bodies
    <2>2. ASSUME NEW i \in Indexes, NEW n \in 1..MaxRows
          PROVE  <<i, n>> \in First <=> i \in Present /\ n = 1
      BY <2>1, UploadAssumption DEF Rows, Surplus, Missing
    <2>3. First \subseteq Present \X {1}
      BY <2>2 DEF Rows
    <2>4. \A i \in Present : <<i, 1>> \in First
      BY <2>2, ChunkCardinality, UploadAssumption
    <2> QED BY <2>3, <2>4
  <1>3. IsFiniteSet(First) /\ Cardinality(First) = Cardinality(Present)
    BY <1>1, <1>2, OnceCardinality
  <1>4. /\ IsFiniteSet(Rows(b)) /\ IsFiniteSet(Surplus(b))
        /\ Cardinality(First) = Cardinality(Rows(b)) - Cardinality(Surplus(b))
    <2>1. Surplus(b) \subseteq Rows(b) /\ Rows(b) \cap Surplus(b) = Surplus(b)
      BY DEF Surplus
    <2>2. IsFiniteSet(Surplus(b))
      BY <2>1, RowsFinite, FS_Subset
    <2>3. /\ IsFiniteSet(Rows(b))
          /\ Cardinality(Rows(b) \ Surplus(b)) =
               Cardinality(Rows(b)) - Cardinality(Rows(b) \cap Surplus(b))
      BY RowsFinite, FS_Difference
    <2> QED BY <2>1, <2>2, <2>3
  <1>5. /\ Cardinality(Missing(b)) \in Nat /\ Cardinality(Surplus(b)) \in Nat
        /\ Cardinality(Rows(b)) \in Nat
    BY <1>1, <1>4, FS_CardinalityType
  <1> QED BY <1>1, <1>3, <1>4, <1>5, UploadAssumption DEF RowCount

\* What is composed was counted when it was read, and does not change.
LEMMA CountedStep == IInv /\ [Next]_vars => BodiesAreCounted'
  <1> SUFFICES ASSUME IInv, [Next]_vars PROVE BodiesAreCounted'
    OBVIOUS
  <1> USE DEF vars, sessionVars, docVars, clientVars, cleanVars, cleanWork,
        BodiesAreCounted, Completing
  <1>0. TypeOK /\ BodiesAreCounted
    BY DEF IInv, SessionInvariant
  <1>a. ASSUME UNCHANGED <<live, body>>,
               \A c \in Clients :
                 Completing(c)' => Completing(c) /\ cbody'[c] = cbody[c]
        PROVE  BodiesAreCounted'
    BY <1>0, <1>a
  <1>1. ASSUME NEW c \in Clients,
               \/ DirectCheck(c) \/ ChunkStore(c) \/ ChunkCommit(c)
               \/ CompleteCompose(c) \/ CompleteCheck(c)
               \/ CompleteDuplicate(c) \/ RequestFails(c)
        PROVE  BodiesAreCounted'
    BY <1>a, <1>0, <1>1
      DEF TypeOK, DirectCheck, ChunkStore, ChunkCommit, CompleteCompose,
          CompleteCheck, CompleteDuplicate, RequestFails, Answer, Goto
  <1>2. ASSUME NEW c \in Clients, NEW b \in Bodies,
               RowCount(b) >= ChunkCount, CreateDocument(b), Answer(c)
        PROVE  BodiesAreCounted'
    BY <1>0, <1>2 DEF TypeOK, CreateDocument, Answer, Goto
  <1>3. ASSUME NEW c \in Clients, DirectCommit(c) PROVE BodiesAreCounted'
    <2>1. Whole \in Bodies
      BY WholeCount
    <2>2. RowCount(Whole) >= ChunkCount
      BY WholeCount, UploadAssumption
    <2> QED BY <1>2, <1>3, <2>1, <2>2 DEF DirectCommit
  <1>4. ASSUME NEW c \in Clients, CompleteCommit(c) PROVE BodiesAreCounted'
    <2>1. cbody[c] \in Bodies /\ RowCount(cbody[c]) >= ChunkCount
      BY <1>0, <1>4 DEF TypeOK, CompleteCommit
    <2> QED BY <1>2, <1>4, <2>1 DEF CompleteCommit
  <1>5. ASSUME NEW c \in Clients, NEW s \in Sessions, CompleteLock(c, s)
        PROVE  BodiesAreCounted'
    BY <1>0, <1>5 DEF TypeOK, CompleteLock, Goto
  <1>6. ASSUME NEW c \in Clients, NEW s \in Sessions, NEW i \in Indexes,
               ChunkRead(c, s, i)
        PROVE  BodiesAreCounted'
    BY <1>a, <1>0, <1>6 DEF TypeOK, ChunkRead, Goto
  <1>7. ASSUME NEW s \in Sessions, InitUpload(s) \/ Expire(s)
        PROVE  BodiesAreCounted'
    BY <1>a, <1>7 DEF InitUpload, Expire
  <1>8. ASSUME NEW d \in DocIds, DeleteDocument(d) PROVE BodiesAreCounted'
    BY <1>0, <1>8 DEF TypeOK, DeleteDocument
  <1>9. CASE CleanNext \/ CleanAborts
    BY <1>a, <1>9 DEF CleanNext, CleanSelect, CleanRows, CleanSession,
                      CleanObjects, CleanCommit, CleanBlocked, CleanAborts
  <1>10. CASE UNCHANGED vars
    BY <1>a, <1>10
  <1> QED BY <1>1, <1>3, <1>4, <1>5, <1>6, <1>7, <1>8, <1>9, <1>10
          DEF Next, ClientNext

\* The invariant is inductive.
THEOREM Invariance == Spec => []IInv
  <1>1. IInv /\ [Next]_vars => IInv'
    BY TypeStep, SerialStep, RequestsStep, CompletingStep, ObjectsStep,
       StoredStep, CleanupStep, GoneStep, CountedStep DEF IInv, SessionInvariant
  <1> QED BY InitIInv, <1>1, PTL DEF Spec

\* Every variable keeps its type (TypeOK).
THEOREM TypeCorrect == Spec => []TypeOK
  <1>1. IInv => TypeOK
    BY DEF IInv
  <1> QED BY Invariance, <1>1, PTL

\* What requests and the cleanup rely on in each other holds, for any number of
\* them.
THEOREM SessionsAreConsistent == Spec => []SessionInvariant
  <1>1. IInv => SessionInvariant
    BY DEF IInv
  <1> QED BY Invariance, <1>1, PTL

\* A complete request finds the objects it is about to compose
\* (ComposeFindsChunks).
THEOREM ComposeIsSafe == Spec => []ComposeFindsChunks
  <1>1. IInv => ComposeFindsChunks
    <2> SUFFICES ASSUME IInv, NEW c \in Clients, pc[c] = "locked",
                        csession[c] \notin torn, NEW i \in Indexes, cbody[c][i] > 0
                 PROVE  <<csession[c], i>> \in objects
      BY DEF ComposeFindsChunks, SourceKeys
    <2>1. csession[c] \in Sessions /\ csession[c] \notin kdeleted
          /\ rows[csession[c]][i] > 0
      BY DEF IInv, SessionInvariant, CompletingIsSafe, RequestsHaveSessions, Completing
    <2> QED BY <2>1 DEF IInv, SessionInvariant, RowsHaveObjects, Doomed
  <1> QED BY Invariance, <1>1, PTL

\* A live document lacks at most as many chunks as it has rows that repeat one or
\* carry an index the file does not have (MissingIsBounded): complete_upload
\* compares numbers of rows, and that errs in no other way.
THEOREM MissingStaysBounded == Spec => []MissingIsBounded
  <1>1. IInv => MissingIsBounded
    <2> SUFFICES ASSUME IInv, NEW d \in live
                 PROVE  Cardinality(Missing(body[d]))
                          <= Cardinality(Surplus(body[d]))
      BY DEF MissingIsBounded
    <2>1. body[d] \in Bodies /\ RowCount(body[d]) >= ChunkCount
      BY DEF IInv, TypeOK, SessionInvariant, BodiesAreCounted
    <2> QED BY <2>1, CountedIsBalanced
  <1> QED BY Invariance, <1>1, PTL

\* Only a request that found no live document can add one, and it takes its own
\* place in Creating; every other step leaves the documents alone or deletes one.
LEMMA DuplicatesStep ==
  ASSUME TypeOK, DuplicatesBounded, [Next]_vars
  PROVE  DuplicatesBounded'
  <1> USE UploadAssumption DEF vars, docVars, clientVars
  <1>1. /\ IsFiniteSet(live) /\ Cardinality(live) \in Nat
        /\ IsFiniteSet(Creating) /\ Cardinality(Creating) \in Nat
        /\ Cardinality(Clients) \in Nat
    BY FS_Subset, FS_CardinalityType DEF TypeOK, Creating
  <1>2. ASSUME live' \subseteq live, Creating' \subseteq Creating
        PROVE  DuplicatesBounded'
    <2>1. Cardinality(live') \in Nat /\ Cardinality(live') <= Cardinality(live)
      BY <1>1, <1>2, FS_Subset, FS_CardinalityType
    <2>2. /\ Cardinality(Creating') \in Nat
          /\ Cardinality(Creating') <= Cardinality(Creating)
      BY <1>1, <1>2, FS_Subset, FS_CardinalityType
    <2> QED BY <1>1, <2>1, <2>2 DEF DuplicatesBounded
  <1>3. ASSUME live = {}, live' = {} PROVE DuplicatesBounded'
    <2>1. Creating' \in SUBSET Clients
      BY DEF Creating
    <2>2. Cardinality(live') = 0
      BY <1>3, FS_EmptySet
    <2>3. /\ Cardinality(Creating') \in Nat
          /\ Cardinality(Creating') <= Cardinality(Clients)
      BY <2>1, FS_Subset, FS_CardinalityType
    <2> QED BY <1>1, <2>2, <2>3 DEF DuplicatesBounded
  <1>4. ASSUME NEW c \in Creating, NEW d \in DocIds \ live,
               live' = live \cup {d}, Creating' = Creating \ {c}
        PROVE  DuplicatesBounded'
    <2>1. Cardinality(live') = Cardinality(live) + 1
      BY <1>1, <1>4, FS_AddElement
    <2>2. Cardinality(Creating') = Cardinality(Creating) - 1
      BY <1>1, <1>4, FS_RemoveElement
    <2> QED BY <1>1, <2>1, <2>2 DEF DuplicatesBounded
  <1>5. ASSUME NEW c \in Clients, DirectCheck(c) \/ CompleteCheck(c)
        PROVE  DuplicatesBounded'
    BY <1>3, <1>5 DEF DirectCheck, CompleteCheck
  <1>6. ASSUME NEW c \in Clients, DirectCommit(c) \/ CompleteCommit(c)
        PROVE  DuplicatesBounded'
    <2>1. /\ c \in Creating
          /\ Creating' = Creating \ {c}
      BY <1>6 DEF TypeOK, Creating, DirectCommit, CompleteCommit, Answer, Goto
    <2>2. PICK d \in DocIds \ live : live' = live \cup {d}
      BY <1>6 DEF DirectCommit, CompleteCommit, CreateDocument
    <2> QED BY <1>4, <2>1, <2>2
  <1>7. ASSUME NEW c \in Clients,
               \/ ChunkStore(c) \/ ChunkCommit(c) \/ CompleteCompose(c)
               \/ CompleteDuplicate(c) \/ RequestFails(c)
        PROVE  DuplicatesBounded'
    BY <1>2, <1>7 DEF TypeOK, Creating, ChunkStore, ChunkCommit, CompleteCompose,
                      CompleteDuplicate, RequestFails, Answer, Goto
  <1>8. ASSUME NEW c \in Clients, NEW s \in Sessions,
               CompleteLock(c, s) \/ \E i \in Indexes : ChunkRead(c, s, i)
        PROVE  DuplicatesBounded'
    BY <1>2, <1>8 DEF TypeOK, Creating, CompleteLock, ChunkRead, Goto
  <1>9. ASSUME NEW s \in Sessions, InitUpload(s) \/ Expire(s)
        PROVE  DuplicatesBounded'
    BY <1>2, <1>9 DEF Creating, InitUpload, Expire
  <1>10. ASSUME NEW d \in DocIds, DeleteDocument(d) PROVE DuplicatesBounded'
    BY <1>2, <1>10 DEF Creating, DeleteDocument
  <1>11. CASE CleanNext \/ CleanAborts
    BY <1>2, <1>11 DEF Creating, CleanNext, CleanSelect, CleanRows, CleanSession,
                       CleanObjects, CleanCommit, CleanBlocked, CleanAborts
  <1>12. CASE UNCHANGED vars
    BY <1>2, <1>12 DEF Creating
  <1> QED BY <1>5, <1>6, <1>7, <1>8, <1>9, <1>10, <1>11, <1>12
          DEF Next, ClientNext

\* There are never more live documents of one hash than requests in progress
\* (DuplicatesBounded), whatever was uploaded and deleted before.
THEOREM DuplicatesStayBounded == Spec => []DuplicatesBounded
  <1>1. Init => DuplicatesBounded
    <2> SUFFICES ASSUME Init PROVE DuplicatesBounded
      OBVIOUS
    <2>1. live = {} /\ Creating = {}
      BY DEF Init, Creating
    <2>2. Cardinality(Clients) \in Nat
      BY FS_CardinalityType, UploadAssumption
    <2> QED BY <2>1, <2>2, FS_EmptySet DEF DuplicatesBounded
  <1>2. TypeOK /\ DuplicatesBounded /\ [Next]_vars => DuplicatesBounded'
    BY DuplicatesStep
  <1> QED BY TypeCorrect, <1>1, <1>2, PTL DEF Spec

\* A session that is gone stays gone, without rows (GoneForGood).
THEOREM GoneStaysGone == Spec => GoneForGood
  <1>1. ASSUME IInv, [Next]_vars, NEW s \in Sessions, status[s] = "GONE"
        PROVE  status'[s] = "GONE" /\ rows'[s] = NoChunks
    <2>1. TypeOK /\ CompletingIsSafe /\ GoneHasNoRows'
      BY <1>1, GoneStep DEF IInv, SessionInvariant
    <2>2. status'[s] = "GONE"
      BY <1>1, <2>1
        DEF Next, ClientNext, CleanNext, vars, sessionVars, docVars, clientVars,
            cleanVars, TypeOK, CompletingIsSafe, Completing, Exists, Incomplete,
            DirectCheck, DirectCommit, ChunkStore, ChunkCommit, CompleteCompose,
            CompleteCheck, CompleteDuplicate, CompleteCommit, RequestFails,
            ChunkRead, CompleteLock, InitUpload, Expire, DeleteDocument,
            CleanSelect, CleanRows, CleanSession, CleanObjects, CleanCommit,
            CleanBlocked, CleanAborts
    <2> QED BY <2>1, <2>2 DEF GoneHasNoRows
  <1>2. IInv /\ [Next]_vars =>
        [\A s \in Sessions :
           status[s] = "GONE" => status'[s] = "GONE" /\ rows'[s] = NoChunks]_vars
    BY <1>1
  <1> QED BY Invariance, <1>2, PTL DEF Spec, GoneForGood

=============================================================================
