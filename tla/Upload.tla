------------------------------- MODULE Upload -------------------------------
(***************************************************************************)
(* How one file gets into one group: direct uploads, resumable uploads in  *)
(* chunks, and the hourly cleanup of expired sessions, all against the     *)
(* same hash. A request is one PostgreSQL transaction at READ COMMITTED;   *)
(* objects in MinIO change at once. The document's later life is           *)
(* DocumentIngestion's; here it is live or deleted.                        *)
(* Sources: app/document/service.py, router.py, maintenance.py.            *)
(***************************************************************************)
EXTENDS Integers, FiniteSets

CONSTANTS
  Clients,     (* requests that can be in progress at once                  *)
  Sessions,    (* upload ids                                                *)
  Owner,       (* the user a session is of (uploader_user_id)               *)
  DocIds,      (* bound: live documents with this group and hash            *)
  ChunkCount,  (* chunks of the file (chunk_count)                          *)
  Indexes,     (* what clients send as chunk_index, which nothing validates *)
  Resent,      (* bound: indexes that are stored more than once in a session *)
  MaxRows,     (* bound: times they are stored                              *)
  MaxFaults,   (* bound: cleanups that do not reach their commit            *)
  NoSession    (* no session                                                *)

ASSUME UploadAssumption ==
  /\ ChunkCount \in Nat \ {0}
  /\ MaxRows \in Nat \ {0}
  /\ MaxFaults \in Nat
  /\ NoSession \notin Sessions
  /\ 0..(ChunkCount - 1) \subseteq Indexes
  /\ Indexes \subseteq Int /\ IsFiniteSet(Indexes)
  /\ IsFiniteSet(Clients) /\ IsFiniteSet(DocIds)

Chunks == 0..(ChunkCount - 1)

\* Chunk rows of a session, or the chunks an object was composed of: how often
\* each index occurs. ORDER BY chunk_index puts equal indexes side by side.
Bodies == [Indexes -> 0..MaxRows]
NoChunks == [i \in Indexes |-> 0]
Whole == [i \in Indexes |-> IF i \in Chunks THEN 1 ELSE 0]

VARIABLES
  status,    \* document_upload_sessions.status, committed
  expired,   \* expires_at has passed
  rows,      \* document_upload_chunks of a session, committed
  objects,   \* chunk objects in MinIO
  live,      \* documents of the group with this hash, not deleted
  body,      \* what a live document's object was made of
  pc,        \* where each client's request is
  csession,  \* the session it is about
  cindex,    \* the chunk it sends
  cinit,     \* it has read status INIT
  cbody,     \* the chunk rows it has read
  kpc,       \* where cleanup_expired_uploads is
  kselected, \* sessions it has selected
  kcurrent,  \* the one it is about to delete
  krows,     \* the chunk rows of that one which it has deleted
  kdeleted,  \* sessions it has deleted, uncommitted
  kkeys,     \* object keys it has collected
  torn,      \* history: sessions whose cleanup lost its transaction
  faults     \* cleanups that did not commit

sessionVars == <<status, expired, rows>>
docVars == <<live, body>>
clientVars == <<pc, csession, cindex, cinit, cbody>>
cleanWork == <<kselected, kcurrent, krows, kdeleted, kkeys>>
cleanVars == <<kpc, cleanWork, torn, faults>>
vars == <<sessionVars, objects, docVars, clientVars, cleanVars>>

SessionStatuses == {"ABSENT", "INIT", "UPLOADING", "COMPLETED", "GONE"}
ClientSteps == {"idle", "directChecked", "chunkRead", "chunkStored", "locked",
                "composed", "checked"}

TypeOK ==
  /\ status \in [Sessions -> SessionStatuses]
  /\ expired \in [Sessions -> BOOLEAN]
  /\ rows \in [Sessions -> Bodies]
  /\ objects \subseteq Sessions \X Indexes
  /\ live \subseteq DocIds
  /\ body \in [DocIds -> Bodies]
  /\ pc \in [Clients -> ClientSteps]
  /\ csession \in [Clients -> Sessions \cup {NoSession}]
  /\ cindex \in [Clients -> Indexes]
  /\ cinit \in [Clients -> BOOLEAN]
  /\ cbody \in [Clients -> Bodies]
  /\ kpc \in {"idle", "rows", "session", "objects", "commit"}
  /\ kselected \subseteq Sessions
  /\ kcurrent \in Sessions \cup {NoSession}
  /\ krows \in Bodies
  /\ kdeleted \subseteq Sessions
  /\ kkeys \subseteq Sessions \X Indexes
  /\ torn \subseteq Sessions
  /\ faults \in 0..MaxFaults

Init ==
  /\ status = [s \in Sessions |-> "ABSENT"]
  /\ expired = [s \in Sessions |-> FALSE]
  /\ rows = [s \in Sessions |-> NoChunks]
  /\ objects = {}
  /\ live = {}
  /\ body = [d \in DocIds |-> NoChunks]
  /\ pc = [c \in Clients |-> "idle"]
  /\ csession = [c \in Clients |-> NoSession]
  /\ cindex = [c \in Clients |-> 0]
  /\ cinit = [c \in Clients |-> FALSE]
  /\ cbody = [c \in Clients |-> NoChunks]
  /\ kpc = "idle" /\ kselected = {} /\ kdeleted = {} /\ kkeys = {}
  /\ kcurrent = NoSession /\ krows = NoChunks
  /\ torn = {} /\ faults = 0

-----------------------------------------------------------------------------

Exists(s) == status[s] \in {"INIT", "UPLOADING", "COMPLETED"}

Incomplete(s) == status[s] \in {"INIT", "UPLOADING"}

\* len(chunks): one row for every time an index occurs.
Rows(b) == {row \in Indexes \X (1..MaxRows) : row[2] <= b[row[1]]}
RowCount(b) == Cardinality(Rows(b))

\* A complete request has written the session's row and not committed.
Completing(c) == pc[c] \in {"locked", "composed", "checked"}

LockedByClient(s) == \E c \in Clients : csession[c] = s /\ Completing(c)

Goto(c, to) == pc' = [pc EXCEPT ![c] = to]

\* The request ends, and with it its transaction.
Answer(c) ==
  /\ Goto(c, "idle")
  /\ csession' = [csession EXCEPT ![c] = NoSession]
  /\ cindex' = [cindex EXCEPT ![c] = 0]
  /\ cinit' = [cinit EXCEPT ![c] = FALSE]
  /\ cbody' = [cbody EXCEPT ![c] = NoChunks]

\* Document(...) and its job are committed, the object having been stored.
CreateDocument(b) ==
  \E d \in DocIds \ live :
    /\ live' = live \cup {d}
    /\ body' = [body EXCEPT ![d] = b]

-----------------------------------------------------------------------------
(* Direct upload.                                                          *)

\* Faulty variant: no look at the documents that exist.
DirectCheckNone(c) ==
  /\ pc[c] = "idle"
  /\ Goto(c, "directChecked")
  /\ UNCHANGED <<sessionVars, objects, docVars, csession, cindex, cinit, cbody,
                 cleanVars>>

\* _find_existing finds no document. (If it finds one the request ends with
\* isDuplicate and nothing has changed.)
DirectCheck(c) ==
  /\ pc[c] = "idle"
  /\ live = {}
  /\ Goto(c, "directChecked")
  /\ UNCHANGED <<sessionVars, objects, docVars, csession, cindex, cinit, cbody,
                 cleanVars>>

DirectCommit(c) ==
  /\ pc[c] = "directChecked"
  /\ CreateDocument(Whole)
  /\ Answer(c)
  /\ UNCHANGED <<sessionVars, objects, cleanVars>>

-----------------------------------------------------------------------------
(* Upload in chunks.                                                       *)

\* Sessions that init_upload hands out again to a user.
Reusable(u) ==
  {s \in Sessions : Owner[s] = u /\ status[s] = "COMPLETED" /\ ~expired[s]}

\* init_upload without a reusable session.
InitUpload(s) ==
  /\ Reusable(Owner[s]) = {}
  /\ status[s] = "ABSENT"
  /\ status' = [status EXCEPT ![s] = "INIT"]
  /\ UNCHANGED <<expired, rows, objects, docVars, clientVars, cleanVars>>

\* 24 hours pass.
Expire(s) ==
  /\ Exists(s)
  /\ ~expired[s]
  /\ expired' = [expired EXCEPT ![s] = TRUE]
  /\ UNCHANGED <<status, rows, objects, docVars, clientVars, cleanVars>>

\* upload_chunk reads the session; any index will do.
ChunkRead(c, s, i) ==
  /\ pc[c] = "idle"
  /\ Incomplete(s)
  /\ Goto(c, "chunkRead")
  /\ csession' = [csession EXCEPT ![c] = s]
  /\ cindex' = [cindex EXCEPT ![c] = i]
  /\ cinit' = [cinit EXCEPT ![c] = (status[s] = "INIT")]
  /\ UNCHANGED <<sessionVars, objects, docVars, cbody, cleanVars>>

\* The object is stored under the key of its index.
ChunkStore(c) ==
  /\ pc[c] = "chunkRead"
  /\ objects' = objects \cup {<<csession[c], cindex[c]>>}
  /\ Goto(c, "chunkStored")
  /\ UNCHANGED <<sessionVars, docVars, csession, cindex, cinit, cbody, cleanVars>>

\* Faulty variant: a session that was deleted meanwhile does not stop the insert.
ChunkCommitOrphan(c) ==
  LET s == csession[c]
      i == cindex[c]
  IN  /\ pc[c] = "chunkStored"
      /\ s \notin kdeleted
      /\ cinit[c] => ~LockedByClient(s)
      /\ rows[s][i] < IF i \in Resent THEN MaxRows ELSE 1
      /\ rows' = [rows EXCEPT ![s][i] = @ + 1]
      /\ status' = IF cinit[c] THEN [status EXCEPT ![s] = "UPLOADING"] ELSE status
      /\ Answer(c)
      /\ UNCHANGED <<expired, objects, docVars, cleanVars>>

\* The row is inserted and UPLOADING written if INIT was read. The insert
\* waits for a cleanup that has deleted the session, the update for a complete
\* request that has written it.
ChunkCommit(c) ==
  LET s == csession[c]
      i == cindex[c]
  IN  /\ pc[c] = "chunkStored"
      /\ Exists(s)
      /\ s \notin kdeleted
      /\ cinit[c] => ~LockedByClient(s)
      /\ rows[s][i] < IF i \in Resent THEN MaxRows ELSE 1
      /\ rows' = [rows EXCEPT ![s][i] = @ + 1]
      /\ status' = IF cinit[c] THEN [status EXCEPT ![s] = "UPLOADING"] ELSE status
      /\ Answer(c)
      /\ UNCHANGED <<expired, objects, docVars, cleanVars>>

\* Faulty variant: one chunk may be missing.
CompleteLockShort(c, s) ==
  /\ pc[c] = "idle"
  /\ Exists(s)
  /\ s \notin kdeleted
  /\ ~LockedByClient(s)
  /\ RowCount(rows[s]) + 1 >= ChunkCount
  /\ Goto(c, "locked")
  /\ csession' = [csession EXCEPT ![c] = s]
  /\ cbody' = [cbody EXCEPT ![c] = rows[s]]
  /\ UNCHANGED <<sessionVars, objects, docVars, cindex, cinit, cleanVars>>

\* Faulty variant: COMPLETING is not written before the chunks are read.
CompleteLockUnlocked(c, s) ==
  /\ pc[c] = "idle"
  /\ Exists(s)
  /\ s \notin kdeleted
  /\ RowCount(rows[s]) >= ChunkCount
  /\ Goto(c, "locked")
  /\ csession' = [csession EXCEPT ![c] = s]
  /\ cbody' = [cbody EXCEPT ![c] = rows[s]]
  /\ UNCHANGED <<sessionVars, objects, docVars, cindex, cinit, cleanVars>>

\* complete_upload reads the session, whatever its status and expiry, and
\* writes COMPLETING, which the next query flushes: the row is locked. Then it
\* reads the chunk rows and counts them. (With too few it raises, and the
\* rollback leaves no trace.)
CompleteLock(c, s) ==
  /\ pc[c] = "idle"
  /\ Exists(s)
  /\ s \notin kdeleted
  /\ ~LockedByClient(s)
  /\ RowCount(rows[s]) >= ChunkCount
  /\ Goto(c, "locked")
  /\ csession' = [csession EXCEPT ![c] = s]
  /\ cbody' = [cbody EXCEPT ![c] = rows[s]]
  /\ UNCHANGED <<sessionVars, objects, docVars, cindex, cinit, cleanVars>>

\* The chunk objects of the rows it has read.
SourceKeys(c) == {<<csession[c], i>> : i \in {k \in Indexes : cbody[c][k] > 0}}

\* MinIO composes the objects. (One that is missing fails the request.)
CompleteCompose(c) ==
  /\ pc[c] = "locked"
  /\ SourceKeys(c) \subseteq objects
  /\ Goto(c, "composed")
  /\ UNCHANGED <<sessionVars, objects, docVars, csession, cindex, cinit, cbody,
                 cleanVars>>

\* _find_existing finds no document ...
CompleteCheck(c) ==
  /\ pc[c] = "composed"
  /\ live = {}
  /\ Goto(c, "checked")
  /\ UNCHANGED <<sessionVars, objects, docVars, csession, cindex, cinit, cbody,
                 cleanVars>>

\* ... or one: COMPLETED is committed without a document of its own.
CompleteDuplicate(c) ==
  /\ pc[c] = "composed"
  /\ live # {}
  /\ status' = [status EXCEPT ![csession[c]] = "COMPLETED"]
  /\ Answer(c)
  /\ UNCHANGED <<expired, rows, objects, docVars, cleanVars>>

CompleteCommit(c) ==
  /\ pc[c] = "checked"
  /\ status' = [status EXCEPT ![csession[c]] = "COMPLETED"]
  /\ CreateDocument(cbody[c])
  /\ Answer(c)
  /\ UNCHANGED <<expired, rows, objects, cleanVars>>

-----------------------------------------------------------------------------

\* A client that goes away, an error of MinIO or of the database (the foreign
\* key of a chunk whose session is gone): the transaction is rolled back, what
\* MinIO has stays.
RequestFails(c) ==
  /\ pc[c] # "idle"
  /\ Answer(c)
  /\ UNCHANGED <<sessionVars, objects, docVars, cleanVars>>

\* DocumentQueryService.delete, as far as _find_existing can tell.
DeleteDocument(d) ==
  /\ d \in live
  /\ live' = live \ {d}
  /\ body' = [body EXCEPT ![d] = NoChunks]
  /\ UNCHANGED <<sessionVars, objects, clientVars, cleanVars>>

-----------------------------------------------------------------------------
(* cleanup_expired_uploads.                                                *)

\* Faulty variant: UPLOADING is not in INCOMPLETE_STATUSES.
CleanSelectInit ==
  /\ kpc = "idle"
  /\ kselected' = {s \in Sessions : expired[s] /\ status[s] = "INIT"}
  /\ kselected' # {}
  /\ kpc' = "rows"
  /\ UNCHANGED <<sessionVars, objects, docVars, clientVars, kcurrent, krows,
                 kdeleted, kkeys, torn, faults>>

\* Expired sessions that are not completed. (COMPLETING is never committed.)
CleanSelect ==
  /\ kpc = "idle"
  /\ kselected' = {s \in Sessions : expired[s] /\ Incomplete(s)}
  /\ kselected' # {}
  /\ kpc' = "rows"
  /\ UNCHANGED <<sessionVars, objects, docVars, clientVars, kcurrent, krows,
                 kdeleted, kkeys, torn, faults>>

KeysOf(s) == {<<s, i>> : i \in {k \in Indexes : rows[s][k] > 0}}

\* Faulty variant: the objects go with the rows.
CleanRowsAndObjects(s) ==
  /\ kpc = "rows"
  /\ s \in kselected \ kdeleted
  /\ kcurrent' = s
  /\ krows' = rows[s]
  /\ kkeys' = kkeys \cup KeysOf(s)
  /\ objects' = objects \ KeysOf(s)
  /\ kpc' = "session"
  /\ UNCHANGED <<sessionVars, docVars, clientVars, kselected, kdeleted, torn,
                 faults>>

\* The loop takes the next session, collects the keys of its chunk rows and
\* deletes the rows.
CleanRows(s) ==
  /\ kpc = "rows"
  /\ s \in kselected \ kdeleted
  /\ kcurrent' = s
  /\ krows' = rows[s]
  /\ kkeys' = kkeys \cup KeysOf(s)
  /\ kpc' = "session"
  /\ UNCHANGED <<sessionVars, objects, docVars, clientVars, kselected, kdeleted,
                 torn, faults>>

\* Then it deletes the session, by id, waiting for a complete request to
\* commit. A chunk row committed since would violate the foreign key.
CleanSession ==
  /\ kpc = "session"
  /\ ~LockedByClient(kcurrent)
  /\ rows[kcurrent] = krows
  /\ kdeleted' = kdeleted \cup {kcurrent}
  /\ kpc' = IF kdeleted' = kselected THEN "objects" ELSE "rows"
  /\ UNCHANGED <<sessionVars, objects, docVars, clientVars, kselected, kcurrent,
                 krows, kkeys, torn, faults>>

\* The objects are deleted as far as MinIO lets them; failures are swallowed.
CleanObjects ==
  /\ kpc = "objects"
  /\ \E gone \in SUBSET kkeys : objects' = objects \ gone
  /\ kpc' = "commit"
  /\ UNCHANGED <<sessionVars, docVars, clientVars, cleanWork, torn, faults>>

CleanEnds ==
  /\ kpc' = "idle"
  /\ kselected' = {} /\ kdeleted' = {} /\ kkeys' = {}
  /\ kcurrent' = NoSession /\ krows' = NoChunks

CleanCommit ==
  /\ kpc = "commit"
  /\ status' = [s \in Sessions |-> IF s \in kdeleted THEN "GONE" ELSE status[s]]
  /\ rows' = [s \in Sessions |-> IF s \in kdeleted THEN NoChunks ELSE rows[s]]
  /\ CleanEnds
  /\ UNCHANGED <<expired, objects, docVars, clientVars, torn, faults>>

\* The foreign key stops the cleanup before any object is deleted.
CleanBlocked ==
  /\ kpc = "session"
  /\ ~LockedByClient(kcurrent)
  /\ rows[kcurrent] # krows
  /\ CleanEnds
  /\ UNCHANGED <<sessionVars, objects, docVars, clientVars, torn, faults>>

\* The cleanup is cancelled at shutdown or loses its connection: the rows stay,
\* the objects it has deleted do not.
CleanAborts ==
  /\ kpc # "idle"
  /\ faults < MaxFaults
  /\ faults' = faults + 1
  /\ torn' = IF kpc = "commit" THEN torn \cup kdeleted ELSE torn
  /\ CleanEnds
  /\ UNCHANGED <<sessionVars, objects, docVars, clientVars>>

-----------------------------------------------------------------------------

ClientNext(c) ==
  \/ DirectCommit(c) \/ ChunkStore(c) \/ ChunkCommit(c)
  \/ CompleteCompose(c) \/ CompleteCheck(c) \/ CompleteDuplicate(c)
  \/ CompleteCommit(c) \/ RequestFails(c)

CleanNext ==
  \/ CleanSelect \/ CleanSession \/ CleanObjects \/ CleanCommit \/ CleanBlocked
  \/ \E s \in Sessions : CleanRows(s)

Next ==
  \/ \E c \in Clients : DirectCheck(c) \/ ClientNext(c)
  \/ \E c \in Clients, s \in Sessions, i \in Indexes : ChunkRead(c, s, i)
  \/ \E c \in Clients, s \in Sessions : CompleteLock(c, s)
  \/ \E s \in Sessions : InitUpload(s) \/ Expire(s)
  \/ \E d \in DocIds : DeleteDocument(d)
  \/ CleanNext
  \/ CleanAborts

Spec == Init /\ [][Next]_vars

\* A request that has begun and the hourly task go on, and a DELETE that waits
\* for a row lock is next in its queue; nothing else must happen.
FairSpec ==
  /\ Spec
  /\ WF_vars(CleanNext)
  /\ SF_vars(CleanSession \/ CleanBlocked)
  /\ \A c \in Clients : WF_vars(ClientNext(c))

-----------------------------------------------------------------------------
(* Properties.                                                             *)

\* Clients that have seen no live document and are about to create one.
Creating == {c \in Clients : pc[c] \in {"directChecked", "checked"}}

\* Deduplication looks first and inserts later, so it lets duplicates through;
\* but never more than there were requests in progress at the same time,
\* whatever was uploaded and deleted before (_find_existing in direct_upload
\* and complete_upload).
DuplicatesBounded ==
  Cardinality(live) + Cardinality(Creating) <= Cardinality(Clients)

\* What a live document lacks is made up for in number: it misses at most as
\* many chunks as it has rows that repeat one or carry an index the file does
\* not have (complete_upload counts chunk rows and looks at no index).
Missing(b) == {i \in Chunks : b[i] = 0}
Surplus(b) == {row \in Rows(b) : row[2] > 1 \/ row[1] \notin Chunks}

MissingIsBounded ==
  \A d \in live : Cardinality(Missing(body[d])) <= Cardinality(Surplus(body[d]))

\* The objects a complete request is about to compose exist, whatever a
\* cleanup or another request does meanwhile, unless an earlier cleanup of the
\* session lost its transaction after deleting objects.
ComposeFindsChunks ==
  \A c \in Clients :
    pc[c] = "locked" /\ csession[c] \notin torn => SourceKeys(c) \subseteq objects

\* Two complete requests of one session never overlap: the flush of COMPLETING
\* takes the row, so a session is composed and turned into a document by one
\* request at a time.
CompletesAreSerial ==
  \A c1, c2 \in Clients :
    Completing(c1) /\ Completing(c2) /\ csession[c1] = csession[c2] => c1 = c2

\* What is composed, and what a live document is made of, was counted: as many
\* chunk rows as the file has chunks.
BodiesAreCounted ==
  /\ \A c \in Clients : Completing(c) => RowCount(cbody[c]) >= ChunkCount
  /\ \A d \in live : RowCount(body[d]) >= ChunkCount

\* Requests in progress on a session know which.
RequestsHaveSessions ==
  \A c \in Clients :
    pc[c] \in {"chunkRead", "chunkStored"} \/ Completing(c) => csession[c] \in Sessions

\* A session that is being completed is there, not about to be deleted, and
\* still has the chunk rows that were read.
CompletingIsSafe ==
  \A c \in Clients :
    Completing(c) =>
      /\ Exists(csession[c])
      /\ csession[c] \notin kdeleted
      /\ \A i \in Indexes : cbody[c][i] > 0 => rows[csession[c]][i] > 0

\* The objects of a session may be gone.
Doomed(s) == s \in torn \/ (kpc = "commit" /\ s \in kdeleted)

\* A chunk row's object exists ...
RowsHaveObjects ==
  \A s \in Sessions, i \in Indexes :
    rows[s][i] > 0 => <<s, i>> \in objects \/ Doomed(s)

\* ... and so does the object whose row is about to be inserted.
StoredIsKept ==
  \A c \in Clients :
    pc[c] = "chunkStored" =>
      \/ <<csession[c], cindex[c]>> \in objects
      \/ Doomed(csession[c])
      \/ status[csession[c]] = "GONE"

\* The cleanup deletes what it selected, and objects of nothing else.
CleanupKnowsItsWork ==
  /\ kdeleted \subseteq kselected
  /\ kkeys \subseteq kselected \X Indexes
  /\ kpc = "session" => kcurrent \in kselected \ kdeleted
  /\ kpc \in {"objects", "commit"} => kdeleted = kselected
  /\ kpc = "idle" => kselected = {}

\* Nothing remains of a session that is gone.
GoneHasNoRows == \A s \in Sessions : status[s] = "GONE" => rows[s] = NoChunks

\* What the requests and the cleanup rely on in each other, together.
SessionInvariant ==
  /\ CompletesAreSerial
  /\ RequestsHaveSessions
  /\ CompletingIsSafe
  /\ RowsHaveObjects
  /\ StoredIsKept
  /\ CleanupKnowsItsWork
  /\ GoneHasNoRows
  /\ BodiesAreCounted

\* A session that is gone leaves no chunk row and never returns
\* (cleanup_expired_uploads; upload_chunk's foreign key).
GoneForGood ==
  [][\A s \in Sessions :
       status[s] = "GONE" => status'[s] = "GONE" /\ rows'[s] = NoChunks]_vars

\* An expired session that nobody completes is removed in the end, with chunks
\* and completions still arriving (the hourly loop in main.py).
ExpiredIsCleaned ==
  \A s \in Sessions :
    (expired[s] /\ Incomplete(s)) ~> (status[s] \in {"GONE", "COMPLETED"})

=============================================================================
