------------------------- MODULE DocumentIngestion -------------------------
(***************************************************************************)
(* The life of a document in the knowledge base, from the commit of its    *)
(* upload to its deletion: the background worker that claims ingestion     *)
(* jobs and turns a stored file into chunk rows, vectors and search-index  *)
(* entries, the request handlers that delete a document and re-submit a    *)
(* failed one, and what a question may cite meanwhile.                     *)
(*                                                                         *)
(* PostgreSQL runs at READ COMMITTED. A variable holds COMMITTED rows;     *)
(* what a transaction has written and not committed is kept with the       *)
(* process that wrote it. Vectors (their own connection, committed at      *)
(* once), the Elasticsearch index and the MinIO bucket are outside that    *)
(* transaction. Sources: app/ingestion/job_service.py, pipeline.py,        *)
(* chunk_service.py, app/document/service.py, router.py, app/qa/           *)
(* retrieval.py.                                                           *)
(***************************************************************************)
EXTENDS Naturals, FiniteSets

CONSTANTS
  Docs,        (* document ids                                              *)
  Textless,    (* those whose file is a .txt or .md without any text        *)
  MaxJobs,     (* bound: ingestion_jobs rows ever created                   *)
  MaxRetries,  (* IngestionJob.max_retries (3 in the code)                  *)
  Workers,     (* poll loops; the program starts one per process            *)
  Deleters,    (* delete requests that can be in progress at once           *)
  Retriers,    (* retry requests that can be in progress at once            *)
  MaxFaults,   (* bound: crashes and database failures                      *)
  NoDoc        (* no document                                               *)

ASSUME ConstantsAssumption ==
  /\ Textless \subseteq Docs
  /\ MaxJobs \in Nat
  /\ MaxRetries \in Nat \ {0}
  /\ MaxFaults \in Nat
  /\ IsFiniteSet(Workers)
  /\ NoDoc \notin Docs /\ NoDoc \notin Workers

Jobs == 1..MaxJobs

\* An attempt is a job and the retry_count it ran with. Every run of
\* save_chunks creates rows with new ids, so the attempt names the chunk rows,
\* the vectors and the index entries that it produced.
Attempts == Jobs \X (0..MaxRetries)

VARIABLES
  docStatus,   \* documents.status, "ABSENT" before the row exists
  docDeleted,  \* documents.deleted
  jobStatus,   \* ingestion_jobs.status, "ABSENT" before the row exists
  jobDoc,      \* ingestion_jobs.document_id
  retryCount,  \* ingestion_jobs.retry_count
  due,         \* next_retry_at is null or in the past
  chunkRows,   \* attempts whose rows are in document_chunks
  vectors,     \* attempts whose rows are in langchain_pg_embedding
  short,       \* history: attempts that got fewer vectors than they had texts
  esIndex,     \* attempts whose entries are in the Elasticsearch index
  storage,     \* documents whose object is in the MinIO bucket
  wpc,         \* where each worker is in _execute_job / process
  wjob,        \* the job it holds (0 when idle)
  wDropped,    \* chunk rows its open transaction has deleted
  wAdded,      \* chunk rows its open transaction has inserted
  dpc,         \* where each delete request is in DocumentQueryService.delete
  ddoc,        \* the document it deletes
  dclean,      \* all(cleanup.values()) so far
  retrying,    \* the document each retry request has read as FAILED
  response,    \* what the last finished delete of a document reported
  torn,        \* history: documents whose delete was rolled back after the
               \* index cleanup had begun
  rollbacks    \* transactions rolled back so far, capped at MaxFaults + 1

docVars == <<docStatus, docDeleted>>
jobVars == <<jobStatus, jobDoc, retryCount, due>>
indexVars == <<chunkRows, vectors, short, esIndex, storage>>
workerVars == <<wpc, wjob, wDropped, wAdded>>
deleteVars == <<dpc, ddoc, dclean, response, torn>>
vars == <<docVars, jobVars, indexVars, workerVars, deleteVars, retrying,
          rollbacks>>

DocStatuses == {"ABSENT", "UPLOADED", "PROCESSING", "READY", "FAILED"}
JobStatuses == {"ABSENT", "PENDING", "RUNNING", "SUCCEEDED", "FAILED"}

\* A worker's position. From "processing" on, the RUNNING job and the
\* PROCESSING document are committed.
WorkerSteps == {"idle", "claimed", "loaded", "processing", "parsed", "chunked",
                "vectorised", "indexed", "failing"}

\* A delete request's position. From "marked" on it holds the document's row
\* lock; each later position names what it has cleaned last.
DeleteSteps == {"idle", "checked", "marked", "rows", "vectors", "es", "object"}

TypeOK ==
  /\ docStatus \in [Docs -> DocStatuses]
  /\ docDeleted \in [Docs -> BOOLEAN]
  /\ jobStatus \in [Jobs -> JobStatuses]
  /\ jobDoc \in [Jobs -> Docs \cup {NoDoc}]
  /\ retryCount \in [Jobs -> 0..MaxRetries]
  /\ due \in [Jobs -> BOOLEAN]
  /\ chunkRows \subseteq Attempts
  /\ vectors \subseteq Attempts
  /\ short \subseteq Attempts
  /\ esIndex \subseteq Attempts
  /\ storage \subseteq Docs
  /\ wpc \in [Workers -> WorkerSteps]
  /\ wjob \in [Workers -> Jobs \cup {0}]
  /\ wDropped \in [Workers -> SUBSET Attempts]
  /\ wAdded \in [Workers -> SUBSET Attempts]
  /\ dpc \in [Deleters -> DeleteSteps]
  /\ ddoc \in [Deleters -> Docs \cup {NoDoc}]
  /\ dclean \in [Deleters -> BOOLEAN]
  /\ retrying \in [Retriers -> Docs \cup {NoDoc}]
  /\ response \in [Docs -> {"none", "clean", "partial"}]
  /\ torn \subseteq Docs
  /\ rollbacks \in 0..(MaxFaults + 1)

Init ==
  /\ docStatus = [d \in Docs |-> "ABSENT"]
  /\ docDeleted = [d \in Docs |-> FALSE]
  /\ jobStatus = [j \in Jobs |-> "ABSENT"]
  /\ jobDoc = [j \in Jobs |-> NoDoc]
  /\ retryCount = [j \in Jobs |-> 0]
  /\ due = [j \in Jobs |-> TRUE]
  /\ chunkRows = {} /\ vectors = {} /\ short = {} /\ esIndex = {}
  /\ storage = {}
  /\ wpc = [w \in Workers |-> "idle"]
  /\ wjob = [w \in Workers |-> 0]
  /\ wDropped = [w \in Workers |-> {}]
  /\ wAdded = [w \in Workers |-> {}]
  /\ dpc = [x \in Deleters |-> "idle"]
  /\ ddoc = [x \in Deleters |-> NoDoc]
  /\ dclean = [x \in Deleters |-> TRUE]
  /\ retrying = [r \in Retriers |-> NoDoc]
  /\ response = [d \in Docs |-> "none"]
  /\ torn = {}
  /\ rollbacks = 0

-----------------------------------------------------------------------------
(* Reading the state.                                                      *)

Live(d) == docStatus[d] # "ABSENT" /\ ~docDeleted[d]

DocOf(w) == jobDoc[wjob[w]]
Attempt(w) == <<wjob[w], retryCount[wjob[w]]>>

\* What an attempt produces: the parsers of plain text and Markdown return a
\* document even when it is empty, and such a document gives no chunk.
Produced(w) == IF DocOf(w) \in Textless THEN {} ELSE {Attempt(w)}

\* The worker has committed PROCESSING and not yet its outcome.
Processing(w) == wpc[w] \notin {"idle", "claimed", "loaded"}

\* The attempts in a store that belong to a document.
Of(store, d) == {a \in store : jobDoc[a[1]] = d}

\* The document's row is locked by an open delete transaction.
RowLocked(d) ==
  \E x \in Deleters : ddoc[x] = d /\ dpc[x] \notin {"idle", "checked"}

\* The delete of d has begun to clean what its transaction cannot restore.
BeingCleaned(d) ==
  \E x \in Deleters : ddoc[x] = d /\ dpc[x] \in {"vectors", "es", "object"}

\* A delete has touched, or may have touched, what d needs outside its rows.
Damaged(d) == docDeleted[d] \/ BeingCleaned(d) \/ d \in torn

\* Rows of d that an open delete transaction has deleted.
RowsLockedByDelete(d) ==
  /\ \E x \in Deleters :
        ddoc[x] = d /\ dpc[x] \in {"rows", "vectors", "es", "object"}
  /\ Of(chunkRows, d) # {}

\* Faulty variant: the join forgets Document.deleted == False.
CitableUnfiltered == {a \in chunkRows : a \in vectors \cup esIndex}

\* _fetch_chunk_rows: what a question asked now can cite, an attempt whose
\* rows exist, are found by one of the two channels and join a document that
\* is not soft-deleted.
Citable ==
  {a \in chunkRows : a \in vectors \cup esIndex /\ ~docDeleted[jobDoc[a[1]]]}

-----------------------------------------------------------------------------
(* Requests that create jobs.                                              *)

\* The row that the next INSERT into ingestion_jobs creates.
NextJob(j) ==
  /\ jobStatus[j] = "ABSENT"
  /\ \A k \in Jobs : k < j => jobStatus[k] # "ABSENT"

\* _create_ingestion_job.
CreateJob(j, d) ==
  /\ NextJob(j)
  /\ jobStatus' = [jobStatus EXCEPT ![j] = "PENDING"]
  /\ jobDoc' = [jobDoc EXCEPT ![j] = d]
  /\ UNCHANGED <<retryCount, due>>

\* direct_upload, past the duplicate check: the object is stored, then the
\* document and its job are committed together.
Upload(d) ==
  /\ docStatus[d] = "ABSENT"
  /\ storage' = storage \cup {d}
  /\ docStatus' = [docStatus EXCEPT ![d] = "UPLOADED"]
  /\ \E j \in Jobs : CreateJob(j, d)
  /\ UNCHANGED <<docDeleted, chunkRows, vectors, short, esIndex, workerVars,
                 deleteVars, retrying, rollbacks>>

\* retry_ingestion / admin_retry_document read the row and check it.
RetryCheck(r, d) ==
  /\ retrying[r] = NoDoc
  /\ Live(d)
  /\ docStatus[d] = "FAILED"
  /\ retrying' = [retrying EXCEPT ![r] = d]
  /\ UNCHANGED <<docVars, jobVars, indexVars, workerVars, deleteVars,
                 rollbacks>>

\* Faulty variant: the whole stale row is written back, deleted included.
RetryCommitStaleRow(r) ==
  LET d == retrying[r]
  IN  /\ d # NoDoc
      /\ ~RowLocked(d)
      /\ docStatus' = [docStatus EXCEPT ![d] = "UPLOADED"]
      /\ docDeleted' = [docDeleted EXCEPT ![d] = FALSE]
      /\ \E j \in Jobs : CreateJob(j, d)
      /\ retrying' = [retrying EXCEPT ![r] = NoDoc]
      /\ UNCHANGED <<indexVars, workerVars, deleteVars, rollbacks>>

\* Faulty variant: a job of the document that has failed is queued again.
RetryCommitReuse(r) ==
  LET d == retrying[r]
  IN  /\ d # NoDoc
      /\ ~RowLocked(d)
      /\ docStatus' = [docStatus EXCEPT ![d] = "UPLOADED"]
      /\ \E j \in Jobs :
            /\ jobDoc[j] = d /\ jobStatus[j] = "FAILED"
            /\ jobStatus' = [jobStatus EXCEPT ![j] = "PENDING"]
      /\ retrying' = [retrying EXCEPT ![r] = NoDoc]
      /\ UNCHANGED <<docDeleted, jobDoc, retryCount, due, indexVars, workerVars,
                     deleteVars, rollbacks>>

\* ... and later write the row by its id, whatever it holds by then.
RetryCommit(r) ==
  LET d == retrying[r]
  IN  /\ d # NoDoc
      /\ ~RowLocked(d)
      /\ docStatus' = [docStatus EXCEPT ![d] = "UPLOADED"]
      /\ \E j \in Jobs : CreateJob(j, d)
      /\ retrying' = [retrying EXCEPT ![r] = NoDoc]
      /\ UNCHANGED <<docDeleted, indexVars, workerVars, deleteVars, rollbacks>>

-----------------------------------------------------------------------------
(* The ingestion worker.                                                   *)

Advance(w, from, to) ==
  /\ wpc[w] = from
  /\ wpc' = [wpc EXCEPT ![w] = to]

\* The session ends: the worker keeps nothing.
Release(w) ==
  /\ wpc' = [wpc EXCEPT ![w] = "idle"]
  /\ wjob' = [wjob EXCEPT ![w] = 0]
  /\ wDropped' = [wDropped EXCEPT ![w] = {}]
  /\ wAdded' = [wAdded EXCEPT ![w] = {}]

Held(j) == \E w \in Workers : wjob[w] = j

\* Faulty variant: the poll query without FOR UPDATE SKIP LOCKED.
ClaimableUnlocked(j) == jobStatus[j] = "PENDING" /\ due[j]

\* A job the poll query can return: PENDING, due, its row not locked.
Claimable(j) == jobStatus[j] = "PENDING" /\ due[j] /\ ~Held(j)

\* SELECT ... FOR UPDATE SKIP LOCKED ORDER BY created_at LIMIT 1, then RUNNING
\* is flushed: the job's row stays locked, the new status is not yet visible.
Claim(w) ==
  /\ \E j \in Jobs :
        /\ Claimable(j)
        /\ \A k \in Jobs : k < j => ~Claimable(k)
        /\ wjob' = [wjob EXCEPT ![w] = j]
  /\ Advance(w, "idle", "claimed")
  /\ UNCHANGED <<docVars, jobVars, indexVars, wDropped, wAdded, deleteVars,
                 retrying, rollbacks>>

\* process reads the document and finds it.
Load(w) ==
  /\ Advance(w, "claimed", "loaded")
  /\ ~docDeleted[DocOf(w)]
  /\ UNCHANGED <<docVars, jobVars, indexVars, wjob, wDropped, wAdded,
                 deleteVars, retrying, rollbacks>>

\* Faulty variant: the retry limit is compared one too late.
JobFailsLate(j) ==
  /\ retryCount' = [retryCount EXCEPT ![j] = @ + 1]
  /\ IF retryCount[j] < MaxRetries
     THEN /\ jobStatus' = [jobStatus EXCEPT ![j] = "PENDING"]
          /\ due' = [due EXCEPT ![j] = FALSE]
     ELSE /\ jobStatus' = [jobStatus EXCEPT ![j] = "FAILED"]
          /\ UNCHANGED due
  /\ UNCHANGED jobDoc

\* Faulty variant: retry_count is not incremented.
JobFailsUncounted(j) ==
  /\ jobStatus' = [jobStatus EXCEPT ![j] = "PENDING"]
  /\ due' = [due EXCEPT ![j] = FALSE]
  /\ UNCHANGED <<jobDoc, retryCount>>

\* The failure branch of _execute_job: one more retry, later, or the end.
JobFails(j) ==
  /\ retryCount' = [retryCount EXCEPT ![j] = @ + 1]
  /\ IF retryCount[j] + 1 < MaxRetries
     THEN /\ jobStatus' = [jobStatus EXCEPT ![j] = "PENDING"]
          /\ due' = [due EXCEPT ![j] = FALSE]
     ELSE /\ jobStatus' = [jobStatus EXCEPT ![j] = "FAILED"]
          /\ UNCHANGED due
  /\ UNCHANGED jobDoc

\* process reads the document and finds it deleted: it raises before its try
\* block, so the document is left alone.
RejectDeleted(w) ==
  /\ wpc[w] = "claimed"
  /\ docDeleted[DocOf(w)]
  /\ JobFails(wjob[w])
  /\ Release(w)
  /\ UNCHANGED <<docVars, indexVars, deleteVars, retrying, rollbacks>>

\* Faulty variant: the job is RUNNING, the document's status is not written.
MarkProcessingJobOnly(w) ==
  /\ Advance(w, "loaded", "processing")
  /\ ~RowLocked(DocOf(w))
  /\ jobStatus' = [jobStatus EXCEPT ![wjob[w]] = "RUNNING"]
  /\ UNCHANGED <<docVars, jobDoc, retryCount, due, indexVars, wjob,
                 wDropped, wAdded, deleteVars, retrying, rollbacks>>

\* PROCESSING is written by id and committed, and RUNNING with it. The commit
\* ends the lock that the claim took on the job's row.
MarkProcessing(w) ==
  /\ Advance(w, "loaded", "processing")
  /\ ~RowLocked(DocOf(w))
  /\ docStatus' = [docStatus EXCEPT ![DocOf(w)] = "PROCESSING"]
  /\ jobStatus' = [jobStatus EXCEPT ![wjob[w]] = "RUNNING"]
  /\ UNCHANGED <<docDeleted, jobDoc, retryCount, due, indexVars, wjob,
                 wDropped, wAdded, deleteVars, retrying, rollbacks>>

\* The file is downloaded, parsed, cleaned and cut.
Extract(w) ==
  /\ Advance(w, "processing", "parsed")
  /\ DocOf(w) \in storage
  /\ UNCHANGED <<docVars, jobVars, indexVars, wjob, wDropped, wAdded,
                 deleteVars, retrying, rollbacks>>

\* Faulty variant: the rows of earlier attempts are kept.
SaveChunksAppend(w) ==
  /\ Advance(w, "parsed", "chunked")
  /\ ~RowsLockedByDelete(DocOf(w))
  /\ wAdded' = [wAdded EXCEPT ![w] = Produced(w)]
  /\ UNCHANGED <<docVars, jobVars, indexVars, wjob, wDropped, deleteVars,
                 retrying, rollbacks>>

\* save_chunks: the visible rows of the document are deleted and new ones
\* inserted, all uncommitted. It waits for a delete request that has deleted
\* those rows. Rows another worker has deleted are gone once that worker
\* commits; waiting for its rollback instead is this action taken later.
SaveChunks(w) ==
  LET others == UNION {wDropped[v] : v \in Workers \ {w}}
  IN  /\ Advance(w, "parsed", "chunked")
      /\ ~RowsLockedByDelete(DocOf(w))
      /\ wDropped' = [wDropped EXCEPT ![w] = Of(chunkRows, DocOf(w)) \ others]
      /\ wAdded' = [wAdded EXCEPT ![w] = Produced(w)]
      /\ UNCHANGED <<docVars, jobVars, indexVars, wjob, deleteVars, retrying,
                     rollbacks>>

\* add_documents: one transaction of another connection, visible at once.
\* _embed_texts takes every answer with status 200, "embeddings" defaulting to
\* [], and zip drops the texts that got no vector: a short answer inserts some
\* of the vectors, or none, and raises nothing.
AddVectors(w) ==
  /\ Advance(w, "chunked", "vectorised")
  /\ \/ /\ vectors' = vectors \cup Produced(w)
        /\ UNCHANGED short
     \/ /\ vectors' \in {vectors, vectors \cup Produced(w)}
        /\ short' = short \cup Produced(w)
  /\ UNCHANGED <<docVars, jobVars, chunkRows, esIndex, storage, wjob, wDropped,
                 wAdded, deleteVars, retrying, rollbacks>>

\* index_chunks: an error is logged and swallowed.
IndexES(w) ==
  /\ Advance(w, "vectorised", "indexed")
  /\ esIndex' \in {esIndex, esIndex \cup Produced(w)}
  /\ UNCHANGED <<docVars, jobVars, chunkRows, vectors, short, storage, wjob,
                 wDropped, wAdded, deleteVars, retrying, rollbacks>>

\* Faulty variant: the exception is swallowed before the FAILED update.
StepFailsSilently(w) ==
  /\ wpc[w] \in {"processing", "chunked"}
  /\ Release(w)
  /\ UNCHANGED <<docVars, jobVars, indexVars, deleteVars, retrying, rollbacks>>

\* Download, parsing or embedding raises.
StepFails(w) ==
  /\ \E from \in {"processing", "chunked"} : Advance(w, from, "failing")
  /\ UNCHANGED <<docVars, jobVars, indexVars, wjob, wDropped, wAdded,
                 deleteVars, retrying, rollbacks>>

\* The commit of the worker's transaction, with the document's new status
\* written by its id: it waits for the document's row lock.
CommitAttempt(w, status) ==
  /\ ~RowLocked(DocOf(w))
  /\ docStatus' = [docStatus EXCEPT ![DocOf(w)] = status]
  /\ chunkRows' = (chunkRows \ wDropped[w]) \cup wAdded[w]
  /\ Release(w)
  /\ UNCHANGED <<docDeleted, vectors, short, esIndex, storage, deleteVars,
                 retrying, rollbacks>>

\* Faulty variant: READY does not wait for the vectors.
FinishReadyEarly(w) ==
  /\ wpc[w] \in {"chunked", "indexed"}
  /\ CommitAttempt(w, "READY")
  /\ jobStatus' = [jobStatus EXCEPT ![wjob[w]] = "SUCCEEDED"]
  /\ UNCHANGED <<jobDoc, retryCount, due>>

\* READY and SUCCEEDED are committed with the chunk rows.
FinishReady(w) ==
  /\ wpc[w] = "indexed"
  /\ CommitAttempt(w, "READY")
  /\ jobStatus' = [jobStatus EXCEPT ![wjob[w]] = "SUCCEEDED"]
  /\ UNCHANGED <<jobDoc, retryCount, due>>

\* Faulty variant: the document is FAILED, the job's bookkeeping is lost.
FinishFailedDocOnly(w) ==
  /\ wpc[w] = "failing"
  /\ CommitAttempt(w, "FAILED")
  /\ UNCHANGED jobVars

\* FAILED is committed in the same transaction as what the attempt has saved:
\* an exception that is not the database's does not roll the chunk rows back.
FinishFailed(w) ==
  /\ wpc[w] = "failing"
  /\ CommitAttempt(w, "FAILED")
  /\ JobFails(wjob[w])

\* next_retry_at passes.
BackoffEnds(j) ==
  /\ jobStatus[j] = "PENDING"
  /\ ~due[j]
  /\ due' = [due EXCEPT ![j] = TRUE]
  /\ UNCHANGED <<docVars, jobStatus, jobDoc, retryCount, indexVars, workerVars,
                 deleteVars, retrying, rollbacks>>

-----------------------------------------------------------------------------
(* DocumentQueryService.delete, with its router's commit.                  *)

AdvanceDelete(x, from, to) ==
  /\ dpc[x] = from
  /\ dpc' = [dpc EXCEPT ![x] = to]

ReleaseDelete(x) ==
  /\ dpc' = [dpc EXCEPT ![x] = "idle"]
  /\ ddoc' = [ddoc EXCEPT ![x] = NoDoc]
  /\ dclean' = [dclean EXCEPT ![x] = TRUE]

\* The row is read and is not deleted.
DeleteCheck(x, d) ==
  /\ Live(d)
  /\ AdvanceDelete(x, "idle", "checked")
  /\ ddoc' = [ddoc EXCEPT ![x] = d]
  /\ UNCHANGED <<docVars, jobVars, indexVars, workerVars, dclean, response,
                 torn, retrying, rollbacks>>

\* deleted = True is flushed, which takes the document's row lock.
DeleteMark(x) ==
  /\ ~RowLocked(ddoc[x])
  /\ AdvanceDelete(x, "checked", "marked")
  /\ UNCHANGED <<docVars, jobVars, indexVars, workerVars, ddoc, dclean,
                 response, torn, retrying, rollbacks>>

\* A worker's open transaction has deleted rows that this request deletes too.
RowsLockedByWorker(x) ==
  {w \in Workers : wDropped[w] # {} /\ DocOf(w) = ddoc[x]}

\* The chunk rows are deleted; they disappear with the commit.
DeleteRows(x) ==
  /\ RowsLockedByWorker(x) = {}
  /\ AdvanceDelete(x, "marked", "rows")
  /\ UNCHANGED <<docVars, jobVars, indexVars, workerVars, ddoc, dclean,
                 response, torn, retrying, rollbacks>>

\* Faulty variant: the DELETE matches no row and nobody notices.
DeleteVectorsNoMatch(x) ==
  /\ AdvanceDelete(x, "rows", "vectors")
  /\ UNCHANGED <<docVars, jobVars, indexVars, workerVars, ddoc, dclean,
                 response, torn, retrying, rollbacks>>

\* The vectors are deleted on another connection, or the failure is noted.
DeleteVectors(x) ==
  /\ AdvanceDelete(x, "rows", "vectors")
  /\ \/ /\ vectors' = vectors \ Of(vectors, ddoc[x])
        /\ UNCHANGED dclean
     \/ /\ dclean' = [dclean EXCEPT ![x] = FALSE]
        /\ UNCHANGED vectors
  /\ UNCHANGED <<docVars, jobVars, chunkRows, short, esIndex, storage,
                 workerVars, ddoc, response, torn, retrying, rollbacks>>

\* es_service.delete_by_document_ids swallows its own errors, so the request
\* never notes one.
DeleteES(x) ==
  /\ AdvanceDelete(x, "vectors", "es")
  /\ esIndex' \in {esIndex, esIndex \ Of(esIndex, ddoc[x])}
  /\ UNCHANGED <<docVars, jobVars, chunkRows, vectors, short, storage,
                 workerVars, ddoc, dclean, response, torn, retrying, rollbacks>>

\* The stored object is removed, or the failure is noted.
DeleteObject(x) ==
  /\ AdvanceDelete(x, "es", "object")
  /\ \/ /\ storage' = storage \ {ddoc[x]}
        /\ UNCHANGED dclean
     \/ /\ dclean' = [dclean EXCEPT ![x] = FALSE]
        /\ UNCHANGED storage
  /\ UNCHANGED <<docVars, jobVars, chunkRows, vectors, short, esIndex,
                 workerVars, ddoc, response, torn, retrying, rollbacks>>

\* get_db commits after the handler has returned, and the client is answered.
DeleteCommit(x) ==
  /\ dpc[x] = "object"
  /\ docDeleted' = [docDeleted EXCEPT ![ddoc[x]] = TRUE]
  /\ chunkRows' = chunkRows \ Of(chunkRows, ddoc[x])
  /\ response' = [response EXCEPT ![ddoc[x]] =
                    IF dclean[x] THEN "clean" ELSE "partial"]
  /\ ReleaseDelete(x)
  /\ UNCHANGED <<docStatus, jobVars, vectors, short, esIndex, storage,
                 workerVars, torn, retrying, rollbacks>>

-----------------------------------------------------------------------------
(* Transactions that do not reach their commit.                            *)

CountRollback ==
  rollbacks' = IF rollbacks > MaxFaults THEN rollbacks ELSE rollbacks + 1

\* The worker's transaction is lost: what it had committed at MarkProcessing
\* stays. An error of the database aborts the transaction, so the FAILED update
\* and the retry bookkeeping that follow fail too and only the poll loop
\* catches the exception. stop() cancels the task with the same result.
RollbackWorker(w) ==
  /\ Release(w)
  /\ CountRollback
  /\ UNCHANGED <<docVars, jobVars, indexVars, deleteVars, retrying>>

\* The delete's transaction is lost, its index cleanup is not.
RollbackDelete(x) ==
  /\ ReleaseDelete(x)
  /\ torn' = IF dpc[x] \in {"vectors", "es", "object"}
             THEN torn \cup {ddoc[x]} ELSE torn
  /\ CountRollback
  /\ UNCHANGED <<docVars, jobVars, indexVars, workerVars, response, retrying>>

WorkerAborts(w) ==
  /\ rollbacks < MaxFaults
  /\ wpc[w] # "idle"
  /\ RollbackWorker(w)

DeleteAborts(x) ==
  /\ rollbacks < MaxFaults
  /\ dpc[x] # "idle"
  /\ RollbackDelete(x)

\* The delete holds the document's row and waits for chunk rows; the worker
\* holds those and waits for the document's row. PostgreSQL aborts one.
Deadlock(x, w) ==
  /\ dpc[x] = "marked"
  /\ w \in RowsLockedByWorker(x)
  /\ wpc[w] \in {"indexed", "failing"}
  /\ RollbackWorker(w) \/ RollbackDelete(x)

\* The process dies and starts again: every open transaction is lost. start()
\* does not look for jobs that were RUNNING.
Crash ==
  /\ rollbacks < MaxFaults
  /\ wpc' = [w \in Workers |-> "idle"]
  /\ wjob' = [w \in Workers |-> 0]
  /\ wDropped' = [w \in Workers |-> {}]
  /\ wAdded' = [w \in Workers |-> {}]
  /\ dpc' = [x \in Deleters |-> "idle"]
  /\ ddoc' = [x \in Deleters |-> NoDoc]
  /\ dclean' = [x \in Deleters |-> TRUE]
  /\ retrying' = [r \in Retriers |-> NoDoc]
  /\ torn' = torn \cup {d \in Docs : BeingCleaned(d)}
  /\ CountRollback
  /\ UNCHANGED <<docVars, jobVars, indexVars, response>>

-----------------------------------------------------------------------------

WorkerNext(w) ==
  \/ Claim(w) \/ Load(w) \/ RejectDeleted(w) \/ MarkProcessing(w)
  \/ Extract(w) \/ SaveChunks(w) \/ AddVectors(w) \/ IndexES(w)
  \/ StepFails(w) \/ FinishReady(w) \/ FinishFailed(w)

\* A delete request that has begun runs to its end.
DeleteContinues(x) ==
  \/ DeleteMark(x) \/ DeleteRows(x) \/ DeleteVectors(x) \/ DeleteES(x)
  \/ DeleteObject(x) \/ DeleteCommit(x)

Next ==
  \/ \E d \in Docs : Upload(d)
  \/ \E r \in Retriers, d \in Docs : RetryCheck(r, d)
  \/ \E r \in Retriers : RetryCommit(r)
  \/ \E w \in Workers : WorkerNext(w)
  \/ \E j \in Jobs : BackoffEnds(j)
  \/ \E x \in Deleters, d \in Docs : DeleteCheck(x, d)
  \/ \E x \in Deleters : DeleteContinues(x)
  \/ \E x \in Deleters, w \in Workers : Deadlock(x, w)
  \/ \E w \in Workers : WorkerAborts(w)
  \/ \E x \in Deleters : DeleteAborts(x)
  \/ Crash

Spec == Init /\ [][Next]_vars

\* What the event loop, the database and the clock guarantee: a worker and a
\* delete request that can take a step take one, a retry time passes, and a
\* deadlock is broken. No request is ever obliged to arrive.
Fairness ==
  /\ \A w \in Workers : WF_vars(WorkerNext(w))
  /\ \A x \in Deleters : WF_vars(DeleteContinues(x))
  /\ \A j \in Jobs : WF_vars(BackoffEnds(j))
  /\ \A x \in Deleters, w \in Workers : WF_vars(Deadlock(x, w))

FairSpec == Spec /\ Fairness

-----------------------------------------------------------------------------
(* Properties.                                                             *)

\* A document waiting to be processed has a job waiting to process it: no
\* upload, failed attempt, retry request, crash or database failure loses it.
\* (UPLOADED is only ever written together with a new PENDING job, and a
\* PENDING job leaves that status only by making the document PROCESSING, or
\* because the document is deleted.)
UploadedIsQueued ==
  \A d \in Docs :
    Live(d) /\ docStatus[d] = "UPLOADED" =>
      \E j \in Jobs : jobDoc[j] = d /\ jobStatus[j] = "PENDING"

\* A READY document with text keeps its chunk rows, also when a delete that had
\* begun to clean it was rolled back. While no delete has touched what lies
\* outside its rows, one attempt that it has rows of has its vectors too, unless
\* the embedding service answered that very attempt with too few. It takes the
\* order of process (vectors before READY), one transaction for the chunk rows
\* and the status, and the row lock of delete.
ReadyIsSearchable ==
  \A d \in Docs \ Textless : docStatus[d] = "READY" /\ ~docDeleted[d] =>
    /\ Of(chunkRows, d) # {}
    /\ ~Damaged(d) => Of(chunkRows \cap (vectors \cup short), d) # {}

\* A document that is not deleted can be downloaded, with the same exceptions.
LiveIsStored ==
  \A d \in Docs :
    docStatus[d] # "ABSENT" /\ ~Damaged(d) => d \in storage

\* Two workers never hold the same job (FOR UPDATE SKIP LOCKED until RUNNING is
\* committed), and a held job is in the status its holder believes.
JobHeldOnce ==
  \A w \in Workers : wpc[w] # "idle" =>
    /\ jobStatus[wjob[w]] = IF Processing(w) THEN "RUNNING" ELSE "PENDING"
    /\ \A v \in Workers \ {w} : wjob[v] # wjob[w]

\* A worker without a job is idle, and only it.
IdleHoldsNothing ==
  \A w \in Workers : wpc[w] = "idle" <=> wjob[w] = 0

\* A job that can still run has a retry left.
RetriesLeft ==
  \A j \in Jobs :
    jobStatus[j] \notin {"SUCCEEDED", "FAILED"} => retryCount[j] < MaxRetries

\* A row of ingestion_jobs names a document.
JobsHaveDocuments ==
  \A j \in Jobs : jobStatus[j] # "ABSENT" =>
    jobDoc[j] \in Docs /\ docStatus[jobDoc[j]] # "ABSENT"

\* A request in progress names a document.
RequestsHaveDocuments ==
  /\ \A x \in Deleters : dpc[x] # "idle" =>
       ddoc[x] \in Docs /\ docStatus[ddoc[x]] # "ABSENT"
  /\ \A r \in Retriers : retrying[r] # NoDoc =>
       docStatus[retrying[r]] # "ABSENT"

\* The stores hold attempts of jobs that exist. An open transaction, and no
\* other worker, drops rows of its own document and adds those of its attempt.
StoresMatchJobs ==
  /\ \A a \in chunkRows \cup vectors : jobStatus[a[1]] # "ABSENT"
  /\ \A w \in Workers :
       IF wpc[w] = "idle"
       THEN wDropped[w] = {} /\ wAdded[w] = {}
       ELSE /\ wAdded[w] \subseteq {Attempt(w)}
            /\ \A a \in wDropped[w] :
                 jobStatus[a[1]] # "ABSENT" /\ jobDoc[a[1]] = DocOf(w)

\* The leases and retries as an inductive invariant: every safety theorem rests
\* on it. Mutual exclusion alone is not inductive, because the end of a lease is
\* only harmless to the others when no other worker holds the same job, and the
\* retry count stays in its range only while a job that runs has a retry left.
LeaseInvariant ==
  /\ JobHeldOnce
  /\ IdleHoldsNothing
  /\ RetriesLeft
  /\ JobsHaveDocuments
  /\ RequestsHaveDocuments
  /\ StoresMatchJobs

\* As long as no transaction has been rolled back, a RUNNING job is being run
\* and a PROCESSING document is being processed: whichever way an attempt ends,
\* and whatever a second job, a retry or a delete does meanwhile, it takes the
\* document and the job out of these two states together.
RunningIsHeld ==
  rollbacks = 0 =>
    /\ \A j \in Jobs : jobStatus[j] = "RUNNING" => Held(j)
    /\ \A d \in Docs : docStatus[d] = "PROCESSING" =>
         \E w \in Workers : Processing(w) /\ DocOf(w) = d

\* Once a client has been told that a document is deleted, no question cites
\* it: neither an attempt that was in flight nor a failed cleanup, a rollback
\* or a retry brings it back into what _fetch_chunk_rows returns.
DeletedNeverCited ==
  \A d \in Docs : response[d] # "none" => Of(Citable, d) = {}

\* A cleanup that reported success leaves the vectors of at most one attempt
\* per worker, the ones that were in flight while the delete ran.
LeftoversBounded ==
  \A d \in Docs : response[d] = "clean" /\ rollbacks = 0 =>
    Cardinality(Of(vectors, d)) <= Cardinality(Workers)

\* One worker at a time never leaves a document with two generations of rows.
OneGeneration ==
  Cardinality(Workers) = 1 =>
    \A d \in Docs : Cardinality(Of(chunkRows, d)) <= 1

\* A job that has ended is never touched again, an attempt that fails costs one
\* retry, and a job gives up exactly when it has used its retries.
JobsMoveForward ==
  [][\A j \in Jobs :
      /\ jobStatus[j] \in {"SUCCEEDED", "FAILED"} =>
           jobStatus'[j] = jobStatus[j] /\ retryCount'[j] = retryCount[j]
      /\ retryCount'[j] # retryCount[j] =>
           /\ retryCount'[j] = retryCount[j] + 1
           /\ jobStatus'[j] =
                IF retryCount'[j] = MaxRetries THEN "FAILED" ELSE "PENDING"
    ]_vars

\* ingestion_jobs is the queue of JobQueue: a job is leased while a worker
\* holds it and lost when it is RUNNING with no worker.
QueueState(j) ==
  IF Held(j) THEN "leased"
  ELSE CASE jobStatus[j] = "ABSENT" -> "absent"
         [] jobStatus[j] = "PENDING" -> "waiting"
         [] jobStatus[j] = "RUNNING" -> "lost"
         [] jobStatus[j] = "SUCCEEDED" -> "done"
         [] jobStatus[j] = "FAILED" -> "dead"

QueueHolder(j) ==
  IF Held(j) THEN CHOOSE w \in Workers : wjob[w] = j ELSE NoDoc

Queue == INSTANCE JobQueue
  WITH Nobody <- NoDoc,
       state <- [j \in Jobs |-> QueueState(j)],
       holder <- [j \in Jobs |-> QueueHolder(j)],
       failures <- retryCount

\* The worker, with its transactions, row locks, crashes and database errors,
\* implements that queue.
ImplementsQueue == Queue!Spec

\* Every job ends and every document that is not deleted settles, as long as
\* every transaction reaches its commit.
JobsEnd ==
  \A j \in Jobs : jobStatus[j] = "PENDING" ~>
    jobStatus[j] \in {"SUCCEEDED", "FAILED"} \/ rollbacks > 0

DocumentsSettle ==
  \A d \in Docs : docStatus[d] \in {"UPLOADED", "PROCESSING"} ~>
    docStatus[d] \in {"READY", "FAILED"} \/ docDeleted[d] \/ rollbacks > 0

-----------------------------------------------------------------------------
(* What the documents say and the code does not do.                        *)

\* The design's ingestion flow ends every failure in FAILED with a reason, from
\* which the document can be retried: no document stays PROCESSING for ever.
\* (process commits PROCESSING and RUNNING early; start() and the poll query
\* look at PENDING jobs only.)
FailureIsRecorded ==
  \A d \in Docs : docStatus[d] = "PROCESSING" ~>
    docStatus[d] \in {"READY", "FAILED"} \/ docDeleted[d]

=============================================================================
