# A TLA+ model of Argus

Argus is a knowledge-base service: groups of users upload documents, a
background worker turns each document into chunks, vectors and search-index
entries, and questions are answered from those chunks, by a retrieval pipeline
(`qa`) or by an agent with tools (`assistant`). The backend is one Python process
(`src/Argus-python/app`, FastAPI and asyncio) over PostgreSQL with pgvector,
Elasticsearch and MinIO; the frontend (`src/Argus-frontend`) is a Vue
application over its API.

## 1. Inventory

Paths are relative to `src/Argus-python/app`.

| part | state it keeps | operations | what is hard |
|---|---|---|---|
| Ingestion worker (`ingestion/`) | `ingestion_jobs`, `document_chunks`, the status of a document | poll and claim, `process`, retry with backoff | two transactions per attempt, vectors written on another connection, crashes, several workers, PostgreSQL row locks |
| Document deletion and retry (`document/service.py`, `router.py`) | `documents.deleted`, four stores | `delete`, `admin_delete_document`, `retry_ingestion`, `admin_retry_document` | cleanup before commit, cleanup that fails, interleaving with an attempt in flight |
| Uploads (`document/`) | `document_upload_sessions`, `document_upload_chunks`, MinIO objects | `direct_upload`, `init_upload`, `upload_chunk`, `complete_upload`, hourly cleanup | check-then-insert deduplication, re-sent chunks, expiry during completion |
| Tokens and login (`auth/`, `user/`) | `user_refresh_tokens`, `users` | login, refresh with rotation, logout, change and reset of the password | replay of a refresh token, a rolled-back revocation, status checks |
| Groups (`group/`) | groups, memberships, invitations, join requests | create, invite, respond, request, decide, leave, remove, ban, unban, dissolve | handlers that check and then write by id, two handlers deciding the same request, a dissolution of six statements among all of them |
| Retrieval (`qa/retrieval.py`, `engine/`) | none | vector and keyword channels, rank fusion, join with live documents, evidence level | rows that are gone when they are fetched, one channel failing |
| Questions (`qa/service.py`) | `qa_sessions`, `qa_messages` | `ask`, `ask_stream`, the incremental answer parser, the record of the round | markers split across pieces, a client that leaves |
| Chunking (`ingestion/transformers/chunking.py`) | none | sections, segments, merging, overlap | arithmetic of offsets and lengths |
| Assistant (`assistant/`) | the agent's thread in memory, session contexts, messages | chat stream, tools, interrupts and confirmation cards, memory row, deletion | calls that run again after an interrupt, streams that are cut off, two streams of a session, a restart |
| Model configuration (`models_config/`) | `model_configs` | add, activate, delete, resolve with fallback | one active model per type under concurrent activations |
| Audit, metrics, system, configuration, frontend | logs, counters, views | | see section 7 |

Interaction: handlers share only the database and the stores; the worker learns
of work by polling `ingestion_jobs`. Every handler runs in one transaction that
`get_db` (`dependencies.py:9-16`) commits after the handler returns, or rolls
back. Retrieval reads what is committed at that moment.

What makes each part correct (the hazards of `PROJECT.json` say at which line it
could go wrong, and which property watches it):

* Ingestion: a job is run by one worker, at most `max_retries` times, and ends;
  a READY document can be cited, a live one is never lost or stuck.
* Deletion: what is reported deleted is never cited again, and what stays behind
  is bounded.
* Uploads: a document lacks a chunk of its file only where surplus rows have been
  counted instead; duplicates are bounded; the cleanup takes nothing that is being completed, and in the end all that expired.
* Tokens: one session per user, a token is exchanged once, a disabled user gets
  none by logging in, a password that an administrator has set has to be changed.
* Groups: the owner stays a member; duplicates and repeated decisions need
  requests that overlap; a dissolution takes everything that was there.
* Retrieval and questions: evidence is attributed to a passage it contains; the
  streamed answer is the answer, however it is split; the record says what was
  shown; without evidence nothing is answered or cited.
* Chunking: every part of a text is in some chunk.
* Assistant: nothing is written without a confirmation, a confirmation executes
  what its card shows and executes it once; every request ends.
* Model configuration: at most one active model of a type, and the one in use
  does not disappear.

## 2. Modules

| module | role |
|---|---|
| `DocumentIngestion` | worker, delete, retry, stores, what can be cited |
| `JobQueue` | abstract specification: what `ingestion_jobs` promises as a queue |
| `Upload` | how one file gets into one group: direct, in chunks, and the cleanup |
| `Account` | one user's password, status and refresh tokens |
| `GroupMembership` | one group: members, invitations, join requests, bans, dissolution, uploads |
| `ModelSettings` | the model configurations of one type |
| `AnswerParser`, `HybridRetrieval` | pure operators: the answer in a reply; evidence and its level |
| `Questions` | one round of question answering, composed of the two |
| `Chunking` | pure operators: how a document is cut |
| `Assistant` | one assistant session: requests, agent, tools, cards, memory row |
| `...Proofs` (eight of them) | theorems of `DocumentIngestion` with its refinement of `JobQueue`, `Upload`, `Account`, `GroupMembership`, `ModelSettings`, `Questions`, `Assistant`; `OperatorProofs`: what the pure operators of `AnswerParser`, `HybridRetrieval` and `Chunking` compute |
| `MC...` | the modules for TLC: symmetries, values of constants; `MCChunking` enumerates documents |

How they fit together. `Upload` ends where `DocumentIngestion` begins: its
`CreateDocument` is the other's `Upload` action, and a document's later life is
only "live or deleted" in it. `GroupMembership.UploadCommit` is that same commit,
seen from the access check of the group. `Chunking` is inside
`DocumentIngestion.Extract`, and what `DocumentIngestion` says can be cited are the
rows that `Questions.Fetch` may find, or not: any set of hits may have lost its
rows there. `Account` shares no state with the others: a request carries its user
in a signed token, and no handler of documents reads `users`. The assistant's write
tools change statuses that `GroupMembership`, `DocumentIngestion` and `Account` model
from their side; `Assistant` keeps only the status of each target.

All state machines treat transactions in the same way, as PostgreSQL does at READ
COMMITTED: variables hold committed rows, what an open transaction has written
belongs to its request, a statement that needs a row another transaction has
written waits (its action is not enabled), and a rollback restores rows but not
what MinIO, pgvector's own connection or Elasticsearch have done.

Definitions preceded by "Faulty variant" are not part of any specification: they
are the bugs that a property is tried against.

### DocumentIngestion

A variable holds committed rows. What a transaction has written and not
committed belongs to the process that wrote it: a worker that has claimed a job
(`wjob`, `wpc = "claimed"`) holds the row lock of `FOR UPDATE SKIP LOCKED` although
`jobStatus` still says PENDING; the chunk rows that `save_chunks` has deleted
and inserted are in `wDropped` and `wAdded` until the commit. PostgreSQL's row
locks are the operators `RowLocked` (a delete has flushed `deleted = True`),
`RowsLockedByDelete` and `RowsLockedByWorker`; a step that needs a locked row is
not enabled, and two transactions that wait for each other are the action
`Deadlock`, which aborts one of them. Vectors, index entries and objects are
outside that transaction, so they change at once and a rollback does not
restore them.

| code | action |
|---|---|
| `direct_upload`, past the duplicate check | `Upload` |
| `_poll_loop` 43-56 and `_execute_job` 69-73 | `Claim` |
| `process` 39-44 | `Load`, or `RejectDeleted` with the failure branch of `_execute_job` |
| `process` 46-51 | `MarkProcessing` |
| `process` 53-74 | `Extract` |
| `save_chunks`, `add_documents`, `index_chunks` | `SaveChunks`, `AddVectors`, `IndexES` |
| an exception that is not the database's | `StepFails`, then `FinishFailed` |
| `process` 105-115, `_execute_job` 78-79, the commit | `FinishReady` |
| `delete`, step by step, then `get_db`'s commit | `DeleteCheck` ... `DeleteCommit` |
| the two retry handlers: the check, then the write | `RetryCheck`, `RetryCommit` |
| a database error, `stop()`, a crash | `WorkerAborts`, `DeleteAborts`, `Crash` |

An *attempt* is a job with the retry count it ran with. Each run of
`save_chunks` creates rows with new ids, so the attempt identifies the rows,
vectors and index entries it produced; their number and content do not matter
to any property. `Textless` is the set of documents whose file is a text file
without text: such an attempt produces nothing.

What is abstracted: an index entry of an attempt is there or not (a bulk request
that fails in part counts as either); `created_at` orders jobs as their ids do;
backoff delays are "later". The embedding service may answer with fewer vectors
than texts: then `AddVectors` inserts some of the attempt's vectors, or none, without
an error, as `embeddings` defaults to `[]` and `zip` stops early
(`engine/vector_store.py:71`, `:165`); `short` is the history of those attempts. With the FastAPI versions of `pyproject.toml`'s lower bound the commit
of `get_db` precedes the response; newer versions may send the response first,
and `response` should then be read as "committed".

### JobQueue

A job is absent, waiting, leased, done, dead or lost. `DocumentIngestion`
implements it under the mapping `QueueState`, `QueueHolder`, `retry_count`: the
lease is the time a worker holds the job, whether the lock or the status
RUNNING protects it. "Lost" is honest: it is what the code does with a job whose
transaction died after `process` committed RUNNING. The refinement is checked in the
`ingestion` run and proved in `DocumentIngestionProofs`.

### Upload

One file (one hash) and one group, since nothing else competes in it.
A chunk row says how often its index occurs: rows with the same index are alike,
and MinIO keeps one object for each index. Nothing validates `chunk_index`
(`service.py:79-107`, `router.py:212-225`), so `Indexes`, what clients send, holds
the file's chunks and any other numbers.

| code (`document/`) | action |
|---|---|
| `direct_upload`: `_find_existing`, then the insert and commit | `DirectCheck`, `DirectCommit` |
| `init_upload` with no reusable session | `InitUpload` |
| `upload_chunk`: the read, `storage.upload`, the insert and commit | `ChunkRead`, `ChunkStore`, `ChunkCommit` |
| `complete_upload` 119-139, up to the count | `CompleteLock` |
| `compose`, `_find_existing`, the early return, the commit | `CompleteCompose`, `CompleteCheck`, `CompleteDuplicate`, `CompleteCommit` |
| `cleanup_expired_uploads`: the select, per session the two DELETEs, the objects, the commit in `main.py` | `CleanSelect`, `CleanRows`, `CleanSession`, `CleanObjects`, `CleanCommit` |
| a chunk committed between the two DELETEs breaks the foreign key | `CleanBlocked` |
| an exception, a client that leaves, shutdown | `RequestFails`, `CleanAborts` |

The status COMPLETING never occurs in a committed row: it is flushed by the
query of the chunk rows (autoflush) and overwritten before the commit, so all it
does is lock the session's row. That lock is what makes completions of one
session serial. A request that fails its first check changes nothing and is not
an action.

### Account

The requests of one user's account, in any number. A token is *active* when it is
neither revoked nor expired, as `find_active_token` and `revoke_active_tokens`
define it; hashing, secrets and the access token (a JWT that nobody revokes)
are left out.

| code | action |
|---|---|
| `login`: `find_user_by_login_id` with FOR UPDATE and the checks | `LoginLock` |
| `revoke_active_tokens`; `issue_token` and the commit | `LoginSweep`, `LoginCommit` |
| `refresh`: `find_active_token`; the user's status | `RefreshFind`, `RefreshCheck`, `RefreshDisabled` |
| `revoke_token_by_id`, its two results | `RefreshRevoke`, `RefreshReplay` |
| `issue_token`, the commit | `RefreshIssue`, `RefreshCommit` |
| `logout`, `update_user_status` | `Logout`, `SetStatus` |
| `change_password`, `reset_password`: the read, the write | `ChangeRead`, `ChangeCommit`, `ResetRead`, `ResetCommit` |
| `register`, `create_user` | `Init` |

Three locks matter. A login holds the user's row (FOR UPDATE). A refresh holds the
row of the token it has revoked, and its insert takes a key-share lock on the
user's row to check the foreign key: that one conflicts with a login's lock, not
with an ordinary update of the user. So a login and a refresh can wait for each
other (`Deadlock`), but a refresh never issues a token between a login's sweep
and its commit. The ORM writes only the columns whose value has changed since
it read them, which is what `ChangeCommit` and `ResetCommit` do with
`must_change_password`.

`parent` and `lapsed` are history variables: which token a token was exchanged
for, and which tokens expired while a refresh was using them. So are `overtaken` and
`escaped`: resets since whose read a change of the password has committed, and
whether the present password was set by one of them.

### GroupMembership

An invitation and a join request are both a *ticket*. The handlers take no locks of
their own: they read, decide, and write by id, so each is at least two actions.
What locks there are come from UPDATEs and DELETEs that are not yet committed:
`TicketLocked`, `GroupLocked`, `MemberLocked`, `DocLocked`.

| code (`group/`) | action |
|---|---|
| `create_invitation`, `submit_request`: membership, pending row, insert | `Ask`, `AskPending`, `AskCommit` |
| `respond_invitation`, `cancel_invitation`, `process_request`: the read | `Decide` |
| an acceptance: the UPDATE flushed by the query for a membership; insert and commit | `AcceptFlush`, `AcceptCommit` |
| any other decision | `CloseCommit` |
| `leave_group`, `remove_member`, `admin_remove_member` | `Remove` |
| `admin_ban_group`, `admin_unban_group` | `Admin`, `SetStatus` |
| `admin_dissolve_group`: the group, its documents, memberships | `Admin`, `DissolveMark`, `DissolveDocs`, `DissolveMembers` |
| its DELETE of the invitations, then that of the join requests: the rows each finds when it starts, the rows it has deleted after waiting for those others hold; the commit | `DissolveSeek`, `DissolveTickets`, `DissolveCommit` |
| `require_group_access` (two queries), then the document's commit | `Upload`, `UploadMember`, `UploadCommit` |
| an exception | `RequestFails` |

History variables say what overlaps: `late` and `twins` (a ticket that was not there
when another was checked), `decisions`, `known` (what has been there since a
dissolution marked the group).

### ModelSettings

`activate_model` is one UPDATE over all rows of the type and one by id. The first
works on the rows that are committed when it begins, locks them one after the
other and skips those that are gone (`ActivateSweep`, `ActivateRow`); the second
must match a row (`ActivateCommit`). `delete_model` is `DeleteRead`, `DeleteCommit`,
`add_model` is `Add`, and `get_active_model` with the resolver's fallback is `Config`.
`late` and `missed` are history: configurations that an UPDATE cannot have seen.

### Questions, AnswerParser, HybridRetrieval

One round. `Plan` chooses the number of queries; each query asks two channels,
whose answers arrive in any order (`VectorHits`, `KeywordHits`); `Rank` orders the
candidates, in any way that scores could; `Fetch` builds the evidence from the rows
that are left. The rest is either `ask` (`AskReply`, `AskJudge`) or `ask_stream`
(`StreamStart`, one `StreamPiece` for each piece of the model's reply, `StreamEnd`), and
`_persist_session` in a transaction of its own (`PersistFind`, `PersistCommit`,
`PersistFails`). `AnswerParser` is `StreamingAnswerParser` call by call and
`_parse_delimited_response`, with the white space that `ask` strips from the reply and
from the answer and the stream does not (`Strip`, `Extract`), and with the old JSON
format as a table of texts and their answers (`OldFormat`); `AnswerIn` is the reference definition that the streamed
tokens are compared with. `HybridRetrieval` is clustering, `_build_document` and
`_assess_evidence`. Symbols of a reply are members of a small set, and markers are
sequences of several of them that begin alike, so that a marker arrives in parts
next to text that looks like one.

### Chunking

A document is a sequence of lines with kinds and lengths. `Sections`, `Segments`,
`MergeShort`, `Pieces`, `Greedy` and `Ranges` follow the functions of the same purpose;
`NothingIsLost` is the reference they are compared with.

### Assistant

One session. `thread` is the latest checkpoint of the session in `MemorySaver`: the
run that wrote it, whether it is between steps, waits for tools, or is broken, the
calls without an answer and those that ask. Everything else belongs to a request.

| code (`assistant/`) | action |
|---|---|
| the page sends a message, or answers a card (`ChatRequest.resume`) | `SendMessage`, `Answer` |
| `get_or_create_context`, `maintain_before_response` | `ContextFound`, `ContextMissing`, `ContextFlush` |
| the facade's `astream_events` of a message, or of `Command(resume=...)` | `AgentMessage`, `AgentResume` |
| the graph: the model calls tools, ends; a step is done, or interrupted | `ModelCalls`, `ModelEnds`, `StepDone`, `StepInterrupted` |
| a write tool: the look at its target, `interrupt()`, the decision, update and audit row | `WriteRefused`, `WriteChecked`, `WriteAsks`, `WriteCancelled`, `WriteCommit`, `WriteAnswered` |
| `knowledge_base_search` | `SearchBegins`, `SearchDone`, `SearchEmpty` |
| a tool raises | `ToolRaises` |
| `_detect_interrupt` and the card; the reply stored and the commit | `SendCard`, `StoreReply` |
| an exception, a client that leaves, a restart | `RequestFails`, `ClientLeaves`, `Restart` |
| `delete_session`; a dissolution or deletion on another page | `DeleteSession`, `DeleteElsewhere` |

An interrupted tool runs again from its beginning when its card is answered; the
calls of the step that have been answered do not. The first row of
`assistant_session_contexts` is inserted by the stream's own transaction, which
lasts as long as the stream: `holder`.

`crossed` is a history variable: two requests of the session have overlapped, or the
process has restarted. `AnswersItsCard`, `ExecutedOnce` and their theorems are about the
time before that; section 6 says what happens after.

## 3. Runs

`CHECK_DEADLOCK FALSE` everywhere: the system may stop when a bound is used up
and nothing is in progress.

| run | instance | what it shows |
|---|---|---|
| `ingestion` | 1 document, 2 jobs, 2 retries, 2 workers, 2 deletes, 1 retry request, 1 fault | leases are exclusive, a READY document keeps its rows, and its vectors but for short answers, RUNNING is always someone's, no upload is lost, a live document stays stored, nothing deleted is cited, jobs only move forward; refinement of `JobQueue` |
| `ingestion_liveness` | 2 documents, one without text, 2 jobs, 2 retries, 1 worker, 1 delete, 1 retry request | every job ends, every live document settles; what stays behind is bounded, one generation of rows |
| `stranded_by_crash` | 1 document, 1 job, 1 fault | violated: section 6 |
| `upload` | 2 requests, 1 session of 2 chunks, three indexes, one of them stored up to twice, 1 interrupted cleanup | what is missing is made up for by surplus rows; duplicates are never more than the concurrent requests; completions are serial and find their objects; a removed session stays removed; an expired one is removed or completed in the end |
| `account` | 2 requests, 3 tokens | one session at a time, no token exchanged twice, a disabled user gets no token by logging in, a reset password must be changed unless a change overtook the reset, every request ends |
| `replayed_token` | the same | violated: section 6 |
| `groups` | 2 requests, the owner and a user, 2 tickets, 2 documents | two PENDING tickets, and a ticket decided twice, need requests that overlap; the owner stays; a dissolution takes all that was there when it began |
| `models` | 3 requests, 3 configurations | at most one is active, but for one added while an UPDATE waits; the one in use is lost only by deletion |
| `questions` | 3 chunks of 2 documents, 1 or 2 queries, replies of up to 6 symbols of 3 (one is white space), in pieces of 1 or 2, two replies in the old format | the stream shows the answer, which is the one the other endpoint reads but for white space around it; the record says what was shown; nothing without evidence; evidence names a passage it contains |
| `lost_tail` | documents of up to 6 lines | violated: section 6 |
| `assistant` | 3 requests one after the other or 2 that overlap or a restart separates, 2 writes, 2 searches, 2 model steps | nothing unconfirmed is written, the card's targets are the write's, nothing is written twice, every request ends |
| `unconfirmed_write` | the same, no restart | violated: section 6 |

Bounds. Ingestion: a second job of the same document arises from one retry request,
or from a retry while the first job waits for its backoff; two jobs are what it
takes for two workers, or a worker and a leftover, to meet on one document.
Documents only share the workers, so one document shows every interaction of
delete, retry and attempt; the liveness run has two because there they compete
for the worker. One fault is enough to strand a job, tear a delete or lose a
request; a second one repeats it on another job.

Uploads: two requests are enough for every pair of handlers to overlap, and
`RequestFails` lets each slot be used again and again. Two chunks, one of which is sent
twice, and one index outside the file are the smallest case where a repetition and a
foreign index can stand in for a missing chunk, each alone and both together. `MaxRows`
bounds how often the indexes of `Resent` are stored, every other one is stored once, `DocIds` how many documents are live at once:
`DuplicatesBounded` shows that two ids suffice for two requests.

Accounts: two requests cover every pair of login, refresh, change and reset, logout
and status changes come on top as single steps; with three tokens a refreshed
session can be replaced. A request that will issue a token starts only while
there is one left for it. Two requests are also what it takes for a change of the
password to overtake a reset. For all larger instances of the three there are the
theorems of section 4.

Groups: the hazards are pairs of handlers, and two tickets of one user are what a
pair can create; the theorems of section 4 are about any number. Models: two
activations that wait for each other and a third request that deletes, or the
reverse. Questions: the markers have two symbols each and begin alike, so six
symbols hold a complete answer of two, with white space on either side of it or with
nothing else, and a false beginning of a marker, cut anywhere;
three chunks give clusters of one, two and three hits, with ids that run on from one
document into the other. Assistant: a message, a card, its answer, and a
message in between or after; two overlapping requests are enough to set `crossed`
and still show that nothing is written unconfirmed.

Fairness. Ingestion: weak fairness of each worker, of each delete that has begun,
of each backoff, and of PostgreSQL's deadlock detector. The poll loop runs for
ever and catches every exception, a handler runs to its end, time passes.
Uploads: weak fairness of each request that has begun and of the hourly task,
and strong fairness of the DELETE that waits for a session's row. Accounts:
strong fairness of each request in progress, weak fairness of the detector.
Strong fairness stands for PostgreSQL's lock queues, which are served in order:
a transaction that waits is not overtaken for ever. Assistant: weak fairness of
what each request does once it has been sent (`Progress`): asyncio runs every task,
the model and the stores answer or raise, and a request that waits for the memory
row waits for one transaction at a time. No request is obliged to arrive, and no
fault to happen.

## 4. What is proved

### DocumentIngestion

`DocumentIngestionProofs`, for every number of documents, jobs, retries,
workers, requests and faults (assumption: `ConstantsAssumption`, that is at
least one retry, natural bounds and finitely many workers).

The inductive invariant is `TypeOK` with `LeaseInvariant`. Mutual exclusion alone
is not inductive: the end of one lease changes the row's status and retry count,
which only leaves other workers alone because no other holds that job
(`JobHeldOnce`), and the retry count stays in range only while a job that can
run has a retry left (`RetriesLeft`). `StoresMatchJobs` says whose rows an open
transaction drops and adds; the theorem about READY documents needs it.

| theorem | property | argument |
|---|---|---|
| `TypeCorrect` | `TypeOK` | the invariant |
| `LeasesAreExclusive` | `LeaseInvariant` | the invariant: a claim needs a job nobody holds |
| `JobsOnlyMoveForward` | `JobsMoveForward` | one step from the invariant |
| `UploadsStayQueued` | `UploadedIsQueued` | inductive with the invariant: a PENDING job ends only with its document PROCESSING or deleted |
| `DeletedStaysHidden` | `DeletedNeverCited` | a reported document is deleted for good, and the join filters it |
| `LiveStaysStored` | `LiveIsStored` | damage is kept (`DamageIsKept`), only a delete removes the object |
| `ReadyStaysSearchable` | `ReadyIsSearchable` | `AttemptInPlace`: a running attempt has its rows in its transaction and its vectors in the store, or was answered short, unless a delete has damaged the document |
| `RunningStaysHeld` | `RunningIsHeld` | inductive with the invariant: what releases a job writes its status, and what ends an attempt its document's |
| `OneGenerationOnly` | `OneGeneration` | `DropsBeforeAdding`: the only worker's open transaction has dropped every row of the document before it adds any |
| `LeftoversStayBounded` | `LeftoversBounded` | `LeftByWorkers` while the delete is open, then `Charged`: an injection from the leftovers to workers that will write nothing more for the document |

And the refinement:

| theorem | property | argument |
|---|---|---|
| `WorkerImplementsQueue` | `ImplementsQueue` | step by step: an inserted row is `Submit`, a claim `Lease`, the end of an attempt `Succeed` or `Fail`, a rollback or a crash `Interrupt` of the workers it hits, or a stutter if none holds a job; PROCESSING and RUNNING are committed inside the lease |

The mapping needs the invariant twice: a job has one holder only because leases are
exclusive (`Holders`), and the last failure is the one that reaches `MaxRetries` only
because a job that can run has a retry left.

### Upload

`UploadProofs`, for every number of requests, sessions, owners, chunks and
documents, under `UploadAssumption` (at least one chunk, finitely many requests
and document ids). The inductive invariant is `TypeOK` with `SessionInvariant`:
that completions are serial (`CompletesAreSerial`) is only kept because the lock
covers every step of a completion, and a completion is safe from the cleanup
(`CompletingIsSafe`) because a session it has locked is neither deleted nor about
to be; a row keeps its object (`RowsHaveObjects`) except for sessions whose
cleanup has deleted objects and not committed.

| theorem | property | argument |
|---|---|---|
| `TypeCorrect` | `TypeOK` | the invariant |
| `SessionsAreConsistent` | `SessionInvariant` | the invariant |
| `ComposeIsSafe` | `ComposeFindsChunks` | the rows a completion has read are still there, and rows have objects |
| `GoneStaysGone` | `GoneForGood` | no request that holds or inserts into a session can start on one that is gone |
| `MissingStaysBounded` | `MissingIsBounded` | what is composed has at least as many rows as the file has chunks (`BodiesAreCounted`); the rows that are not the first of a chunk are at least as many as the chunks without a row (`CountedIsBalanced`) |
| `DuplicatesStayBounded` | `DuplicatesBounded` | each creation turns a request in `Creating` into a document; a check needs `live = {}` |

### Account

`AccountProofs`, for every number of requests and tokens (`AccountAssumption`:
`NoToken` is not a token). `AccountInvariant` is inductive: it says what each
request knows while it holds a row lock. One session alone is not inductive:
a login leaves one token only if its sweep is still complete when it commits
(`SweepIsComplete`, which needs `UserLockHolds`), a refresh only if its token is
still the active one (`RotationHolds`).

| theorem | property | argument |
|---|---|---|
| `TypeCorrect` | type correctness | the invariant |
| `LocksHold` | `AccountInvariant` | the invariant |
| `SessionIsUnique` | `OneSession` | inductive with the invariant |
| `ExchangeIsUnique` | `ExchangedOnce` | an exchanged token is revoked (`ParentsAreRevoked`), a refresh needs an active one |
| `ResetsOblige` | `ResetObliges` | only a change takes the flag back, and it overtakes every reset in progress (`ResetsKnowTheFlag`) |
| `DisabledStayOut` | `DisabledCannotLogIn` | the status cannot change under a login's lock |

### GroupMembership

`GroupMembershipProofs`, for every number of requests, users, tickets and documents,
under `GroupAssumption` (requests and tickets are finitely many). `IInv` is inductive:
each request fits what it is about (`RequestsFit`); a request that has found nothing
PENDING knows, in `late`, every ticket that has come since (`AskedSeeAll`); a ticket
that is PENDING or absent has not been decided (`OpenIsUndecided`); one dissolution
at a time is past its first UPDATE (`OneDissolves`), and what was there then is
still there or in its hands (`DissolvingKnows`).

| theorem | property | argument |
|---|---|---|
| `TypeCorrect` | type correctness | the invariant |
| `PendingNeedsOverlap` | `PendingOverlapped` | a ticket inserted past a check is either seen by it or in `late` |
| `DecisionsStayBounded` | `DecisionsBounded` | a decision turns one of the deciders into a decision; a decider starts only from an undecided ticket |
| `OwnerIsNeverRemoved` | `OwnerStays` | only a dissolution takes the owner's row |
| `DissolutionIsComplete` | `DissolveIsComplete` | one step from the invariant: from each DELETE on, what was there is in the hands of the dissolution (`DissolvingKnows`, and `DissolvingClears` for the tickets, kind by kind) |

### ModelSettings

`ModelSettingsProofs`, for every number of requests and configurations. The
inductive invariant is `SettingsInvariant`, in named parts, with `AtMostOneActive`:
that one configuration is active needs each UPDATE to cover every row but those
added since it began (`SweepsCover`), and the rows it has visited to stay its own
until it commits (`LocksExclude`, `LockedAreStored`).

| theorem | property | argument |
|---|---|---|
| `SweepsAreComplete` | `SettingsInvariant` | the invariant |
| `OneIsActive` | `AtMostOneActive` | the invariant |
| `DefaultsOnlyByDeletion` | `ConfigStays` | one step from the invariant |

### Assistant

`AssistantProofs`, for every number of requests, writes, searches, model steps and
restarts, under `AssistantAssumption` (finitely many searches, disjoint from the
writes). `IInv` is inductive and holds whatever overlaps: a request that has not
reached the agent has left no checkpoint (`EarlyHaveNotRun`), calls belong to a
request (`CallsHaveRuns`), so a decision is never for what the deciding request's own
model has called (`DecidedIsEarlier`).

`OrderInv` adds what holds until requests overlap or the process restarts: there is
one open card at most and none while an agent runs (`OpenFits`, `WorkFits`), an answer
on its way finds what its card shows (`AnswerFits`), a decision is for that and for
calls of a request that has ended (`DecidedFits`), and a call that has been executed
does not come before its execution again (`CallsFit`). The last is what makes "at most
once" inductive: a thread that waits has executed nothing of the step it waits in.

| theorem | property | argument |
|---|---|---|
| `TypeCorrect` | type correctness | `IInv` |
| `NothingUnconfirmed` | `WritesAreConfirmed` | `IInv` |
| `OnlyWhatTheCardShows` | `AnswersItsCard` | `OrderInv`: `DecidedFits` at the commit |
| `NothingTwice` | `ExecutedOnce` | `OrderInv`: `CallsFit` at the commit |
| `SearchesStayBounded` | | a request completes no more searches than one step has calls: while a search is under way, those completed are calls of its step (`SearchInv`). Once in a turn, as the documents have it, is false: section 6 |

### Questions

`QuestionsProofs`, for any markers over any symbols, any reply, any pieces, any number
of queries and any finite set of chunks (`ParserAssumption`, `ChunksAssumption`,
`BoundsAssumption`: the markers are not empty and have no white space, the chunks are
finitely many numbers). `IInv`
is inductive. Its heart is `InStep`: while a reply is streamed, the parser stands to
the text received and the tokens shown in one of three ways (`Relates`). It is
`Searching`, and keeps the end of the text that may be the beginning of a marker;
`Answering`, and tokens and buffer together are what follows the marker; or `Ended`,
and the tokens are the answer. `StreamIsAnswer` alone is not inductive: nothing in it says
what the buffer holds. The rest says what there is of a reply in each phase
(`NothingReceived`, `AnswerIsShown`, `StoredAtTheEnd`, `NotStreamed`).

| theorem | property | argument |
|---|---|---|
| `TypeCorrect` | type correctness | `IInv`; the evidence from `DocumentsAttributed` |
| `StreamShowsTheAnswer` | `StreamIsAnswer` | `PushRelates` for a piece, `ShownIsAnswer` for the end |
| `EndpointsAgree` | `ReadAlike` | `EnclosedIsRead`: both parsers cut an enclosed answer out at the same places, since stripping a text takes nothing that begins or ends a marker (`StripKeepsAnswer`) |
| `RecordIsTrue` | `StoredIsShown` | `AnswerIsShown` when the record is written |
| `NoEvidenceNoAnswer` | `NothingWithoutEvidence` | `IInv` |
| `EvidenceIsCitable` | `EvidenceIsAttributed` | `DocumentsAttributed` |

### The operators

`OperatorProofs` proves what the pure operators compute, for every input. They fold
over sequences, and induction over data is not available to the provers as a theorem
with an operator parameter, so it is done by least counterexamples: among finite sets
there is a smallest one (`SmallestSet`, from the library's `WFMin` over strict
inclusion), so among numbers a least one (`LeastNumber`). From these it follows that the
recursive function behind `FoldLeft` exists and is unique (`FoldExists`,
`FoldUnique`, `LeftFoldExists`), and that a fold goes through the prefixes of its
sequence one after the other (`FoldOfPrefixes`). What is to be shown of a fold is then
shown of a prefix and its next element (`LeftFoldInduction`, `PrefixInduction`).

| theorem | what it says |
|---|---|
| `PushRelates` | one call of `push` keeps the parser in step with any text: `find` in the buffer finds what `find` in the whole text finds, because the tail that was kept is long enough for every beginning of a marker |
| `DocumentsAttributed` | the documents built from any ranked hits and any rows are well-typed, and each has its entry among its passages |
| `ChunksAreChained` | the first chunk of a section begins with it, every other one `Overlap` characters before the end of the one before it, or at the beginning; none is longer than `MaxLen` unless a single piece is |
| `LossIsBounded` | what a section's chunks leave out is at most `Overlap` for each chunk but the first and the newlines between segments; at least the former if every chunk but the last ends beyond the first `Overlap` characters |
| `OneChunkIsWhole` | a section of one chunk loses no more than newlines |
| `OverlapsLoseTheTail` | the finding `lost_tail` for every such section: it loses text as soon as its overlaps come to as many characters as it has segments |

The last four are about any section that is not empty, under `ChunkSizes` (`MaxLen` and
`Overlap` are natural numbers). The argument follows the text through the four
functions: segments are the section but for the newlines between them
(`SegmentsKeepAll`), merging gives some of these back (`MergeKeepsAll`), cutting keeps
the size (`PiecesKeepAll`), and `Consistent` is what `_greedy_merge` keeps true piece by
piece: the characters taken are those the chunks reach, plus `Overlap` for each chunk but
the first (`Reach`). That sum is the finding: the code accounts for the overlap in the
start of a chunk and not in its length.

### Only model-checked

Liveness under fairness is out of the prover's reach: `JobsEnd`, `DocumentsSettle`,
`ExpiredIsCleaned` and the two `RequestsEnd` are checked by TLC on the instances of
section 3. Every other property of a passing run has a theorem. The four runs that
expect a violation show what the documents promise and the code does not do.

## 5. Plan

Done: ingestion with its queue, uploads, accounts, groups, model configuration,
questions with their parser and evidence, the chunker, the assistant's requests, and a
theorem for every safety property the runs check. What is left, in this order:

1. Proofs: abstract specifications of the streamed answer and of the user's session, and
   their refinement by `Questions` and `Account`; that the sections of a document hold
   all of it, which with `LossIsBounded` bounds what a whole document loses.
2. The rest of the assistant: lazy archiving against deletion, the endpoint that
   does not stream, the page's list of cards.
3. The frontend's refresh (two tabs, one cookie) over `Account`.
4. The query plan's fallbacks and rank fusion as operators.

## 6. Findings

* `stranded_by_crash`: PROCESSING and RUNNING are committed before the work
  (`pipeline.py:51`). A crash, a cancelled task at shutdown, or a database error
  (which aborts the transaction, so that the FAILED update fails as well) leaves
  both for ever: `start` and the poll query look at PENDING jobs only and the retry
  endpoints demand FAILED.
* `replayed_token`: `refresh` answers a replay with `revoke_active_tokens` and an
  exception, and the exception rolls the revocation back. (A replay that is not
  concurrent is not even noticed: `find_active_token` does not find the token.)
* `lost_tail`: `_greedy_merge` starts the next chunk an overlap before the end of the
  last, and counts its length from zero. Each chunk of a section so ends an overlap
  too early, and the end of the section is in no chunk.
* `unconfirmed_write`: interrupts of one model step become one card with the first
  one's action and all targets. A step that calls `ban_group` and `delete_document`
  shows a ban; confirming it deletes the document. (`AnswersItsCard` holds: the
  targets are on the card.)

Observed while modelling, and left without a run of their own.

Ingestion and uploads. `delete` does not look at the jobs of the document and
`process` does not look at `deleted` again, so an attempt in flight commits chunk
rows and vectors after the delete reported success (`document/service.py:302`,
where `需求文档.md:65` wants the vectors deleted with the document); `DeletedNeverCited` still holds, since the join
hides them. `upload_chunk` inserts a row for every request and `complete_upload`
counts rows (`document/service.py:138`): a chunk sent again after a lost answer
counts twice, and the session is complete with another chunk missing. `chunk_index`
is not validated (`document/service.py:79`): a row with an index the file does not
have counts as well, and its object is composed into the document. A document is READY
with too few vectors, or none, after a short answer of the embedding service
(`engine/vector_store.py:71`, `:165`); if a batch before the last one is short, `zip` gives
the texts after it the vectors of others (line 162 joins the batches). The
Elasticsearch client swallows its errors (`es_service.py:184`), so the warning `delete`
could give never mentions the index. Text parsers return a document for an empty
file, so "No text extracted" is never raised and the document is READY without a
chunk. `init_upload` reports an instant upload from a completed session whose
document may have been deleted; `uploadedChunks` is `range(count)` whatever the
indexes are; a chunk that has read INIT puts a completed session back to
UPLOADING, and the cleanup then deletes it.

Accounts. `change_password` and `reset_password` read the user without a lock
(`user/service.py:29`, `:91`): overlapping, they can leave the default password
with `must_change_password` false. A replay that is not concurrent is not noticed:
`find_active_token` does not find the token. A logout that overlaps a refresh leaves
the successor active.

Groups. Two decisions that overlap are both committed: the later one stays, and an
invitation that has been cancelled can have made a member. A ban or unban that has
read the group before a dissolution, the assistant's `ban_group` included, brings
it back without members. A dissolved group keeps what requests in flight add: a
document, a member, and a ticket that is committed after the DELETE of its kind has
started (`group/router.py:265-266`). `list_my_groups` returns no invitations to a user
without a membership, and `list_my_invitations` has no route (`需求文档.md:51`).
`GroupManagementService.delete_group` and `update_group` are reached by no route.

Questions. Neighbours are fetched by chunk id, and ids run on from one document to
the next: evidence can mix two documents (`retrieval.py:179-189`). The level counts
the flags of candidates whose rows are gone (`retrieval.py:222`). `ask` calls the
model without evidence and discards its answer (`需求文档.md:77` says it is not
called). What NONE means is stated differently: `设计文档.md:107` and `需求文档.md:76` want a
similarity under 0.65 and no hit in both channels, `设计文档.md:183` counts a strong hit in
either one, partly to be built; `_assess_evidence` returns NONE for any similarity under
0.65, whatever the keyword channel found (`retrieval.py:223`). `ask` strips the reply and
the answer (`qa/service.py:97`, `:411`), the stream does not: with a newline after the
marker the two show and store different texts. A reply without an END marker is an answer
when streamed and its whole text, tags included, otherwise; so are, in `ask`, an empty
answer and one of white space only, which the stream shows as it is.

Assistant. Once requests of a session overlap, or the process restarts, an old card's
confirmation is given to whatever waits by then: the exemption `crossed` of
`AnswersItsCard` and `ExecutedOnce`. A message sent instead of an answer leaves the
thread unusable until the restart (`facade.py:107`), with empty replies. A resumed run
that is interrupted again shows no card and stores an empty reply. The first context
row of a session is not committed for the length of its first stream; a second
stream waits for it, and fails. `load_context` takes the oldest 20 messages
(`memory/manager.py:121`). The streams do not check the session's status. `knowledge_base_search` looks at
`has_completed_search` before its await and sets it after (`tools.py:56`, `:82`), so all
searches that the model calls in one step are carried out: `tools.py:60` tells the model
that a turn has one, `需求文档.md:87` demands it (每轮限 1 次), and
`assistant/service.py:362` says once in a conversation. Whether
`get_db` commits before or after a stream depends on the version of FastAPI
(`assistant/router.py:185`).

Models. A configuration that is added while another's activation waits for a row can
be active together with it: `get_active_model` then raises for every caller.

## 7. Not modelled

Document lists, details, previews, downloads, metrics, system status and the
views of the frontend (but for the assistant's card) read and display. The audit log
is one insert in the caller's transaction. Elasticsearch mappings, scores, embedding
formats, prompts, how the JSON of old models is read and the HTTP of the model services are
data the properties do not tell apart; the query plan is any number of queries.
Titles, archiving, the assistant's endpoint that does not stream and its tools that
only read are not modelled yet. Registration and the creation of users, groups and
sessions are initial states. Configuration and table creation run once, before any of
the above.
