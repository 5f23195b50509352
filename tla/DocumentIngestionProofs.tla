---------------------- MODULE DocumentIngestionProofs ----------------------
(***************************************************************************)
(* Theorems about DocumentIngestion, for any number of documents, jobs,    *)
(* retries, workers, requests and faults.                                  *)
(***************************************************************************)
EXTENDS DocumentIngestion, FiniteSetTheorems, TLAPS

\* The invariant that every theorem below rests on.
IInv == TypeOK /\ LeaseInvariant

\* The initial state satisfies the invariant.
LEMMA InitIInv == Init => IInv
  <1> SUFFICES ASSUME Init PROVE IInv
    OBVIOUS
  <1> USE ConstantsAssumption DEF Init
  <1>1. TypeOK
    BY DEF TypeOK, DocStatuses, JobStatuses, WorkerSteps, DeleteSteps
  <1>2. JobHeldOnce /\ IdleHoldsNothing
    BY DEF JobHeldOnce, IdleHoldsNothing
  <1>3. RetriesLeft /\ JobsHaveDocuments /\ RequestsHaveDocuments
    BY DEF RetriesLeft, JobsHaveDocuments, RequestsHaveDocuments
  <1>4. StoresMatchJobs
    BY DEF StoresMatchJobs
  <1> QED BY <1>1, <1>2, <1>3, <1>4 DEF IInv, LeaseInvariant

\* A worker that is not idle holds a job that exists and is not over.
LEMMA HeldJob ==
  ASSUME IInv, NEW w \in Workers, wpc[w] # "idle"
  PROVE  /\ wjob[w] \in Jobs
         /\ jobStatus[wjob[w]] \in {"PENDING", "RUNNING"}
         /\ retryCount[wjob[w]] + 1 \in 1..MaxRetries
         /\ jobDoc[wjob[w]] \in Docs
         /\ docStatus[jobDoc[wjob[w]]] # "ABSENT"
         /\ Attempt(w) \in Attempts
         /\ Produced(w) \subseteq {Attempt(w)}
  <1> USE DEF IInv, LeaseInvariant
  <1>1. wjob[w] \in Jobs
    BY DEF TypeOK, IdleHoldsNothing
  <1>2. jobStatus[wjob[w]] \in {"PENDING", "RUNNING"}
    BY DEF JobHeldOnce
  <1>3. retryCount[wjob[w]] \in 0..MaxRetries /\ retryCount[wjob[w]] < MaxRetries
    BY <1>1, <1>2 DEF TypeOK, RetriesLeft
  <1>4. jobDoc[wjob[w]] \in Docs /\ docStatus[jobDoc[wjob[w]]] # "ABSENT"
    BY <1>1, <1>2 DEF JobsHaveDocuments
  <1>5. Attempt(w) \in Attempts
    BY <1>1, <1>3 DEF Attempt, Attempts
  <1>6. retryCount[wjob[w]] + 1 \in 1..MaxRetries
    BY <1>3, ConstantsAssumption
  <1>7. Produced(w) \subseteq {Attempt(w)}
    BY DEF Produced
  <1> QED BY <1>1, <1>2, <1>4, <1>5, <1>6, <1>7

\* A failed attempt keeps the job's row well typed.
LEMMA JobFailsType ==
  ASSUME IInv, NEW w \in Workers, wpc[w] # "idle", JobFails(wjob[w])
  PROVE  /\ jobStatus' \in [Jobs -> JobStatuses]
         /\ jobDoc' \in [Jobs -> Docs \cup {NoDoc}]
         /\ retryCount' \in [Jobs -> 0..MaxRetries]
         /\ due' \in [Jobs -> BOOLEAN]
  <1>1. retryCount[wjob[w]] + 1 \in 0..MaxRetries
    BY HeldJob, ConstantsAssumption
  <1> QED BY <1>1 DEF JobFails, IInv, TypeOK, JobStatuses

\* Every step preserves the types.
LEMMA TypeStep == IInv /\ [Next]_vars => TypeOK'
  <1> SUFFICES ASSUME IInv, [Next]_vars PROVE TypeOK'
    OBVIOUS
  <1> USE ConstantsAssumption DEF vars, docVars, jobVars, indexVars, workerVars,
        deleteVars, DocStatuses, JobStatuses, WorkerSteps, DeleteSteps
  <1>0. TypeOK
    BY DEF IInv
  <1>1. ASSUME NEW d \in Docs, Upload(d) PROVE TypeOK'
    BY <1>0, <1>1 DEF TypeOK, Upload, CreateJob
  <1>2. ASSUME NEW r \in Retriers, NEW d \in Docs, RetryCheck(r, d) PROVE TypeOK'
    BY <1>0, <1>2 DEF TypeOK, RetryCheck
  <1>3. ASSUME NEW r \in Retriers, RetryCommit(r) PROVE TypeOK'
    BY <1>0, <1>3 DEF TypeOK, RetryCommit, CreateJob
  <1>4. ASSUME NEW w \in Workers, WorkerNext(w) PROVE TypeOK'
    <2>1. CASE Claim(w)
      BY <1>0, <2>1 DEF TypeOK, Claim, Advance
    <2>2. CASE Load(w)
      BY <1>0, <2>2 DEF TypeOK, Load, Advance
    <2>3. CASE RejectDeleted(w)
      BY <1>0, <2>3, JobFailsType DEF TypeOK, RejectDeleted, Release
    <2>4. CASE MarkProcessing(w)
      BY <1>0, <2>4 DEF TypeOK, MarkProcessing, Advance
    <2>5. CASE Extract(w)
      BY <1>0, <2>5 DEF TypeOK, Extract, Advance
    <2>a. wpc[w] # "idle" => Produced(w) \subseteq Attempts
      BY HeldJob
    <2>6. CASE SaveChunks(w)
      BY <1>0, <2>6, <2>a DEF TypeOK, SaveChunks, Advance, Of
    <2>7. CASE AddVectors(w)
      BY <1>0, <2>7, <2>a DEF TypeOK, AddVectors, Advance
    <2>8. CASE IndexES(w)
      BY <1>0, <2>8, <2>a DEF TypeOK, IndexES, Advance
    <2>9. CASE StepFails(w)
      BY <1>0, <2>9 DEF TypeOK, StepFails, Advance
    <2>10. CASE FinishReady(w)
      BY <1>0, <2>10 DEF TypeOK, FinishReady, CommitAttempt, Release
    <2>11. CASE FinishFailed(w)
      BY <1>0, <2>11, JobFailsType
        DEF TypeOK, FinishFailed, CommitAttempt, Release
    <2> QED BY <1>4, <2>1, <2>2, <2>3, <2>4, <2>5, <2>6, <2>7, <2>8, <2>9,
                 <2>10, <2>11 DEF WorkerNext
  <1>5. ASSUME NEW j \in Jobs, BackoffEnds(j) PROVE TypeOK'
    BY <1>0, <1>5 DEF TypeOK, BackoffEnds
  <1>6. ASSUME NEW x \in Deleters, NEW d \in Docs, DeleteCheck(x, d) PROVE TypeOK'
    BY <1>0, <1>6 DEF TypeOK, DeleteCheck, AdvanceDelete
  <1>7. ASSUME NEW x \in Deleters, DeleteContinues(x) PROVE TypeOK'
    <2>1. CASE DeleteMark(x)
      BY <1>0, <2>1 DEF TypeOK, DeleteMark, AdvanceDelete
    <2>2. CASE DeleteRows(x)
      BY <1>0, <2>2 DEF TypeOK, DeleteRows, AdvanceDelete
    <2>3. CASE DeleteVectors(x)
      BY <1>0, <2>3 DEF TypeOK, DeleteVectors, AdvanceDelete
    <2>4. CASE DeleteES(x)
      BY <1>0, <2>4 DEF TypeOK, DeleteES, AdvanceDelete
    <2>5. CASE DeleteObject(x)
      BY <1>0, <2>5 DEF TypeOK, DeleteObject, AdvanceDelete
    <2>6. CASE DeleteCommit(x)
      BY <1>0, <2>6 DEF TypeOK, DeleteCommit, ReleaseDelete
    <2> QED BY <1>7, <2>1, <2>2, <2>3, <2>4, <2>5, <2>6 DEF DeleteContinues
  <1>8. ASSUME NEW w \in Workers, RollbackWorker(w) PROVE TypeOK'
    BY <1>0, <1>8 DEF TypeOK, RollbackWorker, Release, CountRollback
  <1>9. ASSUME NEW x \in Deleters, RollbackDelete(x), dpc[x] # "idle" PROVE TypeOK'
    BY <1>0, <1>9 DEF TypeOK, RollbackDelete, ReleaseDelete, CountRollback, IInv,
         LeaseInvariant, RequestsHaveDocuments
  <1>10. CASE Crash
    BY <1>0, <1>10 DEF TypeOK, Crash, CountRollback
  <1>11. CASE UNCHANGED vars
    BY <1>0, <1>11 DEF TypeOK
  <1> QED BY <1>1, <1>2, <1>3, <1>4, <1>5, <1>6, <1>7, <1>8, <1>9, <1>10, <1>11
           DEF Next, WorkerAborts, DeleteAborts, Deadlock

\* Every step preserves mutual exclusion, the leases and the retry budget.
LEMMA LeaseStep ==
  IInv /\ [Next]_vars => (JobHeldOnce /\ IdleHoldsNothing /\ RetriesLeft)'
  <1> DEFINE L == JobHeldOnce /\ IdleHoldsNothing /\ RetriesLeft
  <1> SUFFICES ASSUME IInv, [Next]_vars PROVE L'
    OBVIOUS
  <1> USE ConstantsAssumption DEF vars, docVars, jobVars, indexVars, workerVars,
        deleteVars, JobHeldOnce, IdleHoldsNothing, RetriesLeft, Processing
  <1>0. TypeOK /\ L
    BY DEF IInv, LeaseInvariant
  <1>1. ASSUME NEW d \in Docs, Upload(d) PROVE L'
    BY <1>0, <1>1 DEF TypeOK, Upload, CreateJob, NextJob
  <1>2. ASSUME NEW r \in Retriers, NEW d \in Docs, RetryCheck(r, d) PROVE L'
    BY <1>0, <1>2 DEF RetryCheck
  <1>3. ASSUME NEW r \in Retriers, RetryCommit(r) PROVE L'
    BY <1>0, <1>3 DEF TypeOK, RetryCommit, CreateJob, NextJob
  <1>4. ASSUME NEW w \in Workers, WorkerNext(w) PROVE L'
    <2>1. CASE Claim(w)
      BY <1>0, <2>1 DEF TypeOK, Claim, Advance, Claimable, Held, Jobs
    <2>2. CASE Load(w)
      BY <1>0, <2>2 DEF TypeOK, Load, Advance
    <2>3. CASE RejectDeleted(w)
      BY <1>0, <2>3, HeldJob DEF TypeOK, RejectDeleted, JobFails, Release
    <2>4. CASE MarkProcessing(w)
      BY <1>0, <2>4, HeldJob DEF TypeOK, MarkProcessing, Advance
    <2>5. CASE Extract(w)
      BY <1>0, <2>5 DEF TypeOK, Extract, Advance
    <2>6. CASE SaveChunks(w)
      BY <1>0, <2>6 DEF TypeOK, SaveChunks, Advance
    <2>7. CASE AddVectors(w)
      BY <1>0, <2>7 DEF TypeOK, AddVectors, Advance
    <2>8. CASE IndexES(w)
      BY <1>0, <2>8 DEF TypeOK, IndexES, Advance
    <2>9. CASE StepFails(w)
      BY <1>0, <2>9 DEF TypeOK, StepFails, Advance
    <2>10. CASE FinishReady(w)
      BY <1>0, <2>10, HeldJob DEF TypeOK, FinishReady, CommitAttempt, Release
    <2>11. CASE FinishFailed(w)
      BY <1>0, <2>11, HeldJob
        DEF TypeOK, FinishFailed, CommitAttempt, JobFails, Release
    <2> QED BY <1>4, <2>1, <2>2, <2>3, <2>4, <2>5, <2>6, <2>7, <2>8, <2>9,
                 <2>10, <2>11 DEF WorkerNext
  <1>5. ASSUME NEW j \in Jobs, BackoffEnds(j) PROVE L'
    BY <1>0, <1>5 DEF BackoffEnds
  <1>6. ASSUME NEW x \in Deleters, NEW d \in Docs, DeleteCheck(x, d) PROVE L'
    BY <1>0, <1>6 DEF DeleteCheck
  <1>7. ASSUME NEW x \in Deleters, DeleteContinues(x) PROVE L'
    BY <1>0, <1>7 DEF DeleteContinues, DeleteMark, DeleteRows, DeleteVectors,
         DeleteES, DeleteObject, DeleteCommit
  <1>8. ASSUME NEW w \in Workers, RollbackWorker(w) PROVE L'
    BY <1>0, <1>8 DEF TypeOK, RollbackWorker, Release
  <1>9. ASSUME NEW x \in Deleters, RollbackDelete(x) PROVE L'
    BY <1>0, <1>9 DEF RollbackDelete
  <1>10. CASE Crash
    BY <1>0, <1>10 DEF Crash
  <1>11. CASE UNCHANGED vars
    BY <1>0, <1>11
  <1> QED BY <1>1, <1>2, <1>3, <1>4, <1>5, <1>6, <1>7, <1>8, <1>9, <1>10, <1>11
           DEF Next, WorkerAborts, DeleteAborts, Deadlock

\* Every step preserves that jobs and requests name documents.
LEMMA DocumentsStep ==
  IInv /\ [Next]_vars => (JobsHaveDocuments /\ RequestsHaveDocuments)'
  <1> DEFINE D == JobsHaveDocuments /\ RequestsHaveDocuments
  <1> SUFFICES ASSUME IInv, [Next]_vars PROVE D'
    OBVIOUS
  <1> USE ConstantsAssumption DEF vars, docVars, jobVars, indexVars, workerVars,
        deleteVars, JobsHaveDocuments, RequestsHaveDocuments
  <1>0. TypeOK /\ D
    BY DEF IInv, LeaseInvariant
  <1>1. ASSUME NEW d \in Docs, Upload(d) PROVE D'
    BY <1>0, <1>1 DEF TypeOK, Upload, CreateJob
  <1>2. ASSUME NEW r \in Retriers, NEW d \in Docs, RetryCheck(r, d) PROVE D'
    BY <1>0, <1>2 DEF TypeOK, RetryCheck, Live
  <1>3. ASSUME NEW r \in Retriers, RetryCommit(r) PROVE D'
    BY <1>0, <1>3 DEF TypeOK, RetryCommit, CreateJob
  <1>4. ASSUME NEW w \in Workers, WorkerNext(w) PROVE D'
    <2>1. CASE Claim(w)
      BY <1>0, <2>1 DEF Claim
    <2>2. CASE Load(w)
      BY <1>0, <2>2 DEF Load
    <2>3. CASE RejectDeleted(w)
      BY <1>0, <2>3, HeldJob DEF TypeOK, RejectDeleted, JobFails
    <2>4. CASE MarkProcessing(w)
      BY <1>0, <2>4, HeldJob DEF TypeOK, MarkProcessing, Advance
    <2>5. CASE Extract(w)
      BY <1>0, <2>5 DEF Extract
    <2>6. CASE SaveChunks(w)
      BY <1>0, <2>6 DEF SaveChunks
    <2>7. CASE AddVectors(w)
      BY <1>0, <2>7 DEF AddVectors
    <2>8. CASE IndexES(w)
      BY <1>0, <2>8 DEF IndexES
    <2>9. CASE StepFails(w)
      BY <1>0, <2>9 DEF StepFails
    <2>10. CASE FinishReady(w)
      BY <1>0, <2>10, HeldJob DEF TypeOK, FinishReady, CommitAttempt
    <2>11. CASE FinishFailed(w)
      BY <1>0, <2>11, HeldJob DEF TypeOK, FinishFailed, CommitAttempt, JobFails
    <2> QED BY <1>4, <2>1, <2>2, <2>3, <2>4, <2>5, <2>6, <2>7, <2>8, <2>9,
                 <2>10, <2>11 DEF WorkerNext
  <1>5. ASSUME NEW j \in Jobs, BackoffEnds(j) PROVE D'
    BY <1>0, <1>5 DEF BackoffEnds
  <1>6. ASSUME NEW x \in Deleters, NEW d \in Docs, DeleteCheck(x, d) PROVE D'
    BY <1>0, <1>6 DEF TypeOK, DeleteCheck, AdvanceDelete, Live
  <1>7. ASSUME NEW x \in Deleters, DeleteContinues(x) PROVE D'
    BY <1>0, <1>7 DEF TypeOK, DeleteContinues, DeleteMark, DeleteRows,
         DeleteVectors, DeleteES, DeleteObject, DeleteCommit, AdvanceDelete,
         ReleaseDelete
  <1>8. ASSUME NEW w \in Workers, RollbackWorker(w) PROVE D'
    BY <1>0, <1>8 DEF RollbackWorker
  <1>9. ASSUME NEW x \in Deleters, RollbackDelete(x) PROVE D'
    BY <1>0, <1>9 DEF TypeOK, RollbackDelete, ReleaseDelete
  <1>10. CASE Crash
    BY <1>0, <1>10 DEF Crash
  <1>11. CASE UNCHANGED vars
    BY <1>0, <1>11
  <1> QED BY <1>1, <1>2, <1>3, <1>4, <1>5, <1>6, <1>7, <1>8, <1>9, <1>10, <1>11
           DEF Next, WorkerAborts, DeleteAborts, Deadlock

\* A job that exists keeps existing and keeps its document; the only actions
\* that change a retry count end the attempt of a worker.
LEMMA JobsStay ==
  IInv /\ [Next]_vars =>
    \A j \in Jobs : jobStatus[j] # "ABSENT" =>
      jobStatus'[j] # "ABSENT" /\ jobDoc'[j] = jobDoc[j]
  <1> SUFFICES ASSUME IInv, [Next]_vars,
                      NEW j \in Jobs, jobStatus[j] # "ABSENT"
               PROVE  jobStatus'[j] # "ABSENT" /\ jobDoc'[j] = jobDoc[j]
    OBVIOUS
  <1> USE DEF vars, docVars, jobVars, indexVars, workerVars, deleteVars
  <1>0. TypeOK
    BY DEF IInv
  <1>1. ASSUME NEW k \in Jobs, NEW d \in Docs, CreateJob(k, d)
        PROVE  jobStatus'[j] # "ABSENT" /\ jobDoc'[j] = jobDoc[j]
    BY <1>0, <1>1 DEF TypeOK, CreateJob, NextJob
  <1>2. ASSUME NEW k \in Jobs, JobFails(k)
        PROVE  jobStatus'[j] # "ABSENT" /\ jobDoc'[j] = jobDoc[j]
    BY <1>0, <1>2 DEF TypeOK, JobFails
  <1>3. ASSUME NEW d \in Docs, Upload(d)
        PROVE  jobStatus'[j] # "ABSENT" /\ jobDoc'[j] = jobDoc[j]
    BY <1>1, <1>3 DEF Upload
  <1>4. ASSUME NEW r \in Retriers, RetryCommit(r)
        PROVE  jobStatus'[j] # "ABSENT" /\ jobDoc'[j] = jobDoc[j]
    BY <1>0, <1>1, <1>4 DEF TypeOK, RetryCommit
  <1>5. ASSUME NEW w \in Workers, WorkerNext(w)
        PROVE  jobStatus'[j] # "ABSENT" /\ jobDoc'[j] = jobDoc[j]
    <2>1. CASE RejectDeleted(w) \/ FinishFailed(w)
      BY <1>2, <2>1, HeldJob DEF RejectDeleted, FinishFailed
    <2>2. CASE MarkProcessing(w) \/ FinishReady(w)
      BY <1>0, <2>2 DEF TypeOK, MarkProcessing, FinishReady
    <2>3. CASE UNCHANGED jobVars
      BY <2>3
    <2> QED BY <1>5, <2>1, <2>2, <2>3 DEF WorkerNext, Claim, Load, Extract,
                 SaveChunks, AddVectors, IndexES, StepFails
  <1>6. ASSUME NEW k \in Jobs, BackoffEnds(k)
        PROVE  jobStatus'[j] # "ABSENT" /\ jobDoc'[j] = jobDoc[j]
    BY <1>6 DEF BackoffEnds
  <1>7. CASE UNCHANGED jobVars
    BY <1>7
  <1> QED BY <1>3, <1>4, <1>5, <1>6, <1>7
           DEF Next, RetryCheck, DeleteCheck, DeleteContinues, DeleteMark,
               DeleteRows, DeleteVectors, DeleteES, DeleteObject, DeleteCommit,
               Deadlock, WorkerAborts, DeleteAborts, RollbackWorker,
               RollbackDelete, Crash

\* Every step preserves that stored attempts come from jobs that exist.
LEMMA StoresStep == IInv /\ [Next]_vars => StoresMatchJobs'
  <1> SUFFICES ASSUME IInv, [Next]_vars PROVE StoresMatchJobs'
    OBVIOUS
  <1> USE DEF vars, docVars, jobVars, indexVars, workerVars, deleteVars,
        StoresMatchJobs
  <1>0. TypeOK /\ StoresMatchJobs
    BY DEF IInv, LeaseInvariant
  <1>a. \A j \in Jobs : jobStatus[j] # "ABSENT" =>
          jobStatus'[j] # "ABSENT" /\ jobDoc'[j] = jobDoc[j]
    BY JobsStay
  <1>b. \A a \in Attempts : a[1] \in Jobs
    BY DEF Attempts
  <1>c. ASSUME NEW w \in Workers, wpc[w] # "idle"
        PROVE  /\ Attempt(w)[1] = wjob[w]
               /\ Attempt(w) \in Attempts
               /\ wjob[w] \in Jobs
               /\ jobStatus[wjob[w]] # "ABSENT"
    BY <1>c, HeldJob DEF Attempt
  \* A step that stores nothing but running attempts and, for the workers that
  \* go on, keeps what they hold.
  <1>d. ASSUME \A a \in chunkRows' \cup vectors' :
                 \/ a \in chunkRows \cup vectors
                 \/ \E w \in Workers : wpc[w] # "idle" /\ a = Attempt(w),
               \A w \in Workers :
                 \/ wDropped'[w] = {} /\ wAdded'[w] = {}
                 \/ /\ wpc[w] # "idle" /\ wpc'[w] # "idle"
                    /\ wDropped'[w] = wDropped[w] /\ wAdded'[w] = wAdded[w]
                    /\ wjob'[w] = wjob[w]
                    /\ retryCount'[wjob[w]] = retryCount[wjob[w]]
        PROVE  StoresMatchJobs'
    <2>1. \A a \in chunkRows' \cup vectors' : jobStatus'[a[1]] # "ABSENT"
      BY <1>0, <1>a, <1>b, <1>c, <1>d DEF TypeOK
    <2>2. ASSUME NEW w \in Workers, wpc[w] # "idle", wpc'[w] # "idle",
                 wDropped'[w] = wDropped[w], wAdded'[w] = wAdded[w],
                 wjob'[w] = wjob[w],
                 retryCount'[wjob[w]] = retryCount[wjob[w]]
          PROVE  /\ wAdded'[w] \subseteq {Attempt(w)'}
                 /\ \A a \in wDropped'[w] :
                      jobStatus'[a[1]] # "ABSENT" /\ jobDoc'[a[1]] = DocOf(w)'
      <3>1. Attempt(w)' = Attempt(w)
        BY <2>2 DEF Attempt
      <3>2. DocOf(w)' = DocOf(w)
        BY <1>a, <1>c, <2>2 DEF DocOf
      <3>3. \A a \in wDropped[w] : a[1] \in Jobs
        BY <1>0, <1>b DEF TypeOK
      <3> QED BY <1>0, <1>a, <2>2, <3>1, <3>2, <3>3
    <2> QED BY <1>d, <2>1, <2>2
  <1>e. ASSUME UNCHANGED <<chunkRows, workerVars, retryCount>>,
               vectors' \subseteq vectors
        PROVE  StoresMatchJobs'
    BY <1>0, <1>d, <1>e
  <1>1. ASSUME NEW d \in Docs, Upload(d) PROVE StoresMatchJobs'
    BY <1>e, <1>1 DEF Upload, CreateJob
  <1>2. ASSUME NEW r \in Retriers, NEW d \in Docs, RetryCheck(r, d)
        PROVE  StoresMatchJobs'
    BY <1>e, <1>2 DEF RetryCheck
  <1>3. ASSUME NEW r \in Retriers, RetryCommit(r) PROVE StoresMatchJobs'
    BY <1>e, <1>3 DEF RetryCommit, CreateJob
  <1>4. ASSUME NEW w \in Workers, WorkerNext(w) PROVE StoresMatchJobs'
    <2> USE DEF Advance, Release
    <2>a. ASSUME wpc[w] # "idle"
          PROVE  \A v \in Workers \ {w} : wpc[v] # "idle" => wjob[v] # wjob[w]
      BY <2>a DEF IInv, LeaseInvariant, JobHeldOnce
    <2>b. IdleHoldsNothing
      BY DEF IInv, LeaseInvariant
    <2>1. CASE Claim(w)
      BY <1>0, <1>d, <2>1 DEF TypeOK, Claim
    <2>2. CASE Load(w)
      BY <1>0, <1>d, <2>2 DEF TypeOK, Load
    <2>3. CASE RejectDeleted(w)
      <3>1. \A v \in Workers \ {w} : wpc[v] # "idle" =>
              retryCount'[wjob[v]] = retryCount[wjob[v]]
        BY <1>0, <1>c, <2>3, <2>a DEF TypeOK, RejectDeleted, JobFails
      <3> QED BY <1>0, <1>d, <2>3, <3>1 DEF TypeOK, RejectDeleted
    <2>4. CASE MarkProcessing(w)
      BY <1>0, <1>d, <2>4 DEF TypeOK, MarkProcessing
    <2>5. CASE Extract(w)
      BY <1>0, <1>d, <2>5 DEF TypeOK, Extract
    <2>6. CASE SaveChunks(w)
      <3>1. ASSUME NEW a \in Of(chunkRows, DocOf(w))
            PROVE  jobStatus'[a[1]] # "ABSENT" /\ jobDoc'[a[1]] = DocOf(w)'
        BY <1>0, <1>b, <1>c, <2>6, <3>1 DEF TypeOK, SaveChunks, Of, DocOf
      <3>2. wDropped'[w] \subseteq Of(chunkRows, DocOf(w))
        BY <1>0, <2>6 DEF TypeOK, SaveChunks
      <3>3. wAdded'[w] \subseteq {Attempt(w)'}
        BY <1>0, <2>6 DEF TypeOK, SaveChunks, Attempt, Produced
      <3>4. \A v \in Workers \ {w} :
              /\ wDropped'[v] = wDropped[v]
              /\ wAdded'[v] = wAdded[v]
              /\ wpc'[v] = wpc[v]
              /\ Attempt(v)' = Attempt(v)
              /\ DocOf(v)' = DocOf(v)
        BY <1>0, <2>6 DEF TypeOK, SaveChunks, Attempt, DocOf
      <3>5. wpc'[w] = "chunked"
        BY <1>0, <2>6 DEF TypeOK, SaveChunks
      <3>6. UNCHANGED <<chunkRows, vectors, jobStatus, jobDoc>>
        BY <2>6 DEF SaveChunks
      <3> QED BY <1>0, <3>1, <3>2, <3>3, <3>4, <3>5, <3>6
    <2>7. CASE AddVectors(w)
      BY <1>0, <1>d, <2>7, HeldJob DEF TypeOK, AddVectors
    <2>8. CASE IndexES(w)
      BY <1>0, <1>d, <2>8 DEF TypeOK, IndexES
    <2>9. CASE StepFails(w)
      BY <1>0, <1>d, <2>9 DEF TypeOK, StepFails
    <2>10. CASE FinishReady(w)
      BY <1>0, <1>d, <2>10 DEF TypeOK, FinishReady, CommitAttempt
    <2>11. CASE FinishFailed(w)
      <3>1. \A v \in Workers \ {w} : wpc[v] # "idle" =>
              retryCount'[wjob[v]] = retryCount[wjob[v]]
        BY <1>0, <1>c, <2>11, <2>a DEF TypeOK, FinishFailed, JobFails
      <3> QED BY <1>0, <1>d, <2>11, <3>1 DEF TypeOK, FinishFailed, CommitAttempt
    <2> QED BY <1>4, <2>1, <2>2, <2>3, <2>4, <2>5, <2>6, <2>7, <2>8, <2>9,
                 <2>10, <2>11 DEF WorkerNext
  <1>5. ASSUME NEW j \in Jobs, BackoffEnds(j) PROVE StoresMatchJobs'
    BY <1>e, <1>5 DEF BackoffEnds
  <1>6. ASSUME NEW x \in Deleters, NEW d \in Docs, DeleteCheck(x, d)
        PROVE  StoresMatchJobs'
    BY <1>e, <1>6 DEF DeleteCheck
  <1>7. ASSUME NEW x \in Deleters, DeleteContinues(x) PROVE StoresMatchJobs'
    <2>1. CASE DeleteMark(x) \/ DeleteRows(x) \/ DeleteES(x) \/ DeleteObject(x)
      BY <1>e, <2>1 DEF DeleteMark, DeleteRows, DeleteES, DeleteObject
    <2>2. CASE DeleteVectors(x)
      BY <1>e, <2>2 DEF DeleteVectors
    <2>3. CASE DeleteCommit(x)
      BY <1>0, <1>d, <2>3 DEF DeleteCommit
    <2> QED BY <1>7, <2>1, <2>2, <2>3 DEF DeleteContinues
  <1>8. ASSUME NEW w \in Workers, RollbackWorker(w) PROVE StoresMatchJobs'
    BY <1>0, <1>d, <1>8 DEF TypeOK, RollbackWorker, Release
  <1>9. ASSUME NEW x \in Deleters, RollbackDelete(x) PROVE StoresMatchJobs'
    BY <1>e, <1>9 DEF RollbackDelete
  <1>10. CASE Crash
    BY <1>d, <1>10 DEF Crash
  <1>11. CASE UNCHANGED vars
    BY <1>e, <1>11
  <1> QED BY <1>1, <1>2, <1>3, <1>4, <1>5, <1>6, <1>7, <1>8, <1>9, <1>10, <1>11
           DEF Next, WorkerAborts, DeleteAborts, Deadlock

-----------------------------------------------------------------------------

\* The invariant holds in every reachable state.
THEOREM Invariance == Spec => []IInv
  <1>1. IInv /\ [Next]_vars => IInv'
    BY TypeStep, LeaseStep, DocumentsStep, StoresStep DEF IInv, LeaseInvariant
  <1> QED BY InitIInv, <1>1, PTL DEF Spec

\* No sequence of requests, worker steps and faults takes a variable out of its
\* type: in particular retry_count never exceeds max_retries.
THEOREM TypeCorrect == Spec => []TypeOK
  <1>1. IInv => TypeOK
    BY DEF IInv
  <1> QED BY Invariance, <1>1, PTL

\* Any number of workers polling the table hold distinct jobs, in the status
\* they believe, with a retry left (_poll_loop, _execute_job).
THEOREM LeasesAreExclusive == Spec => []LeaseInvariant
  <1>1. IInv => LeaseInvariant
    BY DEF IInv
  <1> QED BY Invariance, <1>1, PTL

\* A job that has ended is never touched again and each failure costs one
\* retry: the action property follows from the invariant in one step.
THEOREM JobsOnlyMoveForward == Spec => JobsMoveForward
  <1> DEFINE Forward ==
        \A j \in Jobs :
          /\ jobStatus[j] \in {"SUCCEEDED", "FAILED"} =>
               jobStatus'[j] = jobStatus[j] /\ retryCount'[j] = retryCount[j]
          /\ retryCount'[j] # retryCount[j] =>
               /\ retryCount'[j] = retryCount[j] + 1
               /\ jobStatus'[j] =
                    IF retryCount'[j] = MaxRetries THEN "FAILED" ELSE "PENDING"
  <1>1. IInv /\ [Next]_vars => [Forward]_vars
    <2> SUFFICES ASSUME IInv, Next PROVE Forward
      BY DEF vars
    <2> USE ConstantsAssumption DEF docVars, jobVars, indexVars, workerVars,
          deleteVars
    <2>0. TypeOK
      BY DEF IInv
    <2>1. ASSUME NEW k \in Jobs, NEW d \in Docs, CreateJob(k, d) PROVE Forward
      BY <2>0, <2>1 DEF TypeOK, CreateJob, NextJob
    <2>2. ASSUME NEW w \in Workers, wpc[w] # "idle", JobFails(wjob[w])
          PROVE  Forward
      <3>1. /\ wjob[w] \in Jobs
            /\ jobStatus[wjob[w]] \in {"PENDING", "RUNNING"}
            /\ retryCount[wjob[w]] \in 0..MaxRetries
            /\ retryCount[wjob[w]] + 1 <= MaxRetries
        BY <2>0, <2>2, HeldJob DEF TypeOK
      <3> QED BY <2>0, <2>2, <3>1 DEF TypeOK, JobFails
    <2>3. ASSUME NEW w \in Workers, WorkerNext(w) PROVE Forward
      <3>1. CASE RejectDeleted(w) \/ FinishFailed(w)
        BY <2>2, <3>1 DEF RejectDeleted, FinishFailed
      <3>2. CASE MarkProcessing(w) \/ FinishReady(w)
        BY <2>0, <3>2, HeldJob
          DEF TypeOK, MarkProcessing, FinishReady, Advance, IInv,
              LeaseInvariant, JobHeldOnce
      <3>3. CASE UNCHANGED jobVars
        BY <3>3
      <3> QED BY <2>3, <3>1, <3>2, <3>3 DEF WorkerNext, Claim, Load, Extract,
                   SaveChunks, AddVectors, IndexES, StepFails
    <2>4. ASSUME NEW d \in Docs, Upload(d) PROVE Forward
      BY <2>1, <2>4 DEF Upload
    <2>5. ASSUME NEW r \in Retriers, RetryCommit(r) PROVE Forward
      BY <2>0, <2>1, <2>5 DEF TypeOK, RetryCommit
    <2>6. ASSUME NEW k \in Jobs, BackoffEnds(k) PROVE Forward
      BY <2>6 DEF BackoffEnds
    <2>7. CASE UNCHANGED jobVars
      BY <2>7
    <2> QED BY <2>3, <2>4, <2>5, <2>6, <2>7
             DEF Next, RetryCheck, DeleteCheck, DeleteContinues, DeleteMark,
                 DeleteRows, DeleteVectors, DeleteES, DeleteObject,
                 DeleteCommit, Deadlock, WorkerAborts, DeleteAborts,
                 RollbackWorker, RollbackDelete, Crash
  <1> QED BY Invariance, <1>1, PTL DEF Spec, JobsMoveForward

\* No upload is lost: a live UPLOADED document always has a PENDING job.
THEOREM UploadsStayQueued == Spec => []UploadedIsQueued
  <1>1. Init => UploadedIsQueued
    BY DEF Init, UploadedIsQueued, Live
  <1>2. IInv /\ UploadedIsQueued /\ [Next]_vars => UploadedIsQueued'
    <2> SUFFICES ASSUME IInv, UploadedIsQueued, [Next]_vars
                 PROVE  UploadedIsQueued'
      OBVIOUS
    <2> USE DEF vars, docVars, jobVars, indexVars, workerVars, deleteVars
    <2>0. TypeOK
      BY DEF IInv
    <2>a. \A j \in Jobs : jobStatus[j] # "ABSENT" =>
            jobStatus'[j] # "ABSENT" /\ jobDoc'[j] = jobDoc[j]
      BY JobsStay
    \* A step that makes no document UPLOADED and keeps PENDING jobs.
    <2>b. ASSUME UNCHANGED docVars,
                 \A j \in Jobs : jobStatus[j] = "PENDING" =>
                   jobStatus'[j] = "PENDING" \/ docDeleted[jobDoc[j]]
          PROVE  UploadedIsQueued'
      BY <2>a, <2>b DEF UploadedIsQueued, Live
    <2>1. ASSUME NEW d \in Docs, Upload(d) PROVE UploadedIsQueued'
      BY <2>0, <2>1 DEF TypeOK, UploadedIsQueued, Live, Upload, CreateJob, NextJob
    <2>2. ASSUME NEW r \in Retriers, RetryCommit(r) PROVE UploadedIsQueued'
      BY <2>0, <2>2
        DEF TypeOK, UploadedIsQueued, Live, RetryCommit, CreateJob, NextJob
    <2>3. ASSUME NEW w \in Workers, WorkerNext(w) PROVE UploadedIsQueued'
      <3>1. CASE RejectDeleted(w)
        BY <2>0, <2>b, <3>1, HeldJob DEF TypeOK, RejectDeleted, JobFails, DocOf
      <3>2. CASE MarkProcessing(w)
        BY <2>0, <3>2, HeldJob
          DEF TypeOK, UploadedIsQueued, Live, MarkProcessing, DocOf, Advance
      <3>3. CASE FinishReady(w)
        BY <2>0, <3>3, HeldJob
          DEF TypeOK, UploadedIsQueued, Live, FinishReady, CommitAttempt, DocOf,
              IInv, LeaseInvariant, JobHeldOnce, Processing
      <3>4. CASE FinishFailed(w)
        BY <2>0, <3>4, HeldJob
          DEF TypeOK, UploadedIsQueued, Live, FinishFailed, CommitAttempt, DocOf,
              JobFails, IInv, LeaseInvariant, JobHeldOnce, Processing
      <3>5. CASE UNCHANGED <<docVars, jobVars>>
        BY <2>b, <3>5
      <3> QED BY <2>3, <3>1, <3>2, <3>3, <3>4, <3>5 DEF WorkerNext, Claim, Load,
                   Extract, SaveChunks, AddVectors, IndexES, StepFails
    <2>4. ASSUME NEW k \in Jobs, BackoffEnds(k) PROVE UploadedIsQueued'
      BY <2>b, <2>4 DEF BackoffEnds
    <2>5. ASSUME NEW x \in Deleters, DeleteCommit(x) PROVE UploadedIsQueued'
      BY <2>0, <2>5 DEF TypeOK, UploadedIsQueued, Live, DeleteCommit
    <2>6. CASE UNCHANGED <<docVars, jobVars>>
      BY <2>b, <2>6
    <2> QED BY <2>1, <2>2, <2>3, <2>4, <2>5, <2>6
             DEF Next, RetryCheck, DeleteCheck, DeleteContinues, DeleteMark,
                 DeleteRows, DeleteVectors, DeleteES, DeleteObject, Deadlock,
                 WorkerAborts, DeleteAborts, RollbackWorker, RollbackDelete,
                 Crash
  <1> QED BY Invariance, <1>1, <1>2, PTL DEF Spec

-----------------------------------------------------------------------------

\* What the client was told is what the row says: a document reported as
\* deleted is deleted, and no action ever takes that back.
LEMMA ReportedIsDeleted ==
  Spec => [](\A d \in Docs : response[d] # "none" => docDeleted[d])
  <1> DEFINE Reported == \A d \in Docs : response[d] # "none" => docDeleted[d]
  <1>1. Init => Reported
    BY DEF Init
  <1>2. IInv /\ Reported /\ [Next]_vars => Reported'
    <2> SUFFICES ASSUME IInv, Reported, [Next]_vars PROVE Reported'
      OBVIOUS
    <2> USE DEF vars, docVars, jobVars, indexVars, workerVars, deleteVars
    <2>1. ASSUME NEW x \in Deleters, DeleteCommit(x) PROVE Reported'
      BY <2>1 DEF IInv, TypeOK, DeleteCommit
    <2>2. CASE UNCHANGED <<docDeleted, response>>
      BY <2>2
    <2> QED BY <2>1, <2>2
             DEF Next, Upload, RetryCheck, RetryCommit, WorkerNext, Claim, Load,
                 RejectDeleted, MarkProcessing, Extract, SaveChunks, AddVectors,
                 IndexES, StepFails, FinishReady, FinishFailed, CommitAttempt,
                 BackoffEnds, DeleteCheck, DeleteContinues, DeleteMark,
                 DeleteRows, DeleteVectors, DeleteES, DeleteObject, Deadlock,
                 WorkerAborts, DeleteAborts, RollbackWorker, RollbackDelete,
                 Crash
  <1> QED BY Invariance, <1>1, <1>2, PTL DEF Spec

\* No question cites a document once its deletion has been reported, whatever
\* rows and vectors the attempts in flight bring back (_fetch_chunk_rows joins
\* documents on deleted = False).
THEOREM DeletedStaysHidden == Spec => []DeletedNeverCited
  <1>1. (\A d \in Docs : response[d] # "none" => docDeleted[d])
          => DeletedNeverCited
    BY DEF DeletedNeverCited, Of, Citable
  <1> QED BY ReportedIsDeleted, <1>1, PTL

\* A document that a delete may have damaged stays one.
LEMMA DamageIsKept ==
  IInv /\ [Next]_vars => \A d \in Docs : Damaged(d) => Damaged(d)'
  <1> SUFFICES ASSUME IInv, [Next]_vars, NEW d \in Docs, Damaged(d)
               PROVE  Damaged(d)'
    OBVIOUS
  <1> USE DEF vars, docVars, jobVars, indexVars, workerVars, deleteVars, Damaged,
        BeingCleaned
  <1>0. TypeOK
    BY DEF IInv
  <1>1. ASSUME NEW x \in Deleters, DeleteContinues(x) PROVE Damaged(d)'
    <2>1. CASE DeleteMark(x)
      BY <1>0, <2>1 DEF TypeOK, DeleteMark, AdvanceDelete
    <2>2. CASE DeleteRows(x)
      BY <1>0, <2>2 DEF TypeOK, DeleteRows, AdvanceDelete
    <2>3. CASE DeleteVectors(x)
      BY <1>0, <2>3 DEF TypeOK, DeleteVectors, AdvanceDelete
    <2>4. CASE DeleteES(x)
      BY <1>0, <2>4 DEF TypeOK, DeleteES, AdvanceDelete
    <2>5. CASE DeleteObject(x)
      BY <1>0, <2>5 DEF TypeOK, DeleteObject, AdvanceDelete
    <2>6. CASE DeleteCommit(x)
      BY <1>0, <2>6 DEF TypeOK, DeleteCommit, ReleaseDelete
    <2> QED BY <1>1, <2>1, <2>2, <2>3, <2>4, <2>5, <2>6 DEF DeleteContinues
  <1>2. ASSUME NEW x \in Deleters, NEW e \in Docs, DeleteCheck(x, e)
        PROVE  Damaged(d)'
    BY <1>0, <1>2 DEF TypeOK, DeleteCheck, AdvanceDelete
  <1>3. ASSUME NEW x \in Deleters, RollbackDelete(x) PROVE Damaged(d)'
    BY <1>0, <1>3 DEF TypeOK, RollbackDelete, ReleaseDelete
  <1>4. CASE Crash
    BY <1>0, <1>4 DEF TypeOK, Crash
  <1>5. CASE UNCHANGED <<docDeleted, deleteVars>>
    BY <1>5
  <1> QED BY <1>1, <1>2, <1>3, <1>4, <1>5
           DEF Next, Upload, RetryCheck, RetryCommit, WorkerNext, Claim, Load,
               RejectDeleted, MarkProcessing, Extract, SaveChunks, AddVectors,
               IndexES, StepFails, FinishReady, FinishFailed, CommitAttempt,
               BackoffEnds, Deadlock, WorkerAborts, DeleteAborts, RollbackWorker

\* The object of a document that no delete has damaged is in the bucket.
THEOREM LiveStaysStored == Spec => []LiveIsStored
  <1>1. Init => LiveIsStored
    BY DEF Init, LiveIsStored
  <1>2. IInv /\ LiveIsStored /\ [Next]_vars => LiveIsStored'
    <2> SUFFICES ASSUME IInv, LiveIsStored, [Next]_vars,
                        NEW d \in Docs, docStatus'[d] # "ABSENT", ~Damaged(d)'
                 PROVE  d \in storage'
      BY DEF LiveIsStored
    <2> USE DEF vars, docVars, jobVars, indexVars, workerVars, deleteVars
    <2>0. TypeOK
      BY DEF IInv
    <2>a. ~Damaged(d)
      BY DamageIsKept
    <2>b. docStatus[d] # "ABSENT" => d \in storage
      BY <2>a DEF LiveIsStored
    <2>1. ASSUME NEW e \in Docs, Upload(e) PROVE d \in storage'
      BY <2>0, <2>b, <2>1 DEF TypeOK, Upload
    <2>2. ASSUME NEW r \in Retriers, RetryCommit(r) PROVE d \in storage'
      BY <2>0, <2>b, <2>2
        DEF TypeOK, RetryCommit, IInv, LeaseInvariant, RequestsHaveDocuments
    <2>3. ASSUME NEW w \in Workers,
                 MarkProcessing(w) \/ FinishReady(w) \/ FinishFailed(w)
          PROVE  d \in storage'
      BY <2>0, <2>b, <2>3, HeldJob
        DEF TypeOK, MarkProcessing, FinishReady, FinishFailed, CommitAttempt,
            Advance, DocOf
    <2>4. ASSUME NEW x \in Deleters, DeleteObject(x) PROVE d \in storage'
      BY <2>0, <2>b, <2>4
        DEF TypeOK, DeleteObject, AdvanceDelete, Damaged, BeingCleaned
    <2>5. CASE UNCHANGED <<docStatus, storage>>
      BY <2>b, <2>5
    <2> QED BY <2>1, <2>2, <2>3, <2>4, <2>5
             DEF Next, RetryCheck, WorkerNext, Claim, Load, RejectDeleted,
                 Extract, SaveChunks, AddVectors, IndexES, StepFails,
                 BackoffEnds, DeleteCheck, DeleteContinues, DeleteMark,
                 DeleteRows, DeleteVectors, DeleteES, DeleteCommit, Deadlock,
                 WorkerAborts, DeleteAborts, RollbackWorker, RollbackDelete,
                 Crash
  <1> QED BY Invariance, <1>1, <1>2, PTL DEF Spec

\* An attempt past save_chunks has its rows in its transaction, and one past
\* add_documents has its vectors in place, unless a delete has damaged them or
\* the embedding service gave too few.
AttemptInPlace ==
  \A w \in Workers :
    /\ wpc[w] \in {"chunked", "vectorised", "indexed"} =>
         wAdded[w] = Produced(w)
    /\ wpc[w] \in {"vectorised", "indexed"} /\ ~Damaged(DocOf(w)) =>
         Produced(w) \subseteq vectors \cup short

\* Vectors disappear only while a delete is cleaning their document.
LEMMA VectorsKept ==
  IInv /\ [Next]_vars =>
    \A d \in Docs : ~Damaged(d)' => Of(vectors, d) \subseteq vectors'
  <1> SUFFICES ASSUME IInv, [Next]_vars, NEW d \in Docs, ~Damaged(d)',
                      NEW a \in vectors, jobDoc[a[1]] = d
               PROVE  a \in vectors'
    BY DEF Of
  <1> USE DEF vars, docVars, jobVars, indexVars, workerVars, deleteVars
  <1>0. TypeOK
    BY DEF IInv
  <1>1. ASSUME NEW x \in Deleters, DeleteVectors(x) PROVE a \in vectors'
    <2>1. dpc'[x] = "vectors" /\ ddoc'[x] = ddoc[x]
      BY <1>0, <1>1 DEF TypeOK, DeleteVectors, AdvanceDelete
    <2>2. ddoc[x] # d
      BY <2>1 DEF Damaged, BeingCleaned
    <2> QED BY <1>1, <2>2 DEF DeleteVectors, Of
  <1>2. CASE vectors \subseteq vectors'
    BY <1>2
  <1> QED BY <1>1, <1>2
           DEF Next, Upload, RetryCheck, RetryCommit, WorkerNext, Claim, Load,
               RejectDeleted, MarkProcessing, Extract, SaveChunks, AddVectors,
               IndexES, StepFails, FinishReady, FinishFailed, CommitAttempt,
               BackoffEnds, DeleteCheck, DeleteContinues, DeleteMark, DeleteRows,
               DeleteES, DeleteObject, DeleteCommit, Deadlock, WorkerAborts,
               DeleteAborts, RollbackWorker, RollbackDelete, Crash

\* What a short answer has left out is not forgotten.
LEMMA ShortGrows == [Next]_vars => short \subseteq short'
  <1> USE DEF vars, indexVars
  <1> QED BY DEF Next, Upload, RetryCheck, RetryCommit, WorkerNext, Claim, Load,
               RejectDeleted, MarkProcessing, Extract, SaveChunks, AddVectors,
               IndexES, StepFails, FinishReady, FinishFailed, CommitAttempt,
               BackoffEnds, DeleteCheck, DeleteContinues, DeleteMark, DeleteRows,
               DeleteVectors, DeleteES, DeleteObject, DeleteCommit, Deadlock,
               WorkerAborts, DeleteAborts, RollbackWorker, RollbackDelete, Crash

\* No step restores a document that is deleted.
LEMMA DeletedStays ==
  IInv /\ [Next]_vars => \A d \in Docs : docDeleted[d] => docDeleted'[d]
  <1> USE DEF IInv, TypeOK, vars, docVars
  <1> QED BY DEF Next, Upload, RetryCheck, RetryCommit, WorkerNext, Claim, Load,
               RejectDeleted, MarkProcessing, Extract, SaveChunks, AddVectors,
               IndexES, StepFails, FinishReady, FinishFailed, CommitAttempt,
               BackoffEnds, DeleteCheck, DeleteContinues, DeleteMark, DeleteRows,
               DeleteVectors, DeleteES, DeleteObject, DeleteCommit, Deadlock,
               WorkerAborts, DeleteAborts, RollbackWorker, RollbackDelete, Crash

\* Every step preserves that a running attempt is in place.
LEMMA AttemptStep == IInv /\ AttemptInPlace /\ [Next]_vars => AttemptInPlace'
  <1> SUFFICES ASSUME IInv, AttemptInPlace, [Next]_vars, NEW w \in Workers,
                      wpc'[w] \in {"chunked", "vectorised", "indexed"}
               PROVE  /\ wAdded'[w] = Produced(w)'
                      /\ wpc'[w] \in {"vectorised", "indexed"}
                           /\ ~Damaged(DocOf(w))' => Produced(w)' \subseteq vectors' \cup short'
    BY DEF AttemptInPlace
  <1> DEFINE Kept == /\ wAdded'[w] = Produced(w)'
                     /\ wpc'[w] \in {"vectorised", "indexed"}
                          /\ ~Damaged(DocOf(w))' => Produced(w)' \subseteq vectors' \cup short'
  <1> USE DEF vars, docVars, jobVars, indexVars, workerVars, deleteVars
  <1>0. TypeOK
    BY DEF IInv
  \* A worker that stays where it is keeps its job and its retry count.
  <1>a. ASSUME wpc'[w] = wpc[w], wjob'[w] = wjob[w], wAdded'[w] = wAdded[w],
               retryCount'[wjob[w]] = retryCount[wjob[w]]
        PROVE  Kept
    <2>1. jobDoc[wjob[w]] \in Docs /\ wjob[w] \in Jobs
             /\ jobStatus[wjob[w]] # "ABSENT"
      BY <1>a, HeldJob
    <2>2. DocOf(w)' = DocOf(w) /\ Produced(w)' = Produced(w)
      BY <1>a, <2>1, JobsStay DEF DocOf, Attempt, Produced
    <2>3. Attempt(w)[1] = wjob[w]
      BY DEF Attempt
    <2>4. PICK d \in Docs : d = DocOf(w)
      BY <2>1 DEF DocOf
    <2>5. wAdded[w] = Produced(w)
      BY <1>a DEF AttemptInPlace
    <2>6. Damaged(DocOf(w))' <=> Damaged(d)'
      BY <2>2, <2>4 DEF Damaged, BeingCleaned
    <2>7. ASSUME wpc[w] \in {"vectorised", "indexed"}, ~Damaged(d)'
          PROVE  Produced(w) \subseteq vectors' \cup short'
      <3>1. ~Damaged(d)
        BY <2>7, DamageIsKept
      <3>2. Produced(w) \subseteq vectors \cup short
        BY <2>4, <2>7, <3>1 DEF AttemptInPlace
      <3>3. \A a \in Produced(w) : jobDoc[a[1]] = d
        BY <2>3, <2>4 DEF DocOf, Produced
      <3>4. Of(vectors, d) \subseteq vectors' /\ short \subseteq short'
        BY <2>7, VectorsKept, ShortGrows
      <3> QED BY <3>2, <3>3, <3>4 DEF Of
    <2> QED BY <1>a, <2>2, <2>5, <2>6, <2>7
  <1>1. ASSUME NEW v \in Workers, WorkerNext(v) PROVE Kept
    <2> USE DEF Advance, Release
    <2>a. wpc[v] # "idle" /\ wpc[w] # "idle" /\ w # v => wjob[v] # wjob[w]
      BY DEF IInv, LeaseInvariant, JobHeldOnce
    <2>1. CASE RejectDeleted(v) \/ FinishFailed(v)
      <3>1. v # w
        BY <1>0, <2>1 DEF TypeOK, RejectDeleted, FinishFailed, CommitAttempt
      <3>2. wpc'[w] = wpc[w] /\ wjob'[w] = wjob[w] /\ wAdded'[w] = wAdded[w]
        BY <1>0, <2>1, <3>1
          DEF TypeOK, RejectDeleted, FinishFailed, CommitAttempt
      <3>3. retryCount'[wjob[w]] = retryCount[wjob[w]]
        BY <1>0, <2>1, <2>a, <3>1, <3>2, HeldJob
          DEF TypeOK, RejectDeleted, FinishFailed, JobFails
      <3> QED BY <1>a, <3>2, <3>3
    <2>2. CASE FinishReady(v)
      <3>1. v # w
        BY <1>0, <2>2 DEF TypeOK, FinishReady, CommitAttempt
      <3> QED BY <1>0, <1>a, <2>2, <3>1 DEF TypeOK, FinishReady, CommitAttempt
    <2>3. CASE SaveChunks(v)
      <3>1. CASE v = w
        BY <1>0, <2>3, <3>1 DEF TypeOK, SaveChunks, Attempt, DocOf, Produced
      <3>2. CASE v # w
        BY <1>0, <1>a, <2>3, <3>2 DEF TypeOK, SaveChunks
      <3> QED BY <3>1, <3>2
    <2>4. CASE AddVectors(v)
      <3>1. CASE v = w
        BY <1>0, <2>4, <3>1 DEF TypeOK, AddVectors, Attempt, DocOf, Produced,
               AttemptInPlace
      <3>2. CASE v # w
        BY <1>0, <1>a, <2>4, <3>2 DEF TypeOK, AddVectors
      <3> QED BY <3>1, <3>2
    <2>5. CASE IndexES(v)
      <3>1. CASE v = w
        <4>1. wAdded[w] = Produced(w) /\ Produced(w)' = Produced(w)
                /\ DocOf(w)' = DocOf(w) /\ UNCHANGED <<wAdded, vectors, short>>
          BY <2>5, <3>1 DEF IndexES, AttemptInPlace, Attempt, DocOf, Produced
        <4>2. Damaged(DocOf(w))' <=> Damaged(DocOf(w))
          BY <2>5, <4>1 DEF IndexES, Damaged, BeingCleaned
        <4> QED BY <2>5, <3>1, <4>1, <4>2 DEF IndexES, AttemptInPlace
      <3>2. CASE v # w
        BY <1>0, <1>a, <2>5, <3>2 DEF TypeOK, IndexES
      <3> QED BY <3>1, <3>2
    <2>6. CASE Claim(v) \/ Load(v) \/ MarkProcessing(v) \/ Extract(v)
                 \/ StepFails(v)
      <3>1. v # w
        BY <1>0, <2>6
          DEF TypeOK, Claim, Load, MarkProcessing, Extract, StepFails
      <3> QED BY <1>0, <1>a, <2>6, <3>1
                DEF TypeOK, Claim, Load, MarkProcessing, Extract, StepFails
    <2> QED BY <1>1, <2>1, <2>2, <2>3, <2>4, <2>5, <2>6 DEF WorkerNext
  <1>2. ASSUME NEW v \in Workers, RollbackWorker(v) PROVE Kept
    BY <1>0, <1>a, <1>2 DEF TypeOK, RollbackWorker, Release
  <1>3. CASE Crash
    BY <1>3 DEF Crash
  <1>4. CASE UNCHANGED <<workerVars, retryCount>>
    BY <1>a, <1>4
  <1> QED BY <1>1, <1>2, <1>3, <1>4
           DEF Next, Upload, CreateJob, RetryCheck, RetryCommit, BackoffEnds,
               DeleteCheck, DeleteContinues, DeleteMark, DeleteRows,
               DeleteVectors, DeleteES, DeleteObject, DeleteCommit, Deadlock,
               WorkerAborts, DeleteAborts, RollbackDelete

\* A READY document keeps its chunk rows and, unless a delete has damaged it, can
\* be cited: the order of process, the joint commit of rows and status and the
\* document's row lock keep rows and vectors together, for any number of workers
\* and requests. Only a short answer of the embedding service takes vectors away.
THEOREM ReadyStaysSearchable == Spec => []ReadyIsSearchable
  <1> DEFINE Stored == chunkRows \cap (vectors \cup short)
             Goal(d) == /\ Of(chunkRows, d)' # {}
                        /\ ~Damaged(d)' => Of(Stored, d)' # {}
  <1>1. Init => ReadyIsSearchable /\ AttemptInPlace
    BY DEF Init, ReadyIsSearchable, AttemptInPlace
  <1>2. IInv /\ AttemptInPlace /\ ReadyIsSearchable /\ [Next]_vars
          => ReadyIsSearchable'
    <2> SUFFICES ASSUME IInv, AttemptInPlace, ReadyIsSearchable, [Next]_vars,
                        NEW d \in Docs \ Textless,
                        docStatus'[d] = "READY", ~docDeleted'[d]
                 PROVE  Goal(d)
      BY DEF ReadyIsSearchable
    <2> USE DEF vars, docVars, jobVars, indexVars, workerVars, deleteVars
    <2>0. TypeOK
      BY DEF IInv
    <2>a. ~docDeleted[d] /\ (~Damaged(d)' => ~Damaged(d))
      BY DamageIsKept, DeletedStays
    \* A step that keeps the status keeps a witness unless it drops its rows.
    <2>b. ASSUME docStatus'[d] = docStatus[d], Of(chunkRows, d) \subseteq chunkRows'
          PROVE  Goal(d)
      <3>1. \A a \in chunkRows : a[1] \in Jobs /\ jobStatus[a[1]] # "ABSENT"
        BY <2>0
          DEF TypeOK, Attempts, IInv, LeaseInvariant, StoresMatchJobs
      <3>2. Of(chunkRows, d) \subseteq Of(chunkRows, d)'
        BY <2>b, <3>1, JobsStay DEF Of
      <3>3. Of(chunkRows, d)' # {}
        BY <2>a, <2>b, <3>2 DEF ReadyIsSearchable
      <3>4. ASSUME ~Damaged(d)'
            PROVE  Of(Stored, d)' # {}
        <4>1. PICK a \in Of(chunkRows, d) : a \in vectors \cup short
          BY <2>a, <2>b, <3>4 DEF ReadyIsSearchable, Of
        <4>2. a \in vectors' \cup short'
          BY <3>4, <4>1, VectorsKept, ShortGrows DEF Of
        <4> QED BY <3>2, <4>1, <4>2 DEF Of
      <3> QED BY <3>3, <3>4
    <2>1. ASSUME NEW w \in Workers, FinishReady(w)
          PROVE  Goal(d)
      <3>1. wpc[w] = "indexed" /\ wpc[w] # "idle"
        BY <2>1 DEF FinishReady
      <3>2. CASE DocOf(w) = d
        <4>1. wAdded[w] = {Attempt(w)}
          BY <3>1, <3>2 DEF AttemptInPlace, Produced
        <4>2. /\ Attempt(w) \in chunkRows'
              /\ UNCHANGED <<docDeleted, vectors, short, jobDoc>>
          BY <2>1, <4>1 DEF FinishReady, CommitAttempt
        <4>3. jobDoc'[Attempt(w)[1]] = d
          BY <3>2, <4>2 DEF Attempt, DocOf
        <4>4. ~Damaged(d)' => Attempt(w) \in vectors' \cup short'
          BY <2>a, <3>1, <3>2, <4>2 DEF AttemptInPlace, Produced
        <4> QED BY <4>2, <4>3, <4>4 DEF Of
      <3>3. CASE DocOf(w) # d
        <4>1. docStatus'[d] = docStatus[d]
          BY <2>0, <2>1, <3>3 DEF TypeOK, FinishReady, CommitAttempt
        <4>2. \A a \in wDropped[w] : jobDoc[a[1]] = DocOf(w)
          BY <3>1 DEF IInv, LeaseInvariant, StoresMatchJobs
        <4>3. Of(chunkRows, d) \subseteq chunkRows'
          BY <2>1, <3>3, <4>2 DEF FinishReady, CommitAttempt, Of
        <4> QED BY <2>b, <4>1, <4>3
      <3> QED BY <3>2, <3>3
    <2>2. ASSUME NEW w \in Workers, FinishFailed(w)
          PROVE  Goal(d)
      <3>1. DocOf(w) # d
        BY <2>0, <2>2 DEF TypeOK, FinishFailed, CommitAttempt
      <3>2. docStatus'[d] = docStatus[d]
        BY <2>0, <2>2, <3>1 DEF TypeOK, FinishFailed, CommitAttempt
      <3>3. \A a \in wDropped[w] : jobDoc[a[1]] = DocOf(w)
        BY <2>2 DEF FinishFailed, IInv, LeaseInvariant, StoresMatchJobs
      <3>4. Of(chunkRows, d) \subseteq chunkRows'
        BY <2>2, <3>1, <3>3 DEF FinishFailed, CommitAttempt, Of
      <3> QED BY <2>b, <3>2, <3>4
    <2>3. ASSUME NEW x \in Deleters, DeleteCommit(x)
          PROVE  Goal(d)
      <3>1. ddoc[x] # d
        BY <2>0, <2>3 DEF TypeOK, DeleteCommit, Damaged
      <3>2. Of(chunkRows, d) \subseteq chunkRows'
        BY <2>3, <3>1 DEF DeleteCommit, Of
      <3> QED BY <2>3, <2>b, <3>2 DEF DeleteCommit
    <2>4. ASSUME NEW e \in Docs, Upload(e)
          PROVE  Goal(d)
      <3>1. e # d
        BY <2>0, <2>4 DEF TypeOK, Upload
      <3> QED BY <2>0, <2>b, <2>4, <3>1 DEF TypeOK, Upload, Of
    <2>5. ASSUME NEW r \in Retriers, RetryCommit(r)
          PROVE  Goal(d)
      <3>1. retrying[r] # d
        BY <2>0, <2>5 DEF TypeOK, RetryCommit
      <3> QED BY <2>0, <2>b, <2>5, <3>1 DEF TypeOK, RetryCommit, Of
    <2>6. ASSUME NEW w \in Workers, MarkProcessing(w)
          PROVE  Goal(d)
      <3>1. DocOf(w) # d
        BY <2>0, <2>6 DEF TypeOK, MarkProcessing
      <3> QED BY <2>0, <2>b, <2>6, <3>1 DEF TypeOK, MarkProcessing, Of
    <2>7. CASE UNCHANGED <<docStatus, chunkRows>>
      BY <2>b, <2>7 DEF Of
    <2> QED BY <2>1, <2>2, <2>3, <2>4, <2>5, <2>6, <2>7
             DEF Next, RetryCheck, WorkerNext, Claim, Load, RejectDeleted,
                 Extract, SaveChunks, AddVectors, IndexES, StepFails,
                 BackoffEnds, DeleteCheck, DeleteContinues, DeleteMark,
                 DeleteRows, DeleteVectors, DeleteES, DeleteObject, Deadlock,
                 WorkerAborts, DeleteAborts, RollbackWorker, RollbackDelete,
                 Crash
  <1> QED BY Invariance, AttemptStep, <1>1, <1>2, PTL DEF Spec

-----------------------------------------------------------------------------

\* A worker that keeps its job keeps its document.
LEMMA DocStays ==
  ASSUME IInv, [Next]_vars, NEW w \in Workers, wpc[w] # "idle",
         wjob'[w] = wjob[w]
  PROVE  DocOf(w)' = DocOf(w)
  <1>1. wjob[w] \in Jobs /\ jobStatus[wjob[w]] # "ABSENT"
    BY HeldJob
  <1> QED BY <1>1, JobsStay DEF DocOf

\* Without a rollback, every step keeps RUNNING jobs and PROCESSING documents
\* in the hands of a worker.
LEMMA RunningStep ==
  IInv /\ IInv' /\ RunningIsHeld /\ [Next]_vars => RunningIsHeld'
  <1> DEFINE Run == \A j \in Jobs : jobStatus[j] = "RUNNING" => Held(j)
             Proc == \A d \in Docs : docStatus[d] = "PROCESSING" =>
                       \E w \in Workers : Processing(w) /\ DocOf(w) = d
  <1> SUFFICES ASSUME IInv, IInv', RunningIsHeld, [Next]_vars, rollbacks' = 0
               PROVE  Run' /\ Proc'
    BY DEF RunningIsHeld
  <1>r. TypeOK /\ TypeOK' /\ 0 \notin Jobs
    BY DEF IInv, Jobs
  <1>s. ~CountRollback
    BY <1>r, ConstantsAssumption DEF TypeOK, CountRollback
  \* A step that makes nothing RUNNING or PROCESSING, and takes nothing from a
  \* worker that holds a job.
  <1>a. ASSUME rollbacks' = rollbacks,
               \A j \in Jobs : jobStatus'[j] = "RUNNING" => jobStatus[j] = "RUNNING",
               \A d \in Docs : docStatus'[d] = "PROCESSING" =>
                               docStatus[d] = "PROCESSING",
               \A w \in Workers : wpc[w] # "idle" =>
                 wjob'[w] = wjob[w] /\ (Processing(w) => Processing(w)')
        PROVE  Run' /\ Proc'
    <2>1. Run /\ Proc
      BY <1>a DEF RunningIsHeld
    <2>2. Run'
      <3> SUFFICES ASSUME NEW j \in Jobs, jobStatus'[j] = "RUNNING" PROVE Held(j)'
        OBVIOUS
      <3>1. PICK w \in Workers : wjob[w] = j
        BY <1>a, <2>1 DEF Held
      <3>2. wpc[w] # "idle"
        BY <1>r, <3>1 DEF IInv, LeaseInvariant, IdleHoldsNothing
      <3> QED BY <1>a, <3>1, <3>2 DEF Held
    <2>3. Proc'
      <3> SUFFICES ASSUME NEW d \in Docs, docStatus'[d] = "PROCESSING"
                   PROVE  \E w \in Workers : Processing(w)' /\ DocOf(w)' = d
        OBVIOUS
      <3>1. PICK w \in Workers : Processing(w) /\ DocOf(w) = d
        BY <1>a, <2>1
      <3>2. wpc[w] # "idle"
        BY <3>1 DEF Processing
      <3> QED BY <1>a, <3>1, <3>2, DocStays
    <2> QED BY <2>2, <2>3
  \* A worker that lets its job go leaves it in a status other than RUNNING.
  <1>b. ASSUME NEW w \in Workers, wpc[w] # "idle", Release(w), Run, Proc,
               jobStatus'[wjob[w]] # "RUNNING",
               \A j \in Jobs \ {wjob[w]} : jobStatus'[j] = jobStatus[j]
        PROVE  Run'
    <2> SUFFICES ASSUME NEW j \in Jobs, jobStatus'[j] = "RUNNING" PROVE Held(j)'
      OBVIOUS
    <2>1. j # wjob[w] /\ jobStatus[j] = "RUNNING"
      BY <1>b
    <2>2. PICK v \in Workers : wjob[v] = j
      BY <1>b, <2>1 DEF Held
    <2>3. wjob'[v] = j
      BY <1>b, <1>r, <2>1, <2>2 DEF Release, TypeOK
    <2> QED BY <2>3 DEF Held
  <1>1. ASSUME NEW d \in Docs, Upload(d) PROVE Run' /\ Proc'
    BY <1>a, <1>r, <1>1 DEF TypeOK, Upload, CreateJob, workerVars, Processing
  <1>2. ASSUME NEW r \in Retriers, RetryCommit(r) PROVE Run' /\ Proc'
    BY <1>a, <1>r, <1>2 DEF TypeOK, RetryCommit, CreateJob, workerVars, Processing
  <1>3. ASSUME NEW w \in Workers, WorkerNext(w) PROVE Run' /\ Proc'
    <2>1. CASE Claim(w)
      BY <1>a, <1>r, <2>1 DEF TypeOK, Claim, Advance, docVars, jobVars, Processing
    <2>2. CASE Load(w) \/ Extract(w) \/ SaveChunks(w) \/ AddVectors(w)
               \/ IndexES(w) \/ StepFails(w)
      BY <1>a, <1>r, <2>2 DEF TypeOK, Load, Extract, SaveChunks, AddVectors,
           IndexES, StepFails, Advance, docVars, jobVars, Processing
    <2>3. CASE MarkProcessing(w)
      <3>1. Run /\ Proc /\ wpc[w] # "idle" /\ wpc'[w] = "processing"
            /\ wjob' = wjob
        BY <1>r, <2>3 DEF RunningIsHeld, MarkProcessing, Advance, TypeOK
      <3>2. \A j \in Jobs : jobStatus'[j] = "RUNNING" =>
              jobStatus[j] = "RUNNING" \/ j = wjob[w]
        BY <1>r, <2>3 DEF MarkProcessing, TypeOK
      <3>3. Run'
        BY <3>1, <3>2 DEF Held
      <3>4. \A d \in Docs : docStatus'[d] = "PROCESSING" =>
              docStatus[d] = "PROCESSING" \/ d = DocOf(w)
        BY <1>r, <2>3 DEF MarkProcessing, TypeOK
      <3>5. \A v \in Workers : Processing(v) => Processing(v)' /\ DocOf(v)' = DocOf(v)
        BY <1>r, <2>3, <3>1, DocStays DEF MarkProcessing, Advance, TypeOK, Processing
      <3>6. Processing(w)' /\ DocOf(w)' = DocOf(w)
        BY <3>1, DocStays DEF Processing
      <3> QED BY <3>1, <3>3, <3>4, <3>5, <3>6
    <2>4. CASE RejectDeleted(w)
      <3>1. /\ Run /\ Proc /\ wpc[w] = "claimed" /\ Release(w)
            /\ JobFails(wjob[w]) /\ docStatus' = docStatus
        BY <2>4 DEF RunningIsHeld, RejectDeleted, docVars
      <3>2. /\ jobStatus'[wjob[w]] # "RUNNING"
            /\ \A j \in Jobs \ {wjob[w]} : jobStatus'[j] = jobStatus[j]
        BY <1>r, <3>1, HeldJob DEF JobFails, TypeOK
      <3>3. Run'
        BY <1>b, <3>1, <3>2
      <3>4. \A v \in Workers : Processing(v) => Processing(v)' /\ DocOf(v)' = DocOf(v)
        BY <1>r, <3>1, DocStays DEF Release, TypeOK, Processing
      <3> QED BY <3>1, <3>3, <3>4
    <2>5. CASE FinishReady(w) \/ FinishFailed(w)
      <3>1. /\ Run /\ Proc /\ wpc[w] # "idle" /\ Release(w)
            /\ JobFails(wjob[w])
               \/ jobStatus' = [jobStatus EXCEPT ![wjob[w]] = "SUCCEEDED"]
        BY <2>5 DEF RunningIsHeld, FinishReady, FinishFailed, CommitAttempt
      <3>2. /\ jobStatus'[wjob[w]] # "RUNNING"
            /\ \A j \in Jobs \ {wjob[w]} : jobStatus'[j] = jobStatus[j]
        BY <1>r, <3>1, HeldJob DEF JobFails, TypeOK
      <3>3. Run'
        BY <1>b, <3>1, <3>2
      <3>4. \A d \in Docs : docStatus'[d] = "PROCESSING" =>
              docStatus[d] = "PROCESSING" /\ d # DocOf(w)
        BY <1>r, <2>5, <3>1, HeldJob
          DEF FinishReady, FinishFailed, CommitAttempt, TypeOK, DocOf
      <3>5. \A v \in Workers : Processing(v) /\ DocOf(v) # DocOf(w) =>
              Processing(v)' /\ DocOf(v)' = DocOf(v)
        BY <1>r, <3>1, DocStays DEF Release, TypeOK, Processing
      <3> QED BY <3>1, <3>3, <3>4, <3>5
    <2> QED BY <1>3, <2>1, <2>2, <2>3, <2>4, <2>5 DEF WorkerNext
  <1>4. CASE \/ \E r \in Retriers, d \in Docs : RetryCheck(r, d)
             \/ \E j \in Jobs : BackoffEnds(j)
             \/ \E x \in Deleters, d \in Docs : DeleteCheck(x, d)
             \/ \E x \in Deleters : DeleteContinues(x)
             \/ UNCHANGED vars
    <2>1. UNCHANGED <<jobStatus, docStatus, wpc, wjob, rollbacks>>
      BY <1>4 DEF RetryCheck, BackoffEnds, DeleteCheck, DeleteContinues,
           DeleteMark, DeleteRows, DeleteVectors, DeleteES, DeleteObject,
           DeleteCommit, vars, docVars, jobVars, workerVars
    <2> QED BY <1>a, <2>1 DEF Processing
  <1> QED BY <1>s, <1>1, <1>2, <1>3, <1>4
           DEF Next, WorkerAborts, DeleteAborts, Deadlock, RollbackWorker,
               RollbackDelete, Crash

\* As long as every transaction reaches its commit, a RUNNING job and a
\* PROCESSING document have a worker, with any number of workers, retries and
\* deletes at once (_execute_job, process).
THEOREM RunningStaysHeld == Spec => []RunningIsHeld
  <1>1. Init => RunningIsHeld
    BY DEF Init, RunningIsHeld
  <1> QED BY <1>1, RunningStep, Invariance, PTL DEF Spec

-----------------------------------------------------------------------------

\* OneGeneration, strengthened by what a single worker's open transaction
\* guarantees: before it adds rows it has dropped all the document has, so the
\* rows it adds at its commit are the only ones.
SingleWorker == \E w : Workers = {w}

OneAttemptEach ==
  \A a, b \in chunkRows : jobDoc[a[1]] = jobDoc[b[1]] => a = b

DropsBeforeAdding ==
  \A w \in Workers : wAdded[w] # {} =>
    \A a \in chunkRows : jobDoc[a[1]] = DocOf(w) => a \in wDropped[w]

Generations == SingleWorker => OneAttemptEach /\ DropsBeforeAdding

LEMMA GenerationsStep ==
  IInv /\ Generations /\ [Next]_vars => Generations'
  <1> SUFFICES ASSUME IInv, OneAttemptEach, DropsBeforeAdding, [Next]_vars,
                      NEW w, Workers = {w}
               PROVE  OneAttemptEach' /\ DropsBeforeAdding'
    BY DEF Generations, SingleWorker
  <1>t. TypeOK /\ StoresMatchJobs /\ w \in Workers
    BY DEF IInv, LeaseInvariant
  <1>d. \A a \in chunkRows : a[1] \in Jobs /\ jobDoc'[a[1]] = jobDoc[a[1]]
    BY <1>t, JobsStay DEF TypeOK, StoresMatchJobs, Attempts
  \* A step that adds no row, with the transaction as it was or empty.
  <1>a. ASSUME chunkRows' \subseteq chunkRows,
               \/ wAdded'[w] = {}
               \/ wAdded'[w] = wAdded[w] /\ wDropped'[w] = wDropped[w]
                  /\ wjob'[w] = wjob[w]
        PROVE  OneAttemptEach' /\ DropsBeforeAdding'
    <2>1. OneAttemptEach'
      BY <1>a, <1>d DEF OneAttemptEach
    <2>2. CASE wAdded'[w] = {}
      BY <2>1, <2>2 DEF DropsBeforeAdding
    <2>3. CASE wAdded'[w] = wAdded[w] /\ wDropped'[w] = wDropped[w]
               /\ wjob'[w] = wjob[w] /\ wAdded[w] # {}
      <3>1. wpc[w] # "idle"
        BY <1>t, <2>3 DEF StoresMatchJobs
      <3>2. DocOf(w)' = DocOf(w)
        BY <1>t, <2>3, <3>1, DocStays
      <3> QED BY <1>a, <1>d, <2>1, <2>3, <3>2 DEF DropsBeforeAdding
    <2> QED BY <1>a, <2>1, <2>2, <2>3
  <1>b. ASSUME UNCHANGED <<chunkRows, wAdded, wDropped, wjob>>
        PROVE  OneAttemptEach' /\ DropsBeforeAdding'
    BY <1>a, <1>b
  <1>1. ASSUME NEW v \in Workers, WorkerNext(v)
        PROVE  OneAttemptEach' /\ DropsBeforeAdding'
    <2>1. CASE Claim(w)
      <3>1. wAdded'[w] = {}
        BY <1>t, <2>1 DEF Claim, Advance, StoresMatchJobs
      <3> QED BY <1>a, <2>1, <3>1 DEF Claim, indexVars
    <2>2. CASE \/ Load(w) \/ MarkProcessing(w) \/ Extract(w) \/ AddVectors(w)
               \/ IndexES(w) \/ StepFails(w)
      BY <1>b, <2>2 DEF Load, MarkProcessing, Extract, AddVectors, IndexES,
           StepFails, indexVars
    <2>3. CASE RejectDeleted(w)
      BY <1>a, <1>t, <2>3 DEF RejectDeleted, Release, TypeOK, indexVars
    <2>4. CASE SaveChunks(w)
      <3>1. UNCHANGED <<chunkRows, jobDoc, wjob>>
        BY <2>4 DEF SaveChunks, indexVars, jobVars
      <3>2. UNION {wDropped[u] : u \in Workers \ {w}} = {}
        OBVIOUS
      <3>3. wDropped'[w] = Of(chunkRows, DocOf(w))
        BY <1>t, <2>4, <3>2 DEF SaveChunks, TypeOK
      <3> QED BY <3>1, <3>3
               DEF OneAttemptEach, DropsBeforeAdding, DocOf, Of
    <2>5. CASE FinishReady(w) \/ FinishFailed(w)
      <3>1. /\ wpc[w] # "idle" /\ Release(w)
            /\ chunkRows' = (chunkRows \ wDropped[w]) \cup wAdded[w]
            /\ jobDoc' = jobDoc
        BY <2>5 DEF FinishReady, FinishFailed, CommitAttempt, JobFails
      <3>2. wAdded[w] \subseteq {Attempt(w)} /\ Attempt(w)[1] = wjob[w]
        BY <1>t, <3>1 DEF StoresMatchJobs, Attempt
      <3>3. \A a \in wAdded[w], b \in chunkRows \ wDropped[w] :
              jobDoc[a[1]] # jobDoc[b[1]]
        BY <1>t, <3>2 DEF DropsBeforeAdding, DocOf
      <3>4. OneAttemptEach'
        BY <3>1, <3>2, <3>3 DEF OneAttemptEach
      <3>5. wAdded'[w] = {}
        BY <1>t, <3>1 DEF Release, TypeOK
      <3> QED BY <3>4, <3>5 DEF DropsBeforeAdding
    <2> QED BY <1>1, <2>1, <2>2, <2>3, <2>4, <2>5 DEF WorkerNext
  <1>2. CASE \E x \in Deleters : DeleteContinues(x)
    BY <1>a, <1>2 DEF DeleteContinues, DeleteMark, DeleteRows, DeleteVectors,
         DeleteES, DeleteObject, DeleteCommit, workerVars, indexVars
  <1>3. CASE \/ \E d \in Docs : Upload(d)
             \/ \E r \in Retriers, d \in Docs : RetryCheck(r, d)
             \/ \E r \in Retriers : RetryCommit(r)
             \/ \E j \in Jobs : BackoffEnds(j)
             \/ \E x \in Deleters, d \in Docs : DeleteCheck(x, d)
             \/ \E x \in Deleters : RollbackDelete(x)
             \/ UNCHANGED vars
    BY <1>b, <1>3 DEF Upload, RetryCheck, RetryCommit, BackoffEnds, DeleteCheck,
         RollbackDelete, vars, workerVars, indexVars
  <1>4. CASE Crash \/ \E v \in Workers : RollbackWorker(v)
    BY <1>a, <1>t, <1>4
      DEF Crash, RollbackWorker, Release, TypeOK, indexVars
  <1> QED BY <1>1, <1>2, <1>3, <1>4
           DEF Next, WorkerAborts, DeleteAborts, Deadlock

\* One worker at a time never leaves a document with the chunk rows of two
\* attempts, whatever jobs, retries and deletes the document goes through
\* (save_chunks deletes and inserts in one transaction).
THEOREM OneGenerationOnly == Spec => []OneGeneration
  <1>1. Init => Generations
    BY DEF Init, Generations, OneAttemptEach, DropsBeforeAdding
  <1>2. IInv /\ Generations => OneGeneration
    <2> SUFFICES ASSUME IInv, Generations, Cardinality(Workers) = 1, NEW d \in Docs
                 PROVE  Cardinality(Of(chunkRows, d)) <= 1
      BY DEF OneGeneration
    <2>1. OneAttemptEach
      BY FS_Singleton, ConstantsAssumption DEF Generations, SingleWorker
    <2>2. \A a, b \in Of(chunkRows, d) : a = b
      BY <2>1 DEF OneAttemptEach, Of
    <2>3. CASE Of(chunkRows, d) = {}
      BY <2>3, FS_EmptySet
    <2>4. CASE Of(chunkRows, d) # {}
      <3>1. PICK a \in Of(chunkRows, d) : TRUE
        BY <2>4
      <3>2. Of(chunkRows, d) = {a}
        BY <2>2, <3>1
      <3>3. Cardinality({a}) = 1
        BY FS_Singleton
      <3> QED BY <3>2, <3>3
    <2> QED BY <2>3, <2>4
  <1> QED BY <1>1, <1>2, GenerationsStep, Invariance, PTL DEF Spec

-----------------------------------------------------------------------------

\* LeftoversBounded, strengthened by an account of every leftover. While a
\* delete that has cleaned the vectors is open, the vectors of its document are
\* of attempts that still wait for the row lock it holds. Afterwards each one
\* can be charged to a worker that has no further vectors to write for it.
Cleaned(x) == dpc[x] \in {"vectors", "es", "object"} /\ dclean[x]

HasWritten(w) == wpc[w] \in {"vectorised", "indexed"}

WillWrite(w) == wpc[w] \in {"loaded", "processing", "parsed", "chunked"}

LeftByWorkers ==
  \A x \in Deleters : Cleaned(x) =>
    \A a \in vectors : jobDoc[a[1]] = ddoc[x] =>
      \E w \in Workers : HasWritten(w) /\ DocOf(w) = ddoc[x] /\ a = Attempt(w)

VectorsOf(d) == {a \in vectors : jobDoc[a[1]] = d}

Charged(d) ==
  \E f \in Injection(VectorsOf(d), Workers) :
    \A a \in VectorsOf(d) : ~(WillWrite(f[a]) /\ DocOf(f[a]) = d)

OnePerWorker ==
  \A d \in Docs : response[d] = "clean" => docDeleted[d] /\ Charged(d)

Leftovers == rollbacks = 0 => LeftByWorkers /\ OnePerWorker

\* The vectors of a document do not become those of another.
LEMMA VectorsStay ==
  IInv /\ [Next]_vars => \A a \in vectors : jobDoc'[a[1]] = jobDoc[a[1]]
  BY JobsStay DEF IInv, TypeOK, LeaseInvariant, StoresMatchJobs, Attempts

\* A document with no more vectors and no more writers stays charged.
LEMMA ChargedStays ==
  ASSUME IInv, [Next]_vars, NEW d \in Docs, Charged(d), vectors' \subseteq vectors,
         \A w \in Workers : WillWrite(w)' /\ DocOf(w)' = d =>
                            WillWrite(w) /\ DocOf(w) = d
  PROVE  Charged(d)'
  <1>1. PICK f \in Injection(VectorsOf(d), Workers) :
          \A a \in VectorsOf(d) : ~(WillWrite(f[a]) /\ DocOf(f[a]) = d)
    BY DEF Charged
  <1>2. PICK T : T = VectorsOf(d)'
    OBVIOUS
  <1>3. T \subseteq VectorsOf(d)
    BY <1>2, VectorsStay DEF VectorsOf
  <1>4. PICK g : g = [a \in T |-> f[a]]
    OBVIOUS
  <1>5. g \in Injection(T, Workers)
    BY <1>1, <1>3, <1>4 DEF Injection, IsInjective
  <1>6. \A a \in T : g[a] \in Workers /\ g[a] = f[a]
    BY <1>4, <1>5 DEF Injection
  <1>7. \A a \in T : ~(WillWrite(g[a])' /\ DocOf(g[a])' = d)
    BY <1>1, <1>3, <1>6
  <1> QED BY <1>2, <1>5, <1>7 DEF Charged

\* A function that keeps different arguments apart is an injection.
LEMMA InjectionRule ==
  ASSUME NEW S, NEW T, NEW f \in [S -> T],
         \A a, b \in S : f[a] = f[b] => a = b
  PROVE  f \in Injection(S, T)
  BY DEF Injection, IsInjective

\* At its commit, a clean delete leaves the vectors of workers that have written.
LEMMA CommitCharges ==
  ASSUME IInv, NEW x \in Deleters, LeftByWorkers, Cleaned(x)
  PROVE  Charged(ddoc[x])
  <1> DEFINE d == ddoc[x]
             Writer(a) == CHOOSE w \in Workers :
                            HasWritten(w) /\ DocOf(w) = d /\ a = Attempt(w)
             f == [a \in VectorsOf(d) |-> Writer(a)]
  <1>1. \A a \in VectorsOf(d) :
          /\ f[a] \in Workers
          /\ HasWritten(f[a]) /\ a = Attempt(f[a])
    BY DEF LeftByWorkers, VectorsOf
  <1>2. f \in Injection(VectorsOf(d), Workers)
    BY <1>1 DEF Injection, IsInjective
  <1>3. \A a \in VectorsOf(d) : ~(WillWrite(f[a]) /\ DocOf(f[a]) = d)
    BY <1>1 DEF HasWritten, WillWrite
  <1> HIDE DEF f
  <1> QED BY <1>2, <1>3 DEF Charged

\* The vectors that a worker writes are charged to it.
LEMMA WriteCharges ==
  ASSUME IInv, [Next]_vars, NEW w \in Workers, AddVectors(w),
         NEW d \in Docs, Charged(d), vectors' # vectors
  PROVE  Charged(d)'
  <1>1. PICK f \in Injection(VectorsOf(d), Workers) :
          \A a \in VectorsOf(d) : ~(WillWrite(f[a]) /\ DocOf(f[a]) = d)
    BY DEF Charged
  <1>2. /\ wpc[w] = "chunked" /\ wpc' = [wpc EXCEPT ![w] = "vectorised"]
        /\ vectors' = vectors \cup Produced(w)
        /\ UNCHANGED <<wjob, jobDoc>> /\ TypeOK
    BY DEF AddVectors, Advance, jobVars, IInv
  <1>3. Produced(w) \subseteq {Attempt(w)} /\ jobDoc[Attempt(w)[1]] = DocOf(w)
    BY <1>2, HeldJob DEF Attempt, DocOf
  <1>4. \A v \in Workers : /\ DocOf(v)' = DocOf(v)
                           /\ WillWrite(v)' => WillWrite(v) /\ v # w
    BY <1>2 DEF DocOf, WillWrite, TypeOK
  <1>5. CASE DocOf(w) # d \/ Produced(w) = {}
    <2>1. VectorsOf(d)' = VectorsOf(d)
      BY <1>2, <1>3, <1>5 DEF VectorsOf
    <2>2. \A a \in VectorsOf(d) : f[a] \in Workers
      BY <1>1 DEF Injection, IsInjective
    <2>3. \A a \in VectorsOf(d) : ~(WillWrite(f[a])' /\ DocOf(f[a])' = d)
      BY <1>1, <1>4, <2>2
    <2> QED BY <1>1, <2>1, <2>3 DEF Charged
  <1>6. CASE DocOf(w) = d /\ Produced(w) # {}
    <2>1. PICK S, new, g :
            /\ S = VectorsOf(d) /\ new = Attempt(w)
            /\ g = [a \in S \cup {new} |-> IF a \in S THEN f[a] ELSE w]
      OBVIOUS
    <2>2. VectorsOf(d)' = S \cup {new}
      BY <1>2, <1>3, <1>6, <2>1 DEF VectorsOf
    <2>3. f \in Injection(S, Workers) /\ \A a \in S : f[a] \in Workers /\ f[a] # w
      BY <1>1, <1>2, <1>6, <2>1 DEF Injection, WillWrite
    <2>4. g \in Injection(S \cup {new}, Workers)
      <3>1. g \in [S \cup {new} -> Workers]
        BY <2>1, <2>3
      <3>2. \A a, b \in S : f[a] = f[b] => a = b
        BY <2>3 DEF Injection, IsInjective
      <3>3. \A a, b \in S \cup {new} : g[a] = g[b] => a = b
        BY <2>1, <2>3, <3>2
      <3> QED BY ONLY <3>1, <3>3, InjectionRule
    <2>5. \A a \in S \cup {new} : g[a] = w \/ (a \in S /\ g[a] = f[a])
      BY <2>1
    <2>6. \A a \in S \cup {new} : ~(WillWrite(g[a])' /\ DocOf(g[a])' = d)
      BY <1>1, <1>4, <2>1, <2>3, <2>5
    <2> QED BY <2>2, <2>4, <2>6 DEF Charged
  <1> QED BY <1>5, <1>6

\* Without a rollback, every step keeps the account of an open clean delete.
LEMMA LeftByWorkersStep ==
  ASSUME IInv, LeftByWorkers, [Next]_vars, rollbacks' = 0
  PROVE  LeftByWorkers'
  <1>t. TypeOK
    BY DEF IInv
  <1>s. ~CountRollback
    BY <1>t, ConstantsAssumption DEF TypeOK, CountRollback
  \* A step that writes no vector and releases no worker of a locked document.
  <1>a. ASSUME vectors' \subseteq vectors,
               \A x \in Deleters :
                 Cleaned(x)' => Cleaned(x) /\ ddoc'[x] = ddoc[x],
               \A w \in Workers : HasWritten(w) =>
                 \/ ~RowLocked(DocOf(w))
                 \/ /\ HasWritten(w)' /\ wjob'[w] = wjob[w]
                    /\ retryCount'[wjob[w]] = retryCount[wjob[w]]
        PROVE  LeftByWorkers'
    <2> SUFFICES ASSUME NEW x \in Deleters, Cleaned(x)', NEW a \in vectors',
                        jobDoc'[a[1]] = ddoc'[x]
                 PROVE  \E w \in Workers : HasWritten(w)' /\ DocOf(w)' = ddoc'[x]
                                          /\ a = Attempt(w)'
      BY DEF LeftByWorkers
    <2>1. Cleaned(x) /\ ddoc'[x] = ddoc[x] /\ a \in vectors /\ jobDoc[a[1]] = ddoc[x]
      BY <1>a, VectorsStay
    <2>2. PICK w \in Workers : HasWritten(w) /\ DocOf(w) = ddoc[x] /\ a = Attempt(w)
      BY <2>1 DEF LeftByWorkers
    <2>3. RowLocked(DocOf(w)) /\ wpc[w] # "idle"
      BY <2>1, <2>2 DEF RowLocked, Cleaned, HasWritten
    <2>4. HasWritten(w)' /\ wjob'[w] = wjob[w]
          /\ retryCount'[wjob[w]] = retryCount[wjob[w]]
      BY <1>a, <2>2, <2>3
    <2>5. DocOf(w)' = DocOf(w)
      BY <2>3, <2>4, DocStays
    <2>6. Attempt(w)' = Attempt(w)
      BY <2>4 DEF Attempt
    <2> QED BY <2>1, <2>2, <2>4, <2>5, <2>6
  <1>1. ASSUME NEW w \in Workers, WorkerNext(w) PROVE LeftByWorkers'
    <2>0. UNCHANGED <<dpc, ddoc, dclean>>
      BY <1>1 DEF WorkerNext, Claim, Load, RejectDeleted, MarkProcessing, Extract,
           SaveChunks, AddVectors, IndexES, StepFails, FinishReady, FinishFailed,
           CommitAttempt, deleteVars
    <2>1. CASE Claim(w)
      BY <1>a, <1>t, <2>0, <2>1 DEF Claim, Advance, indexVars, jobVars, TypeOK,
           Cleaned, HasWritten
    <2>2. CASE \/ Load(w) \/ MarkProcessing(w) \/ Extract(w) \/ SaveChunks(w)
               \/ StepFails(w) \/ IndexES(w)
      BY <1>a, <1>t, <2>0, <2>2 DEF Load, MarkProcessing, Extract, SaveChunks,
           StepFails, IndexES, Advance, indexVars, jobVars, TypeOK, Cleaned,
           HasWritten
    <2>3. CASE RejectDeleted(w) \/ FinishReady(w) \/ FinishFailed(w)
      <3>1. /\ wpc[w] # "idle" /\ Release(w) /\ vectors' = vectors
            /\ JobFails(wjob[w]) \/ retryCount' = retryCount
            /\ HasWritten(w) => ~RowLocked(DocOf(w))
        BY <2>3 DEF RejectDeleted, FinishReady, FinishFailed, CommitAttempt,
             indexVars, HasWritten
      <3>2. \A v \in Workers \ {w} : wpc[v] # "idle" =>
              wjob[v] \in Jobs /\ wjob[v] # wjob[w]
        BY HeldJob DEF IInv, LeaseInvariant, JobHeldOnce
      <3>3. \A v \in Workers \ {w} : HasWritten(v) =>
              /\ HasWritten(v)' /\ wjob'[v] = wjob[v]
              /\ retryCount'[wjob[v]] = retryCount[wjob[v]]
        BY <1>t, <3>1, <3>2 DEF Release, JobFails, TypeOK, HasWritten
      <3> QED BY <1>a, <2>0, <3>1, <3>3 DEF Cleaned
    <2>4. CASE AddVectors(w)
      <3>1. /\ wpc[w] = "chunked" /\ wpc' = [wpc EXCEPT ![w] = "vectorised"]
            /\ vectors' \in {vectors, vectors \cup Produced(w)}
            /\ UNCHANGED <<wjob, jobDoc, retryCount>>
        BY <2>4 DEF AddVectors, Advance, jobVars
      <3>2. \A v \in Workers : /\ DocOf(v)' = DocOf(v) /\ Attempt(v)' = Attempt(v)
                               /\ HasWritten(v) \/ v = w => HasWritten(v)'
        BY <1>t, <3>1 DEF DocOf, Attempt, HasWritten, TypeOK
      <3>3. \A a \in Produced(w) : a = Attempt(w) /\ jobDoc[a[1]] = DocOf(w)
        <4>1. Produced(w) \subseteq {Attempt(w)}
          BY <3>1, HeldJob
        <4>2. jobDoc[Attempt(w)[1]] = DocOf(w)
          BY DEF Attempt, DocOf
        <4> QED BY <4>1, <4>2
      <3> SUFFICES ASSUME NEW x \in Deleters, Cleaned(x)', NEW a \in vectors',
                          jobDoc'[a[1]] = ddoc'[x]
                   PROVE  \E v \in Workers : HasWritten(v)' /\ DocOf(v)' = ddoc'[x]
                                            /\ a = Attempt(v)'
        BY DEF LeftByWorkers
      <3>4. Cleaned(x) /\ ddoc'[x] = ddoc[x] /\ jobDoc[a[1]] = ddoc[x]
        BY <2>0, <3>1 DEF Cleaned
      <3>5. CASE a \in vectors
        BY <3>2, <3>4, <3>5 DEF LeftByWorkers
      <3>6. CASE a \in Produced(w)
        BY <3>2, <3>3, <3>4, <3>6
      <3> QED BY <3>1, <3>5, <3>6
    <2> QED BY <1>1, <2>1, <2>2, <2>3, <2>4 DEF WorkerNext
  <1>2. ASSUME NEW x \in Deleters, DeleteVectors(x) PROVE LeftByWorkers'
    <2>1. UNCHANGED <<ddoc, jobDoc, retryCount, wpc, wjob>>
          /\ dpc' = [dpc EXCEPT ![x] = "vectors"]
      BY <1>2 DEF DeleteVectors, AdvanceDelete, jobVars, workerVars
    <2>2. CASE vectors' = vectors /\ dclean' = [dclean EXCEPT ![x] = FALSE]
      BY <1>a, <1>t, <2>1, <2>2 DEF TypeOK, Cleaned, HasWritten
    <2>3. CASE vectors' = vectors \ Of(vectors, ddoc[x]) /\ dclean' = dclean
      <3> SUFFICES ASSUME NEW y \in Deleters, Cleaned(y)', NEW a \in vectors',
                          jobDoc'[a[1]] = ddoc'[y]
                   PROVE  \E v \in Workers : HasWritten(v)' /\ DocOf(v)' = ddoc'[y]
                                            /\ a = Attempt(v)'
        BY DEF LeftByWorkers
      <3>1. a \in vectors /\ jobDoc[a[1]] = ddoc[y] /\ y # x
        BY <2>1, <2>3 DEF Of
      <3>2. Cleaned(y)
        BY <1>t, <2>1, <2>3, <3>1 DEF Cleaned, TypeOK
      <3>3. PICK v \in Workers : HasWritten(v) /\ DocOf(v) = ddoc[y] /\ a = Attempt(v)
        BY <3>1, <3>2 DEF LeftByWorkers
      <3> QED BY <2>1, <3>3 DEF HasWritten, DocOf, Attempt
    <2> QED BY <1>2, <2>2, <2>3 DEF DeleteVectors
  <1>3. ASSUME NEW x \in Deleters,
               \/ DeleteMark(x) \/ DeleteRows(x) \/ DeleteES(x)
               \/ DeleteObject(x) \/ DeleteCommit(x)
               \/ \E d \in Docs : DeleteCheck(x, d)
        PROVE  LeftByWorkers'
    <2>1. UNCHANGED <<vectors, retryCount, wpc, wjob>>
      BY <1>3 DEF DeleteMark, DeleteRows, DeleteES, DeleteObject, DeleteCommit,
           DeleteCheck, indexVars, jobVars, workerVars
    <2>2. \A y \in Deleters : Cleaned(y)' => Cleaned(y) /\ ddoc'[y] = ddoc[y]
      BY <1>3, <1>t DEF DeleteMark, DeleteRows, DeleteES, DeleteObject,
           DeleteCommit, DeleteCheck, AdvanceDelete, ReleaseDelete, TypeOK, Cleaned
    <2> QED BY <1>a, <2>1, <2>2 DEF HasWritten
  <1>4. CASE \/ \E d \in Docs : Upload(d)
             \/ \E r \in Retriers, d \in Docs : RetryCheck(r, d)
             \/ \E r \in Retriers : RetryCommit(r)
             \/ \E j \in Jobs : BackoffEnds(j)
             \/ UNCHANGED vars
    <2>1. UNCHANGED <<vectors, retryCount, wpc, wjob, dpc, ddoc, dclean>>
      BY <1>4 DEF Upload, CreateJob, RetryCheck, RetryCommit, BackoffEnds, vars,
           indexVars, jobVars, workerVars, deleteVars
    <2> QED BY <1>a, <2>1 DEF HasWritten, Cleaned
  <1> QED BY <1>s, <1>1, <1>2, <1>3, <1>4
           DEF Next, DeleteContinues, WorkerAborts, DeleteAborts, Deadlock,
               RollbackWorker, RollbackDelete, Crash

\* Without a rollback, every step keeps the leftovers of a clean delete charged.
LEMMA OnePerWorkerStep ==
  ASSUME IInv, LeftByWorkers, OnePerWorker, [Next]_vars, rollbacks' = 0
  PROVE  OnePerWorker'
  <1>t. TypeOK
    BY DEF IInv
  <1>s. ~CountRollback
    BY <1>t, ConstantsAssumption DEF TypeOK, CountRollback
  \* A step that reports nothing, writes no vector and begins no attempt of a
  \* deleted document.
  <1>a. ASSUME response' = response, docDeleted' = docDeleted,
               vectors' \subseteq vectors,
               \A w \in Workers : WillWrite(w)' =>
                 /\ wpc[w] # "idle" /\ wjob'[w] = wjob[w]
                 /\ WillWrite(w) \/ ~docDeleted[DocOf(w)]
        PROVE  OnePerWorker'
    <2> SUFFICES ASSUME NEW d \in Docs, response'[d] = "clean"
                 PROVE  docDeleted'[d] /\ Charged(d)'
      BY DEF OnePerWorker
    <2>1. docDeleted[d] /\ Charged(d)
      BY <1>a DEF OnePerWorker
    <2>2. \A w \in Workers : WillWrite(w)' => DocOf(w)' = DocOf(w)
      BY <1>a, DocStays
    <2>3. \A w \in Workers : WillWrite(w)' /\ DocOf(w)' = d =>
                             WillWrite(w) /\ DocOf(w) = d
      BY <1>a, <2>1, <2>2
    <2> QED BY <1>a, <2>1, <2>3, ChargedStays
  <1>1. ASSUME NEW w \in Workers, WorkerNext(w) PROVE OnePerWorker'
    <2>0. UNCHANGED <<docDeleted, response>>
      BY <1>1 DEF WorkerNext, Claim, Load, RejectDeleted, MarkProcessing, Extract,
           SaveChunks, AddVectors, IndexES, StepFails, FinishReady, FinishFailed,
           CommitAttempt, docVars, deleteVars
    <2>1. CASE \/ Claim(w) \/ Load(w) \/ MarkProcessing(w) \/ Extract(w)
               \/ SaveChunks(w) \/ IndexES(w) \/ StepFails(w)
      BY <1>a, <1>t, <2>0, <2>1 DEF Claim, Load, MarkProcessing, Extract,
           SaveChunks, IndexES, StepFails, Advance, indexVars, TypeOK, WillWrite
    <2>2. CASE RejectDeleted(w) \/ FinishReady(w) \/ FinishFailed(w)
      BY <1>a, <1>t, <2>0, <2>2 DEF RejectDeleted, FinishReady, FinishFailed,
           CommitAttempt, Release, indexVars, TypeOK, WillWrite
    <2>3. CASE AddVectors(w) /\ vectors' = vectors
      BY <1>a, <1>t, <2>0, <2>3 DEF AddVectors, Advance, TypeOK, WillWrite
    <2>4. CASE AddVectors(w) /\ vectors' # vectors
      BY <2>0, <2>4, WriteCharges DEF OnePerWorker
    <2> QED BY <1>1, <2>1, <2>2, <2>3, <2>4 DEF WorkerNext
  <1>2. ASSUME NEW x \in Deleters, DeleteCommit(x) PROVE OnePerWorker'
    <2>1. /\ dpc[x] = "object" /\ UNCHANGED <<vectors, wpc, wjob, jobDoc>>
          /\ docDeleted' = [docDeleted EXCEPT ![ddoc[x]] = TRUE]
          /\ response' = [response EXCEPT ![ddoc[x]] =
                            IF dclean[x] THEN "clean" ELSE "partial"]
      BY <1>2 DEF DeleteCommit, workerVars, jobVars
    <2> SUFFICES ASSUME NEW d \in Docs, response'[d] = "clean"
                 PROVE  docDeleted'[d] /\ Charged(d)'
      BY DEF OnePerWorker
    <2>2. CASE d = ddoc[x]
      <3>1. Cleaned(x) /\ docDeleted'[d]
        BY <1>t, <2>1, <2>2 DEF TypeOK, Cleaned
      <3> QED BY <2>1, <2>2, <3>1, CommitCharges, ChargedStays
               DEF WillWrite, DocOf
    <2>3. CASE d # ddoc[x]
      <3>1. docDeleted'[d] /\ Charged(d)
        BY <1>t, <2>1, <2>3 DEF TypeOK, OnePerWorker
      <3> QED BY <2>1, <3>1, ChargedStays DEF WillWrite, DocOf
    <2> QED BY <2>2, <2>3
  <1>3. CASE \E x \in Deleters :
               \/ DeleteMark(x) \/ DeleteRows(x) \/ DeleteVectors(x)
               \/ DeleteES(x) \/ DeleteObject(x)
               \/ \E d \in Docs : DeleteCheck(x, d)
    <2>1. UNCHANGED <<docDeleted, response, wpc, wjob>> /\ vectors' \subseteq vectors
      BY <1>3 DEF DeleteMark, DeleteRows, DeleteVectors, DeleteES, DeleteObject,
           DeleteCheck, docVars, indexVars, workerVars
    <2> QED BY <1>a, <2>1 DEF WillWrite
  <1>4. CASE \/ \E d \in Docs : Upload(d)
             \/ \E r \in Retriers, d \in Docs : RetryCheck(r, d)
             \/ \E r \in Retriers : RetryCommit(r)
             \/ \E j \in Jobs : BackoffEnds(j)
             \/ UNCHANGED vars
    <2>1. UNCHANGED <<docDeleted, response, wpc, wjob, vectors>>
      BY <1>4 DEF Upload, CreateJob, RetryCheck, RetryCommit, BackoffEnds, vars,
           docVars, indexVars, workerVars, deleteVars
    <2> QED BY <1>a, <2>1 DEF WillWrite
  <1> QED BY <1>s, <1>1, <1>2, <1>3, <1>4
           DEF Next, DeleteContinues, WorkerAborts, DeleteAborts, Deadlock,
               RollbackWorker, RollbackDelete, Crash

\* A cleanup that reported success, without a rollback, leaves at most one
\* attempt's vectors per worker, however many jobs, retries and deletes the
\* document has had (process is past its deleted check when delete runs).
THEOREM LeftoversStayBounded == Spec => []LeftoversBounded
  <1>1. Init => Leftovers
    BY DEF Init, Leftovers, LeftByWorkers, OnePerWorker
  <1>2. IInv /\ Leftovers /\ [Next]_vars => Leftovers'
    <2> SUFFICES ASSUME IInv, Leftovers, [Next]_vars, rollbacks' = 0
                 PROVE  LeftByWorkers' /\ OnePerWorker'
      BY DEF Leftovers
    <2>1. rollbacks = 0
      BY ConstantsAssumption DEF IInv, TypeOK, CountRollback, Next, vars, docVars,
         jobVars, indexVars, workerVars, deleteVars, Upload, RetryCheck,
         RetryCommit, WorkerNext, Claim, Load, RejectDeleted, MarkProcessing,
         Extract, SaveChunks, AddVectors, IndexES, StepFails, FinishReady,
         FinishFailed, CommitAttempt, BackoffEnds, DeleteCheck, DeleteContinues,
         DeleteMark, DeleteRows, DeleteVectors, DeleteES, DeleteObject,
         DeleteCommit, Deadlock, WorkerAborts, DeleteAborts, RollbackWorker,
         RollbackDelete, Crash
    <2> QED BY <2>1, LeftByWorkersStep, OnePerWorkerStep DEF Leftovers
  <1>3. IInv /\ Leftovers => LeftoversBounded
    <2> SUFFICES ASSUME IInv, Leftovers, NEW d \in Docs, response[d] = "clean",
                        rollbacks = 0
                 PROVE  Cardinality(Of(vectors, d)) <= Cardinality(Workers)
      BY DEF LeftoversBounded
    <2>1. PICK f \in Injection(VectorsOf(d), Workers) : TRUE
      BY DEF Leftovers, OnePerWorker, Charged
    <2>2. Cardinality(VectorsOf(d)) <= Cardinality(Workers)
      BY <2>1, FS_Injection, ConstantsAssumption
    <2>3. VectorsOf(d) = Of(vectors, d)
      BY DEF VectorsOf, Of
    <2> QED BY <2>2, <2>3
  <1> QED BY <1>1, <1>2, <1>3, Invariance, PTL DEF Spec

-----------------------------------------------------------------------------
(* DocumentIngestion implements JobQueue, step by step.                    *)

\* The queue's state of a job in the other states.
Unheld(s) ==
  CASE s = "ABSENT" -> "absent" [] s = "PENDING" -> "waiting"
    [] s = "RUNNING" -> "lost" [] s = "SUCCEEDED" -> "done"
    [] s = "FAILED" -> "dead"

\* The mapping, before and after a step.
LEMMA States ==
  ASSUME TypeOK, TypeOK', NEW j \in Jobs
  PROVE  /\ QueueState(j) = IF Held(j) THEN "leased" ELSE Unheld(jobStatus[j])
         /\ QueueState(j)' = IF Held(j)' THEN "leased" ELSE Unheld(jobStatus'[j])
  BY DEF QueueState, Unheld, TypeOK, JobStatuses

\* A held job has one worker, which is not idle.
LEMMA Holders ==
  ASSUME IInv, NEW j \in Jobs
  PROVE  /\ \A w \in Workers : wjob[w] = j => wpc[w] # "idle" /\ QueueHolder(j) = w
         /\ ~Held(j) => QueueHolder(j) = NoDoc
  <1>1. ASSUME NEW w \in Workers, wjob[w] = j
        PROVE  wpc[w] # "idle" /\ QueueHolder(j) = w
    <2>1. wpc[w] # "idle"
      BY <1>1 DEF IInv, LeaseInvariant, IdleHoldsNothing, Jobs
    <2>2. \A v \in Workers : wjob[v] = j => v = w
      BY <1>1, <2>1 DEF IInv, LeaseInvariant, JobHeldOnce
    <2>3. Held(j)
      BY <1>1 DEF Held
    <2> QED BY <1>1, <2>1, <2>2, <2>3 DEF QueueHolder
  <1> QED BY <1>1 DEF QueueHolder

LEMMA HoldersAfter ==
  ASSUME IInv', NEW j \in Jobs
  PROVE  /\ \A w \in Workers : wjob'[w] = j => wpc'[w] # "idle" /\ QueueHolder(j)' = w
         /\ ~Held(j)' => QueueHolder(j)' = NoDoc
  <1>1. ASSUME NEW w \in Workers, wjob'[w] = j
        PROVE  wpc'[w] # "idle" /\ QueueHolder(j)' = w
    <2>1. wpc'[w] # "idle"
      BY <1>1 DEF IInv, LeaseInvariant, IdleHoldsNothing, Jobs
    <2>2. \A v \in Workers : wjob'[v] = j => v = w
      BY <1>1, <2>1 DEF IInv, LeaseInvariant, JobHeldOnce
    <2>3. Held(j)'
      BY <1>1 DEF Held
    <2> QED BY <1>1, <2>1, <2>2, <2>3 DEF QueueHolder
  <1> QED BY <1>1 DEF QueueHolder

\* A job whose row and workers do not change is the same to the queue.
LEMMA JobFrame ==
  ASSUME IInv, IInv', NEW j \in Jobs,
         \A w \in Workers : wjob'[w] = j <=> wjob[w] = j
  PROVE  /\ Held(j)' <=> Held(j)
         /\ QueueHolder(j)' = QueueHolder(j)
         /\ jobStatus'[j] = jobStatus[j] => QueueState(j)' = QueueState(j)
  <1>1. Held(j)' <=> Held(j)
    BY DEF Held
  <1>2. QueueHolder(j)' = QueueHolder(j)
    <2>1. CASE Held(j)
      <3>1. PICK w \in Workers : wjob[w] = j
        BY <2>1 DEF Held
      <3> QED BY <3>1, Holders, HoldersAfter
    <2>2. CASE ~Held(j)
      BY <1>1, <2>2, Holders, HoldersAfter
    <2> QED BY <2>1, <2>2
  <1>3. TypeOK /\ TypeOK'
    BY DEF IInv
  <1> QED BY <1>1, <1>2, <1>3, States

\* A step that changes no job's status, retries or holder is a stutter of the queue.
LEMMA QueueStutters ==
  ASSUME IInv, IInv', retryCount' = retryCount,
         \A j \in Jobs : QueueState(j)' = QueueState(j) /\ QueueHolder(j)' = QueueHolder(j)
  PROVE  UNCHANGED Queue!vars
  BY DEF Queue!vars

LEMMA NothingMoves ==
  ASSUME IInv, IInv', UNCHANGED <<jobStatus, retryCount, wjob>>
  PROVE  UNCHANGED Queue!vars
  BY JobFrame, QueueStutters

\* A row is inserted: the queue gets a job.
LEMMA CreateIsSubmit ==
  ASSUME IInv, IInv', NEW j \in Jobs, NEW d, CreateJob(j, d), UNCHANGED wjob
  PROVE  Queue!Submit(j)
  <1>1. \A k \in Jobs : /\ Held(k)' <=> Held(k)
                        /\ QueueHolder(k)' = QueueHolder(k)
                        /\ jobStatus'[k] = jobStatus[k] => QueueState(k)' = QueueState(k)
    BY JobFrame
  <1>2. jobStatus[j] = "ABSENT" /\ jobStatus' = [jobStatus EXCEPT ![j] = "PENDING"]
        /\ retryCount' = retryCount
    BY DEF CreateJob, NextJob
  <1>3. ~Held(j)
    <2>1. \A w \in Workers : wjob[w] = j => wpc[w] # "idle"
      BY Holders
    <2> QED BY <1>2, <2>1 DEF Held, IInv, LeaseInvariant, JobHeldOnce
  <1>4. TypeOK /\ TypeOK' /\ jobStatus'[j] = "PENDING"
        /\ \A k \in Jobs : k # j => jobStatus'[k] = jobStatus[k]
    BY <1>2 DEF IInv, TypeOK
  <1>5. QueueState(j) = "absent" /\ QueueState(j)' = "waiting"
    BY <1>1, <1>2, <1>3, <1>4, States DEF Unheld
  <1>6. \A k \in Jobs : k # j => QueueState(k)' = QueueState(k)
    BY <1>1, <1>4
  <1> QED BY <1>1, <1>2, <1>5, <1>6 DEF Queue!Submit

\* The poll query claims a job: a lease.
LEMMA ClaimIsLease ==
  ASSUME IInv, IInv', NEW w \in Workers, Claim(w)
  PROVE  \E j \in Jobs : Queue!Lease(j, w)
  <1>1. PICK j \in Jobs : Claimable(j) /\ wjob' = [wjob EXCEPT ![w] = j]
    BY DEF Claim
  <1>2. wjob[w] = 0 /\ wjob \in [Workers -> Jobs \cup {0}]
    BY DEF Claim, Advance, IInv, LeaseInvariant, IdleHoldsNothing, TypeOK
  <1>3. \A k \in Jobs : k # j => /\ QueueHolder(k)' = QueueHolder(k)
                                 /\ QueueState(k)' = QueueState(k)
    <2> SUFFICES ASSUME NEW k \in Jobs, k # j
                 PROVE  QueueHolder(k)' = QueueHolder(k) /\ QueueState(k)' = QueueState(k)
      OBVIOUS
    <2>1. \A v \in Workers : wjob'[v] = k <=> wjob[v] = k
      BY <1>1, <1>2 DEF Jobs
    <2>2. jobStatus'[k] = jobStatus[k]
      BY DEF Claim, jobVars
    <2> QED BY <2>1, <2>2, JobFrame
  <1>4. wjob'[w] = j /\ Held(j)' /\ ~Held(j) /\ jobStatus[j] = "PENDING"
    BY <1>1, <1>2 DEF Held, Claimable
  <1>5. QueueState(j) = "waiting" /\ QueueState(j)' = "leased" /\ QueueHolder(j)' = w
    <2>1. TypeOK /\ TypeOK'
      BY DEF IInv
    <2>2. QueueHolder(j)' = w
      BY <1>4, HoldersAfter
    <2> QED BY <1>4, <2>1, <2>2, States DEF Unheld
  <1>6. \A k \in Jobs : QueueHolder(k) # w
    <2> SUFFICES ASSUME NEW k \in Jobs PROVE QueueHolder(k) # w
      OBVIOUS
    <2>1. CASE Held(k)
      <3>1. PICK v \in Workers : wjob[v] = k
        BY <2>1 DEF Held
      <3>2. QueueHolder(k) = v /\ v # w
        BY <1>2, <3>1, Holders DEF Jobs
      <3> QED BY <3>2
    <2>2. CASE ~Held(k)
      BY <2>2, Holders, ConstantsAssumption DEF ConstantsAssumption
    <2> QED BY <2>1, <2>2
  <1>7. retryCount' = retryCount
    BY DEF Claim, jobVars
  <1> QED BY <1>3, <1>5, <1>6, <1>7 DEF Queue!Lease

\* A worker lets its job go: nobody holds it any more, the others stay.
LEMMA Released ==
  ASSUME IInv, IInv', NEW w \in Workers, wpc[w] # "idle", Release(w),
         NEW j, j = wjob[w]
  PROVE  /\ j \in Jobs
         /\ QueueState(j) = "leased" /\ QueueHolder(j) = w
         /\ QueueState(j)' = Unheld(jobStatus'[j]) /\ QueueHolder(j)' = NoDoc
         /\ \A k \in Jobs : k # j =>
              /\ QueueHolder(k)' = QueueHolder(k) /\ QueueHolder(k) # w
              /\ jobStatus'[k] = jobStatus[k] => QueueState(k)' = QueueState(k)
  <1>1. j \in Jobs /\ wjob \in [Workers -> Jobs \cup {0}] /\ 0 \notin Jobs
    BY HeldJob DEF IInv, TypeOK, Jobs
  <1>2. \A v \in Workers : wjob'[v] = IF v = w THEN 0 ELSE wjob[v]
    BY <1>1 DEF Release
  <1>3. \A v \in Workers : v # w => wjob[v] # j
    BY DEF IInv, LeaseInvariant, JobHeldOnce
  <1>4. TypeOK /\ TypeOK'
    BY DEF IInv
  <1>5. Held(j) /\ ~Held(j)'
    BY <1>1, <1>2, <1>3 DEF Held
  <1>6. QueueState(j) = "leased" /\ QueueHolder(j) = w
    BY <1>1, <1>4, <1>5, States, Holders
  <1>7. QueueState(j)' = Unheld(jobStatus'[j]) /\ QueueHolder(j)' = NoDoc
    BY <1>1, <1>4, <1>5, States, HoldersAfter
  <1>8. ASSUME NEW k \in Jobs, k # j
        PROVE  /\ QueueHolder(k)' = QueueHolder(k) /\ QueueHolder(k) # w
               /\ jobStatus'[k] = jobStatus[k] => QueueState(k)' = QueueState(k)
    <2>1. \A v \in Workers : wjob'[v] = k <=> wjob[v] = k
      BY <1>1, <1>2, <1>8
    <2>2. QueueHolder(k) # w
      <3>1. CASE Held(k)
        <4>1. PICK v \in Workers : wjob[v] = k
          BY <3>1 DEF Held
        <4>2. QueueHolder(k) = v /\ v # w
          BY <1>8, <4>1, Holders
        <4> QED BY <4>2
      <3>2. CASE ~Held(k)
        BY <3>2, Holders, ConstantsAssumption
      <3> QED BY <3>1, <3>2
    <2> QED BY <2>1, <2>2, JobFrame
  <1> QED BY <1>1, <1>6, <1>7, <1>8

\* An attempt fails: so does the lease, and the last one kills the job.
LEMMA FailureIsFail ==
  ASSUME IInv, IInv', NEW w \in Workers, wpc[w] # "idle", Release(w),
         NEW j, j = wjob[w], JobFails(j)
  PROVE  j \in Jobs /\ Queue!Fail(j)
  <1>1. retryCount[j] + 1 \in 1..MaxRetries /\ MaxRetries \in Nat \ {0}
    BY HeldJob, ConstantsAssumption
  <1>2. /\ jobStatus \in [Jobs -> JobStatuses]
        /\ retryCount \in [Jobs -> 0..MaxRetries]
    BY DEF IInv, TypeOK
  <1>3. j \in Jobs
    BY Released
  <1>4. \A k \in Jobs : k # j => jobStatus'[k] = jobStatus[k]
    BY <1>2, <1>3 DEF JobFails
  <1>5. retryCount' = [retryCount EXCEPT ![j] = @ + 1] /\ retryCount'[j] = retryCount[j] + 1
    BY <1>2, <1>3 DEF JobFails
  <1>6. jobStatus'[j] = IF retryCount'[j] = MaxRetries THEN "FAILED" ELSE "PENDING"
    BY <1>1, <1>2, <1>3, <1>5 DEF JobFails
  <1>7. QueueState(j)' = IF retryCount'[j] = MaxRetries THEN "dead" ELSE "waiting"
    BY <1>6, Released DEF Unheld
  <1>8. /\ QueueState(j) = "leased" /\ QueueHolder(j)' = NoDoc
        /\ \A k \in Jobs : k # j => QueueState(k)' = QueueState(k)
                                    /\ QueueHolder(k)' = QueueHolder(k)
    BY <1>4, Released
  <1> QED BY <1>3, <1>5, <1>7, <1>8 DEF Queue!Fail, Queue!EndLease

\* READY and SUCCEEDED are committed: the lease succeeds.
LEMMA FinishIsSucceed ==
  ASSUME IInv, IInv', NEW w \in Workers, FinishReady(w), NEW j, j = wjob[w]
  PROVE  j \in Jobs /\ Queue!Succeed(j)
  <1>1. wpc[w] # "idle" /\ Release(w)
    BY DEF FinishReady, CommitAttempt
  <1>2. j \in Jobs /\ jobStatus \in [Jobs -> JobStatuses]
    BY <1>1, Released DEF IInv, TypeOK
  <1>3. jobStatus'[j] = "SUCCEEDED" /\ retryCount' = retryCount
        /\ \A k \in Jobs : k # j => jobStatus'[k] = jobStatus[k]
    BY <1>2 DEF FinishReady
  <1>4. QueueState(j) = "leased" /\ QueueState(j)' = "done" /\ QueueHolder(j)' = NoDoc
    BY <1>1, <1>3, Released DEF Unheld
  <1>5. \A k \in Jobs : k # j => QueueState(k)' = QueueState(k)
                                /\ QueueHolder(k)' = QueueHolder(k)
    BY <1>1, <1>3, Released
  <1> QED BY <1>2, <1>3, <1>4, <1>5 DEF Queue!Succeed, Queue!EndLease

\* PROCESSING and RUNNING are committed: the lease goes on.
LEMMA MarkProcessingStutters ==
  ASSUME IInv, IInv', NEW w \in Workers, MarkProcessing(w)
  PROVE  UNCHANGED Queue!vars
  <1>1. wjob' = wjob /\ retryCount' = retryCount /\ TypeOK /\ TypeOK'
    BY DEF MarkProcessing, IInv
  <1>2. \A k \in Jobs : k # wjob[w] => jobStatus'[k] = jobStatus[k]
    BY <1>1 DEF MarkProcessing, TypeOK
  <1>3. \A k \in Jobs : k = wjob[w] => Held(k)
    BY DEF Held
  <1>4. ASSUME NEW k \in Jobs
        PROVE  QueueState(k)' = QueueState(k) /\ QueueHolder(k)' = QueueHolder(k)
    <2>1. Held(k)' <=> Held(k)
      BY <1>1 DEF Held
    <2>2. QueueHolder(k)' = QueueHolder(k)
      BY <1>1, JobFrame
    <2>3. QueueState(k)' = QueueState(k)
      BY <1>1, <1>2, <1>3, <2>1, JobFrame, States
    <2> QED BY <2>2, <2>3
  <1> QED BY <1>1, <1>4, QueueStutters

\* Transactions are rolled back: the leases of their workers are broken. A job
\* whose RUNNING was committed is lost, the others are waiting again.
LEMMA RollbackIsInterrupt ==
  ASSUME IInv, IInv', NEW ws \in SUBSET Workers,
         UNCHANGED <<jobStatus, retryCount>>,
         \A v \in Workers : wjob'[v] = IF v \in ws THEN 0 ELSE wjob[v]
  PROVE  UNCHANGED Queue!vars \/ Queue!Interrupt(ws)
  <1> DEFINE Broken == {k \in Jobs : QueueHolder(k) \in ws}
             Lost == {k \in Broken : jobStatus[k] = "RUNNING"}
  <1>1. TypeOK /\ TypeOK' /\ 0 \notin Jobs
    BY DEF IInv, Jobs
  <1>2. ASSUME NEW k \in Jobs
        PROVE  k \in Broken <=> \E v \in ws : wjob[v] = k
    <2>1. CASE Held(k)
      <3>1. PICK v \in Workers : wjob[v] = k
        BY <2>1 DEF Held
      <3>2. QueueHolder(k) = v /\ \A u \in Workers : wjob[u] = k => u = v
        BY <3>1, Holders
      <3> QED BY <3>1, <3>2
    <2>2. CASE ~Held(k)
      BY <2>2, Holders, ConstantsAssumption DEF Held
    <2> QED BY <2>1, <2>2
  <1>3. ASSUME NEW k \in Jobs, k \notin Broken
        PROVE  QueueState(k)' = QueueState(k) /\ QueueHolder(k)' = QueueHolder(k)
    <2>1. \A v \in Workers : wjob'[v] = k <=> wjob[v] = k
      BY <1>1, <1>2, <1>3
    <2> QED BY <2>1, JobFrame
  <1>4. ASSUME NEW k \in Broken
        PROVE  /\ QueueState(k)' = IF k \in Lost THEN "lost" ELSE "waiting"
               /\ QueueHolder(k)' = NoDoc
    <2>1. PICK w \in ws : wjob[w] = k
      BY <1>2
    <2>2. \A u \in Workers : wjob[u] = k => u = w /\ wpc[u] # "idle"
      BY <2>1, Holders
    <2>3. jobStatus[k] \in {"PENDING", "RUNNING"}
      BY <2>1, <2>2, HeldJob
    <2>4. ~Held(k)'
      BY <1>1, <2>1, <2>2 DEF Held
    <2>5. QueueState(k)' = Unheld(jobStatus[k]) /\ QueueHolder(k)' = NoDoc
      BY <1>1, <2>4, States, HoldersAfter
    <2> QED BY <2>3, <2>5 DEF Unheld
  <1>5. CASE Broken = {}
    BY <1>3, <1>5, QueueStutters
  <1>6. CASE Broken # {}
    <2>1. Lost \in SUBSET Broken
      OBVIOUS
    <2>2. [j \in Jobs |-> QueueState(j)]' =
            [j \in Jobs |-> CASE j \in Lost -> "lost"
                              [] j \in Broken \ Lost -> "waiting"
                              [] OTHER -> QueueState(j)]
      BY <1>3, <1>4
    <2>3. [j \in Jobs |-> QueueHolder(j)]' =
            [j \in Jobs |-> IF j \in Broken THEN NoDoc ELSE QueueHolder(j)]
      BY <1>3, <1>4
    <2>4. Broken = {k \in Jobs : [j \in Jobs |-> QueueHolder(j)][k] \in ws}
      OBVIOUS
    <2> HIDE DEF Broken, Lost
    <2> QED BY <1>6, <2>1, <2>2, <2>3, <2>4 DEF Queue!Interrupt
  <1> QED BY <1>5, <1>6

\* One worker's transaction is rolled back.
LEMMA OneRollback ==
  ASSUME IInv, IInv', NEW w \in Workers, RollbackWorker(w)
  PROVE  [Queue!Next]_(Queue!vars)
  <1>1. UNCHANGED <<jobStatus, retryCount>>
    BY DEF RollbackWorker, jobVars
  <1>2. \A v \in Workers : wjob'[v] = IF v \in {w} THEN 0 ELSE wjob[v]
    BY DEF RollbackWorker, Release, IInv, TypeOK
  <1>3. UNCHANGED Queue!vars \/ Queue!Interrupt({w})
    BY <1>1, <1>2, RollbackIsInterrupt
  <1> QED BY <1>3 DEF Queue!Next

\* The process dies: every lease is broken at once.
LEMMA CrashInterrupts ==
  ASSUME IInv, IInv', Crash
  PROVE  [Queue!Next]_(Queue!vars)
  <1>1. UNCHANGED <<jobStatus, retryCount>>
    BY DEF Crash, jobVars
  <1>2. \A v \in Workers : wjob'[v] = IF v \in Workers THEN 0 ELSE wjob[v]
    BY DEF Crash
  <1>3. UNCHANGED Queue!vars \/ Queue!Interrupt(Workers)
    BY <1>1, <1>2, RollbackIsInterrupt
  <1> QED BY <1>3 DEF Queue!Next

\* Each step of a worker is a step of the queue or a stutter.
LEMMA WorkerRefines ==
  ASSUME IInv, IInv', NEW w \in Workers, WorkerNext(w)
  PROVE  [Queue!Next]_(Queue!vars)
  <1>1. CASE Claim(w)
    BY <1>1, ClaimIsLease DEF Queue!Next
  <1>2. CASE RejectDeleted(w)
    <2>1. wpc[w] # "idle" /\ Release(w) /\ JobFails(wjob[w])
      BY <1>2 DEF RejectDeleted
    <2> QED BY <2>1, FailureIsFail DEF Queue!Next
  <1>3. CASE FinishFailed(w)
    <2>1. wpc[w] # "idle" /\ Release(w) /\ JobFails(wjob[w])
      BY <1>3 DEF FinishFailed, CommitAttempt
    <2> QED BY <2>1, FailureIsFail DEF Queue!Next
  <1>4. CASE FinishReady(w)
    BY <1>4, FinishIsSucceed DEF Queue!Next
  <1>5. CASE MarkProcessing(w)
    BY <1>5, MarkProcessingStutters
  <1>6. CASE \/ Load(w) \/ Extract(w) \/ SaveChunks(w) \/ AddVectors(w)
             \/ IndexES(w) \/ StepFails(w)
    <2>1. UNCHANGED <<jobStatus, retryCount, wjob>>
      BY <1>6 DEF Load, Extract, SaveChunks, AddVectors, IndexES, StepFails,
                  jobVars
    <2> QED BY <2>1, NothingMoves
  <1> QED BY <1>1, <1>2, <1>3, <1>4, <1>5, <1>6 DEF WorkerNext

\* Each step of a request is a step of the queue or a stutter.
LEMMA RequestsRefine ==
  ASSUME IInv, IInv',
         \/ \E d \in Docs : Upload(d)
         \/ \E r \in Retriers, d \in Docs : RetryCheck(r, d)
         \/ \E r \in Retriers : RetryCommit(r)
         \/ \E j \in Jobs : BackoffEnds(j)
         \/ \E x \in Deleters, d \in Docs : DeleteCheck(x, d)
         \/ \E x \in Deleters : DeleteContinues(x)
         \/ \E x \in Deleters : RollbackDelete(x)
  PROVE  [Queue!Next]_(Queue!vars)
  <1>1. CASE \E d \in Docs : Upload(d)
    <2>1. PICK d \in Docs : Upload(d)
      BY <1>1
    <2>2. PICK j \in Jobs : CreateJob(j, d)
      BY <2>1 DEF Upload
    <2>3. UNCHANGED wjob
      BY <2>1 DEF Upload, workerVars
    <2> QED BY <2>2, <2>3, CreateIsSubmit DEF Queue!Next
  <1>2. CASE \E r \in Retriers : RetryCommit(r)
    <2>1. PICK r \in Retriers : RetryCommit(r)
      BY <1>2
    <2>2. PICK j \in Jobs : CreateJob(j, retrying[r])
      BY <2>1 DEF RetryCommit
    <2>3. UNCHANGED wjob
      BY <2>1 DEF RetryCommit, workerVars
    <2> QED BY <2>2, <2>3, CreateIsSubmit DEF Queue!Next
  <1>3. CASE \/ \E r \in Retriers, d \in Docs : RetryCheck(r, d)
             \/ \E j \in Jobs : BackoffEnds(j)
             \/ \E x \in Deleters, d \in Docs : DeleteCheck(x, d)
             \/ \E x \in Deleters : RollbackDelete(x)
    <2>1. UNCHANGED <<jobStatus, retryCount, wjob>>
      BY <1>3 DEF RetryCheck, BackoffEnds, DeleteCheck, RollbackDelete,
                  jobVars, workerVars
    <2> QED BY <2>1, NothingMoves
  <1>4. CASE \E x \in Deleters : DeleteContinues(x)
    <2>1. UNCHANGED <<jobStatus, retryCount, wjob>>
      BY <1>4 DEF DeleteContinues, DeleteMark, DeleteRows, DeleteVectors,
                  DeleteES, DeleteObject, DeleteCommit, jobVars, workerVars
    <2> QED BY <2>1, NothingMoves
  <1> QED BY <1>1, <1>2, <1>3, <1>4

-----------------------------------------------------------------------------

\* The worker, with its transactions, row locks, crashes and database errors,
\* implements the queue: a job is leased to one worker at a time, fails at most
\* max_retries times, ends at most once, and a broken lease returns the job or
\* loses it for good (_poll_loop, _execute_job, start).
THEOREM WorkerImplementsQueue == Spec => ImplementsQueue
  <1>1. Init => Queue!Init
    <2> SUFFICES ASSUME Init PROVE Queue!Init
      OBVIOUS
    <2>1. \A j \in Jobs : /\ jobStatus[j] = "ABSENT" /\ retryCount[j] = 0
                          /\ ~Held(j)
      BY DEF Init, Held, Jobs
    <2>2. \A j \in Jobs : QueueState(j) = "absent" /\ QueueHolder(j) = NoDoc
      BY <2>1 DEF QueueState, QueueHolder
    <2>3. retryCount = [j \in Jobs |-> 0]
      BY DEF Init
    <2> QED BY <2>2, <2>3 DEF Queue!Init
  <1>2. IInv /\ IInv' /\ [Next]_vars => [Queue!Next]_(Queue!vars)
    <2> SUFFICES ASSUME IInv, IInv', [Next]_vars PROVE [Queue!Next]_(Queue!vars)
      OBVIOUS
    <2>1. CASE UNCHANGED vars
      BY <2>1, NothingMoves DEF vars, jobVars, workerVars
    <2>2. CASE \E w \in Workers : WorkerNext(w)
      BY <2>2, WorkerRefines
    <2>3. CASE \E w \in Workers : RollbackWorker(w)
      BY <2>3, OneRollback
    <2>4. CASE Crash
      BY <2>4, CrashInterrupts
    <2>5. CASE \E x \in Deleters : RollbackDelete(x)
      BY <2>5, RequestsRefine
    <2>6. CASE \E x \in Deleters, w \in Workers : Deadlock(x, w)
      BY <2>3, <2>5, <2>6 DEF Deadlock
    <2>7. CASE \E w \in Workers : WorkerAborts(w)
      BY <2>3, <2>7 DEF WorkerAborts
    <2>8. CASE \E x \in Deleters : DeleteAborts(x)
      BY <2>5, <2>8 DEF DeleteAborts
    <2> QED BY <2>1, <2>2, <2>4, <2>6, <2>7, <2>8, RequestsRefine DEF Next
  <1> QED BY <1>1, <1>2, Invariance, PTL DEF Spec, ImplementsQueue, Queue!Spec

=============================================================================
