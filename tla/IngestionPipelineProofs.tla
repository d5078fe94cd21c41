----------------------- MODULE IngestionPipelineProofs -----------------------
(* The refinement of IngestionJobs, and the invariants, proved for every     *)
(* number of jobs, workers, attempts, crashes and uploads, and for documents *)
(* of any length.                                                            *)
EXTENDS IngestionPipeline, TLAPS, FiniteSetTheorems

-----------------------------------------------------------------------------
(* Every step is a step of each part, or leaves it alone.                  *)

\* Only a COMMIT of a worker changes what the queue sees of the store: a
\* statement, a rollback and the whole of an upload leave it alone.
LEMMA QueueStep == [Next]_vars => [Queue!Next]_(Queue!vars)
  <1> SUFFICES ASSUME [Next]_vars PROVE [Queue!Next]_(Queue!vars)
    OBVIOUS
  <1>1. ASSUME NEW j \in Jobs, Request(j) \/ CrashRequest(j)
        PROVE  Queue!Next
    BY <1>1 DEF Request, CrashRequest, Queue!Next
  <1>2. ASSUME NEW w \in Workers, Handle(w) \/ Commit(w) \/ Raise(w) \/ Crash(w) \/ Restart(w)
        PROVE  Queue!Next
    BY <1>2 DEF Handle, Commit, Raise, Crash, Restart, Queue!Next, Queue!Work
  <1>3. ASSUME UNCHANGED <<queueVars, newest>>, committed' \cap Attempts = committed \cap Attempts
        PROVE  UNCHANGED Queue!vars
    BY <1>3 DEF queueVars, Queue!vars
  <1>4. ASSUME NEW w \in Workers, Begin(w) \/ Statement(w)
        PROVE  UNCHANGED Queue!vars
    BY <1>3, <1>4
    DEF Begin, Statement, Store!Begin, Store!Upsert, Store!DeleteChunks, Store!InsertChunk,
        Store!database
  <1>5. ASSUME NEW i \in Attempts, RollBack(i)
        PROVE  UNCHANGED Queue!vars
    BY <1>3, <1>5 DEF RollBack, Store!Raise, Store!database
  <1>6. ASSUME NEW u \in Uploads, Upload(u)
        PROVE  UNCHANGED Queue!vars
    <2>1. u \notin Attempts
      BY PipelineAssumption
    <2>2. committed' \cap Attempts = committed \cap Attempts
      BY <1>6, <2>1
      DEF Upload, Store!Begin, Store!Raise, Store!Advance, Store!Upsert, Store!DeleteChunks,
          Store!InsertChunk, Store!Commit, Store!RecordIngested, Store!database
    <2> QED BY <1>3, <1>6, <2>2 DEF Upload
  <1>7. ASSUME UNCHANGED vars
        PROVE  UNCHANGED Queue!vars
    BY <1>7 DEF vars, queueVars, storeVars, Queue!vars
  <1> QED BY <1>1, <1>2, <1>4, <1>5, <1>6, <1>7 DEF Next, Work

\* Seen from the store, attempts and uploads are calls of ingest alike.
LEMMA StoreStep == [Next]_vars => [Store!Next]_(Store!vars)
  <1> SUFFICES ASSUME [Next]_vars PROVE [Store!Next]_(Store!vars)
    OBVIOUS
  <1>1. ASSUME UNCHANGED storeVars
        PROVE  UNCHANGED Store!vars
    BY <1>1 DEF storeVars, Store!vars
  <1>2. ASSUME NEW j \in Jobs, Request(j) \/ CrashRequest(j)
        PROVE  UNCHANGED Store!vars
    BY <1>1, <1>2 DEF Request, CrashRequest
  <1>3. ASSUME NEW w \in Workers, Handle(w) \/ Crash(w) \/ Restart(w)
        PROVE  UNCHANGED Store!vars
    BY <1>1, <1>3 DEF Handle, Crash, Restart
  <1>4. ASSUME NEW w \in Workers, Begin(w)
        PROVE  Store!Next
    <2>1. PICK i \in Attempts : Store!Begin(i, PayloadOf[i[1]])
      BY <1>4 DEF Begin
    <2>2. PayloadOf[i[1]] \in Store!Upload
      BY PipelineAssumption DEF Attempts
    <2> QED BY <2>1, <2>2 DEF Store!Next
  <1>5. ASSUME NEW w \in Workers, Statement(w) \/ Commit(w)
        PROVE  Store!Next
    BY <1>5 DEF Statement, Commit, Store!Next, Store!Advance
  <1>6. ASSUME NEW w \in Workers, Raise(w)
        PROVE  [Store!Next]_(Store!vars)
    BY <1>1, <1>6 DEF Raise, Store!Next
  <1>7. ASSUME NEW i \in Attempts, RollBack(i)
        PROVE  Store!Next
    BY <1>7 DEF RollBack, Store!Next
  <1>8. ASSUME NEW u \in Uploads, Upload(u)
        PROVE  Store!Next
    <2>1. PayloadOf[u] \in Store!Upload
      BY PipelineAssumption
    <2> QED BY <1>8, <2>1 DEF Upload, Store!Next
  <1>9. ASSUME UNCHANGED vars
        PROVE  UNCHANGED Store!vars
    BY <1>1, <1>9 DEF vars
  <1> QED BY <1>2, <1>3, <1>4, <1>5, <1>6, <1>7, <1>8, <1>9 DEF Next, Work

\* Both parts begin in their initial states.
LEMMA InitParts == Init => Queue!Init /\ Store!Init
  BY DEF Init, Queue!Init, Store!Init

\* Running the statements of ingest one by one, with rollbacks, abandoned
\* transactions and uploads between them, keeps what IngestionJobs says of
\* run_document_job and of the queue.
THEOREM PipelineImplementsJobs == Spec => ImplementsJobs
  BY InitParts, QueueStep, PTL DEF Spec, ImplementsJobs, Queue!Spec

\* The statements the workers run are those of the document store, so that what
\* is proved of the store holds in the pipeline.
THEOREM PipelineImplementsStore == Spec => Store!Spec
  BY InitParts, StoreStep, PTL DEF Spec, Store!Spec

-----------------------------------------------------------------------------
(* The proved modules of both parts, with the pipeline's state in place of   *)
(* theirs, and their invariants in the pipeline.  A definition of a module   *)
(* means the same through either of its two instances; the lemmas named Same *)
(* say so, by unfolding both.                                                *)

QueueProofs == INSTANCE IngestionJobsProofs WITH
    DocumentOf <- [j \in Jobs |-> PayloadOf[j].document],
    NoJob <- Nothing,
    store <- newest,
    stored <- {i[1] : i \in committed \cap Attempts}

StoreProofs == INSTANCE DocumentStoreProofs WITH
    Ingests <- Attempts \cup Uploads, Searches <- {}, Limit <- 0,
    NoIngest <- Nothing, stored <- committed

LEMMA QueueInitSame == Queue!Init => QueueProofs!Init
  BY DEF Queue!Init, QueueProofs!Init

LEMMA QueueVarsSame == UNCHANGED Queue!vars => UNCHANGED QueueProofs!vars
  BY DEF Queue!vars, QueueProofs!vars

LEMMA QueueSubmitSame ==
  ASSUME NEW j, Queue!Submit(j)
  PROVE  QueueProofs!Submit(j)
  BY DEF Queue!Submit, QueueProofs!Submit, Queue!Create, Queue!Enqueue,
         Queue!EnqueueRaises, Queue!Withdraw, Queue!RecordQueued, Queue!redis,
         Queue!documents, Queue!worker, Queue!SetStatus, QueueProofs!Create,
         QueueProofs!Enqueue, QueueProofs!EnqueueRaises, QueueProofs!Withdraw,
         QueueProofs!RecordQueued, QueueProofs!redis, QueueProofs!documents,
         QueueProofs!worker, QueueProofs!SetStatus

LEMMA QueueWorkSame ==
  ASSUME NEW w, Queue!Work(w)
  PROVE  QueueProofs!Work(w)
  BY DEF Queue!Work, QueueProofs!Work, Queue!Read, Queue!Claim, Queue!Ingest,
         Queue!IngestRaises, Queue!Complete, Queue!CompleteRaises, Queue!Fail,
         Queue!Requeue, Queue!Ack, Queue!Move, Queue!StoreDocument, Queue!JobOf,
         Queue!Claimable, Queue!Exhausted, Queue!redis, Queue!documents, Queue!worker,
         Queue!SetStatus, QueueProofs!Read, QueueProofs!Claim, QueueProofs!Ingest,
         QueueProofs!IngestRaises, QueueProofs!Complete, QueueProofs!CompleteRaises,
         QueueProofs!Fail, QueueProofs!Requeue, QueueProofs!Ack, QueueProofs!Move,
         QueueProofs!StoreDocument, QueueProofs!JobOf, QueueProofs!Claimable,
         QueueProofs!Exhausted, QueueProofs!redis, QueueProofs!documents,
         QueueProofs!worker, QueueProofs!SetStatus

LEMMA QueueCrashSame ==
  ASSUME NEW w, Queue!Crash(w) \/ Queue!Restart(w)
  PROVE  QueueProofs!Crash(w) \/ QueueProofs!Restart(w)
  BY DEF Queue!Crash, QueueProofs!Crash, Queue!Restart, QueueProofs!Restart, Queue!Move,
         QueueProofs!Move, Queue!redis, Queue!documents, QueueProofs!redis,
         QueueProofs!documents

LEMMA QueueCrashSubmitSame ==
  ASSUME NEW j, Queue!CrashSubmit(j)
  PROVE  QueueProofs!CrashSubmit(j)
  BY DEF Queue!CrashSubmit, QueueProofs!CrashSubmit, Queue!Submitting,
         QueueProofs!Submitting, Queue!redis, Queue!documents, Queue!worker,
         QueueProofs!redis, QueueProofs!documents, QueueProofs!worker

LEMMA StoreInitSame == Store!Init => StoreProofs!Init
  BY DEF Store!Init, StoreProofs!Init, Store!Indexes, StoreProofs!Indexes

LEMMA StoreVarsSame == UNCHANGED Store!vars => UNCHANGED StoreProofs!vars
  BY DEF Store!vars, StoreProofs!vars

LEMMA StoreUploadSame == Store!Upload = StoreProofs!Upload
  BY DEF Store!Upload, StoreProofs!Upload

LEMMA StoreBeginSame ==
  ASSUME NEW i, NEW u, Store!Begin(i, u)
  PROVE  StoreProofs!Begin(i, u)
  BY DEF Store!Begin, StoreProofs!Begin, Store!Goto, StoreProofs!Goto, Store!database,
         StoreProofs!database

LEMMA StoreAdvanceSame ==
  ASSUME NEW i, Store!Advance(i)
  PROVE  StoreProofs!Advance(i)
  BY DEF Store!Advance, StoreProofs!Advance, Store!Goto, StoreProofs!Goto,
         Store!database, StoreProofs!database, Store!Upsert, StoreProofs!Upsert,
         Store!DeleteChunks, StoreProofs!DeleteChunks, Store!InsertChunk,
         StoreProofs!InsertChunk, Store!Commit, StoreProofs!Commit,
         Store!RecordIngested, StoreProofs!RecordIngested, Store!Document,
         StoreProofs!Document, Store!Size, StoreProofs!Size, Store!Published,
         StoreProofs!Published, Store!EndTransaction, StoreProofs!EndTransaction,
         Store!Indexes, StoreProofs!Indexes

LEMMA StoreRaiseSame ==
  ASSUME NEW i, Store!Raise(i)
  PROVE  StoreProofs!Raise(i)
  BY DEF Store!Raise, StoreProofs!Raise, Store!database, StoreProofs!database,
         Store!EndTransaction, StoreProofs!EndTransaction, Store!InTransaction,
         StoreProofs!InTransaction

\* What the pipeline assumes of its constants is what its parts assume.
LEMMA QueueAssumption == QueueProofs!IngestionAssumption
  BY PipelineAssumption DEF QueueProofs!IngestionAssumption, Store!Upload

LEMMA StoreAssumption == StoreProofs!DocumentStoreAssumption
  BY PipelineAssumption
  DEF StoreProofs!DocumentStoreAssumption, StoreProofs!Upload, Store!Upload,
      StoreProofs!Answer, Store!Answer, StoreProofs!Hit, Store!Hit, StoreProofs!Indexes,
      Store!Indexes

LEMMA QueueNextSame == [Queue!Next]_(Queue!vars) => [QueueProofs!Next]_(QueueProofs!vars)
  <1>1. ASSUME Queue!Next PROVE QueueProofs!Next
    <2>1. CASE \E j \in Jobs : Queue!Submit(j) \/ Queue!CrashSubmit(j)
      BY <2>1, QueueSubmitSame, QueueCrashSubmitSame DEF QueueProofs!Next
    <2>2. CASE \E w \in Workers : Queue!Work(w) \/ Queue!Crash(w) \/ Queue!Restart(w)
      BY <2>2, QueueWorkSame, QueueCrashSame DEF QueueProofs!Next
    <2> QED BY <1>1, <2>1, <2>2 DEF Queue!Next
  <1> QED BY <1>1, QueueVarsSame

LEMMA StoreNextSame == [Store!Next]_(Store!vars) => [StoreProofs!Next]_(StoreProofs!vars)
  <1>1. ASSUME Store!Next PROVE StoreProofs!Next
    <2>1. CASE \E i \in Attempts \cup Uploads, u \in Store!Upload : Store!Begin(i, u)
      BY <2>1, StoreBeginSame, StoreUploadSame DEF StoreProofs!Next
    <2>2. CASE \E i \in Attempts \cup Uploads : Store!Advance(i) \/ Store!Raise(i)
      BY <2>2, StoreAdvanceSame, StoreRaiseSame DEF StoreProofs!Next
    <2>3. ~ \E q \in {}, t \in Tenants, subject \in Subjects : Store!Search(q, t, subject)
      OBVIOUS
    <2> QED BY <1>1, <2>1, <2>2, <2>3 DEF Store!Next
  <1> QED BY <1>1, StoreVarsSame

LEMMA QueueSpecSame == Queue!Spec => QueueProofs!Spec
  BY QueueInitSame, QueueNextSame, PTL DEF Queue!Spec, QueueProofs!Spec

LEMMA StoreSpecSame == Store!Spec => StoreProofs!Spec
  BY StoreInitSame, StoreNextSame, PTL DEF Store!Spec, StoreProofs!Spec

\* So what is proved of each part holds of the pipeline.
PartsInv == QueueProofs!JobsInv /\ StoreProofs!StoreInv

LEMMA PartsHold == Queue!Spec /\ Store!Spec => []PartsInv
  <1>1. QueueProofs!Spec => []QueueProofs!JobsInv
    BY QueueAssumption, QueueProofs!JobsInvariant
  <1>2. StoreProofs!Spec => []StoreProofs!StoreInv
    BY StoreAssumption, StoreProofs!StoreInvariant
  <1> QED BY <1>1, <1>2, QueueSpecSame, StoreSpecSame, PTL DEF PartsInv

\* What is used of the queue's invariant.
LEMMA QueueFacts ==
  ASSUME PartsInv
  PROVE  /\ jobs \in [Jobs -> Queue!JobRow]
         /\ at \in [Workers -> {"reading", "down"} \cup Queue!Holding]
         /\ stream \in Seq(Jobs)
         /\ message \in [Workers -> 0 .. cursor]
         /\ \A w \in Workers : at[w] \in Queue!Holding => message[w] \in DOMAIN stream
         /\ \A w \in Workers : at[w] \in Queue!Holding => Queue!JobOf(w) \in Jobs
         /\ \A j \in Jobs : submit[j] = "new" => jobs[j].attempts = 0
         /\ \A w \in Workers : at[w] \in Queue!Attempting =>
                jobs[Queue!JobOf(w)].status # "queued"
         /\ \A v, w \in Workers :
                at[v] \in Queue!Attempting /\ at[w] \in Queue!Attempting
                    /\ Queue!JobOf(v) = Queue!JobOf(w) => v = w
  <1> USE DEF PartsInv, QueueProofs!JobsInv
  <1>1. /\ jobs \in [Jobs -> Queue!JobRow]
        /\ stream \in Seq(Jobs)
        /\ message \in [Workers -> 0 .. cursor]
    BY DEF QueueProofs!TypeOK, QueueProofs!JobRow, Queue!JobRow
  <1>2. at \in [Workers -> {"reading", "down"} \cup Queue!Holding]
    BY DEF QueueProofs!TypeOK, QueueProofs!Holding, Queue!Holding, QueueProofs!Attempting,
           Queue!Attempting
  <1>3. ASSUME NEW w \in Workers, at[w] \in Queue!Holding
        PROVE  message[w] \in DOMAIN stream /\ Queue!JobOf(w) \in Jobs
    <2>1. message[w] \in pending
      BY <1>3 DEF QueueProofs!TypeOK, QueueProofs!Holding, Queue!Holding,
                  QueueProofs!Attempting, Queue!Attempting
    <2>2. message[w] \in 1 .. Len(stream)
      BY <2>1 DEF QueueProofs!TypeOK
    <2> QED BY <1>1, <2>2 DEF Queue!JobOf
  <1>4. \A j \in Jobs : submit[j] = "new" => jobs[j].attempts = 0
    BY DEF QueueProofs!NewIsUntouched
  <1>5. \A w \in Workers : at[w] \in Queue!Attempting => jobs[Queue!JobOf(w)].status # "queued"
    BY DEF QueueProofs!AttemptedNotQueued, QueueProofs!Attempting, Queue!Attempting,
           QueueProofs!JobOf, Queue!JobOf
  <1>6. \A v, w \in Workers :
            at[v] \in Queue!Attempting /\ at[w] \in Queue!Attempting
                /\ Queue!JobOf(v) = Queue!JobOf(w) => v = w
    BY DEF QueueProofs!OneAttemptAtATime, QueueProofs!Attempting, Queue!Attempting,
           QueueProofs!JobOf, Queue!JobOf
  <1> QED BY <1>1, <1>2, <1>3, <1>4, <1>5, <1>6

\* What is used of the store's.
LEMMA StoreFacts ==
  ASSUME PartsInv
  PROVE  /\ rows \in [Documents -> (Attempts \cup Uploads) \cup {Nothing}]
         /\ chunks \in [Documents -> [Store!Indexes -> (Attempts \cup Uploads) \cup {Nothing}]]
         /\ upload \in [Attempts \cup Uploads -> Store!Upload \cup {Nothing}]
         /\ pc \in [Attempts \cup Uploads ->
                {"idle", "record"} \cup Store!InTransaction \cup Store!Ended]
         /\ committed \subseteq Attempts \cup Uploads
         /\ \A i \in Attempts \cup Uploads : pc[i] # "idle" => upload[i] \in Store!Upload
         /\ \A i \in committed : pc[i] # "idle"
         /\ \A d \in Documents : rows[d] # Nothing => rows[d] \in committed
         /\ \A d \in Documents, n \in Store!Indexes :
                chunks[d][n] =
                    IF rows[d] # Nothing /\ n < upload[rows[d]].size THEN rows[d] ELSE Nothing
  <1> USE DEF PartsInv, StoreProofs!StoreInv
  <1>1. /\ rows \in [Documents -> (Attempts \cup Uploads) \cup {Nothing}]
        /\ chunks \in [Documents -> [Store!Indexes -> (Attempts \cup Uploads) \cup {Nothing}]]
        /\ upload \in [Attempts \cup Uploads -> Store!Upload \cup {Nothing}]
        /\ committed \subseteq Attempts \cup Uploads
        /\ \A i \in Attempts \cup Uploads : pc[i] # "idle" => upload[i] \in Store!Upload
    BY DEF StoreProofs!TypeOK, StoreProofs!Indexes, Store!Indexes, StoreProofs!Upload, Store!Upload
  <1>2. pc \in [Attempts \cup Uploads ->
                {"idle", "record"} \cup Store!InTransaction \cup Store!Ended]
    BY DEF StoreProofs!TypeOK, StoreProofs!InTransaction, Store!InTransaction,
           StoreProofs!Ended, Store!Ended
  <1>3. \A i \in committed : pc[i] # "idle"
    BY DEF StoreProofs!StoredHasEnded, StoreProofs!Ended
  <1>4. \A d \in Documents : rows[d] # Nothing => rows[d] \in committed
    BY DEF StoreProofs!StoredHasEnded
  <1>5. \A d \in Documents, n \in Store!Indexes :
                chunks[d][n] =
                    IF rows[d] # Nothing /\ n < upload[rows[d]].size THEN rows[d] ELSE Nothing
    BY DEF StoreProofs!WholeVersions, StoreProofs!Indexes, Store!Indexes, StoreProofs!Size
  <1> QED BY <1>1, <1>2, <1>3, <1>4, <1>5

-----------------------------------------------------------------------------
(* The invariant of the pipeline itself.                                    *)

\* A message keeps its job while it is held.
LEMMA JobOfKept ==
  ASSUME PartsInv, NEW w \in Workers, at[w] \in Queue!Holding, message'[w] = message[w],
         stream' = stream \/ \E j : stream' = Append(stream, j)
  PROVE  Queue!JobOf(w)' = Queue!JobOf(w)
  <1>1. stream \in Seq(Jobs) /\ message[w] \in 1 .. Len(stream)
    BY QueueFacts
  <1>2. CASE stream' = stream
    BY <1>2 DEF Queue!JobOf
  <1>3. CASE \E j : stream' = Append(stream, j)
    BY <1>1, <1>3 DEF Queue!JobOf
  <1> QED BY <1>2, <1>3

\* What a step has to show of the open transactions.
LEMMA LatestKept ==
  ASSUME OpenIsLatest,
         \A i \in Attempts :
            pc'[i] \in Store!InTransaction /\ pc[i] \in Store!InTransaction
            /\ i[2] = jobs[i[1]].attempts /\ jobs[i[1]].status # "queued" =>
                /\ jobs'[i[1]].attempts = jobs[i[1]].attempts
                /\ jobs'[i[1]].status # "queued"
                /\ \A w \in Workers :
                        at'[w] \in {"complete", "fail"} /\ Queue!JobOf(w)' = i[1] =>
                            at[w] \in {"complete", "fail"} /\ Queue!JobOf(w) = i[1],
         \A i \in Attempts : pc'[i] \in Store!InTransaction => pc[i] \in Store!InTransaction
  PROVE  OpenIsLatest'
  BY DEF OpenIsLatest, Store!InTransaction

\* A request touches a job before its first attempt, or ends it.
LEMMA RequestLatest ==
  ASSUME PartsInv, OpenIsLatest, NEW k \in Jobs, Request(k) \/ CrashRequest(k)
  PROVE  OpenIsLatest'
  <1>1. pc' = pc /\ at' = at /\ message' = message
    BY DEF Request, CrashRequest, storeVars, Queue!Submit, Queue!Create, Queue!Enqueue,
           Queue!EnqueueRaises, Queue!Withdraw, Queue!RecordQueued, Queue!CrashSubmit,
           Queue!worker
  <1>2. stream' = stream \/ \E j : stream' = Append(stream, j)
    BY DEF Request, CrashRequest, Queue!Submit, Queue!Create, Queue!Enqueue,
           Queue!EnqueueRaises, Queue!Withdraw, Queue!RecordQueued, Queue!CrashSubmit,
           Queue!redis
  <1>3. \/ jobs' = jobs
        \/ submit[k] = "new" /\ Queue!SetStatus(k, "queued")
        \/ Queue!SetStatus(k, "failed")
    BY DEF Request, CrashRequest, Queue!Submit, Queue!Create, Queue!Enqueue,
           Queue!EnqueueRaises, Queue!Withdraw, Queue!RecordQueued, Queue!CrashSubmit
  <1>4. ASSUME NEW i \in Attempts, pc[i] \in Store!InTransaction, i[2] = jobs[i[1]].attempts,
               jobs[i[1]].status # "queued"
        PROVE  /\ jobs'[i[1]].attempts = jobs[i[1]].attempts
               /\ jobs'[i[1]].status # "queued"
    <2>1. i[1] \in Jobs /\ jobs[i[1]].attempts # 0
      BY <1>4, PipelineAssumption DEF Attempts
    <2>2. jobs \in [Jobs -> Queue!JobRow] /\ (submit[k] = "new" => k # i[1])
      BY <2>1, QueueFacts
    <2> QED BY <1>3, <1>4, <2>1, <2>2 DEF Queue!SetStatus, Queue!JobRow
  <1>5. \A w \in Workers : at[w] \in {"complete", "fail"} => Queue!JobOf(w)' = Queue!JobOf(w)
    BY <1>1, <1>2, JobOfKept DEF Queue!Holding, Queue!Attempting
  <1> QED BY <1>1, <1>4, <1>5, LatestKept

\* The status guard of mark_job_running keeps the job from being claimed.
LEMMA HandleLatest ==
  ASSUME PartsInv, OpenIsLatest, NEW v \in Workers, Handle(v) \/ Crash(v) \/ Restart(v)
  PROVE  OpenIsLatest'
  <1>1. pc' = pc
    BY DEF Handle, Crash, Restart, storeVars
  <1>2. ASSUME NEW w \in Workers, at'[w] \in {"complete", "fail"}
        PROVE  at[w] \in {"complete", "fail"} /\ Queue!JobOf(w)' = Queue!JobOf(w)
    <2>1. at[w] \in {"complete", "fail"}
      BY <1>2, QueueFacts
      DEF Handle, Crash, Restart, Queue!Read, Queue!Claim, Queue!Complete,
          Queue!CompleteRaises, Queue!Fail, Queue!Requeue, Queue!Ack, Queue!Crash,
          Queue!Restart, Queue!Move
    <2>2. message'[w] = message[w]
      BY <1>2, <2>1, QueueFacts
      DEF Handle, Crash, Restart, Queue!Read, Queue!Claim, Queue!Complete,
          Queue!CompleteRaises, Queue!Fail, Queue!Requeue, Queue!Ack, Queue!Crash,
          Queue!Restart, Queue!Move, Queue!redis
    <2>3. stream' = stream \/ \E j : stream' = Append(stream, j)
      BY DEF Handle, Crash, Restart, Queue!Read, Queue!Claim, Queue!Complete,
          Queue!CompleteRaises, Queue!Fail, Queue!Requeue, Queue!Ack, Queue!Crash,
          Queue!Restart, Queue!redis
    <2> QED BY <2>1, <2>2, <2>3, JobOfKept DEF Queue!Holding, Queue!Attempting
  <1>3. \/ jobs' = jobs
        \/ /\ at[v] = "claim" /\ jobs[Queue!JobOf(v)].status = "queued"
           /\ jobs' = [jobs EXCEPT ![Queue!JobOf(v)] =
                [status |-> "running", attempts |-> @.attempts + 1]]
        \/ at[v] = "complete" /\ Queue!SetStatus(Queue!JobOf(v), "completed")
        \/ at[v] = "fail" /\ Queue!SetStatus(Queue!JobOf(v), "failed")
        \/ at[v] = "fail" /\ Queue!SetStatus(Queue!JobOf(v), "queued")
    BY DEF Handle, Crash, Restart, Queue!Read, Queue!Claim, Queue!Complete,
           Queue!CompleteRaises, Queue!Fail, Queue!Requeue, Queue!Ack, Queue!Crash,
           Queue!Restart, Queue!Move, Queue!Claimable
  <1>4. ASSUME NEW i \in Attempts, pc[i] \in Store!InTransaction
        PROVE  /\ jobs'[i[1]].attempts = jobs[i[1]].attempts
               /\ jobs'[i[1]].status # "queued"
    <2>1. /\ jobs[i[1]].status # "queued"
          /\ at[v] \in {"complete", "fail"} => Queue!JobOf(v) # i[1]
      BY <1>4 DEF OpenIsLatest
    <2>2. i[1] \in Jobs /\ jobs \in [Jobs -> Queue!JobRow]
      BY QueueFacts DEF Attempts
    <2>3. jobs'[i[1]] = jobs[i[1]] \/ jobs'[i[1]] = [jobs[i[1]] EXCEPT !.status = "completed"]
      BY <1>3, <2>1, <2>2 DEF Queue!SetStatus
    <2> QED BY <2>1, <2>2, <2>3 DEF Queue!JobRow
  <1> QED BY <1>1, <1>2, <1>4, LatestKept

\* A worker that is in ingest is the only one that attempts its job.
LEMMA IngestingAlone ==
  ASSUME PartsInv, NEW w \in Workers, NEW i, Ingesting(w, i)
  PROVE  /\ i[1] = Queue!JobOf(w)
         /\ i[2] = jobs[i[1]].attempts
         /\ jobs[i[1]].status # "queued"
         /\ \A v \in Workers : at[v] \in {"complete", "fail"} => Queue!JobOf(v) # i[1]
  <1>1. at[w] = "ingest" /\ i[1] = Queue!JobOf(w) /\ i[2] = jobs[i[1]].attempts
    BY DEF Ingesting, AttemptOf
  <1> QED BY <1>1, QueueFacts DEF Queue!Attempting

LEMMA StatementLatest ==
  ASSUME PartsInv, OpenIsLatest, NEW w \in Workers, Begin(w) \/ Statement(w)
  PROVE  OpenIsLatest'
  <1>1. PICK i \in Attempts :
            /\ Ingesting(w, i)
            /\ \A k \in Attempts \ {i} : pc'[k] = pc[k]
    BY StoreFacts
    DEF Begin, Statement, Store!Begin, Store!Upsert, Store!DeleteChunks, Store!InsertChunk,
        Store!Goto
  <1>2. UNCHANGED queueVars
    BY DEF Begin, Statement
  <1>3. jobs' = jobs /\ at' = at /\ \A v : Queue!JobOf(v)' = Queue!JobOf(v)
    BY <1>2 DEF queueVars, Queue!JobOf
  <1> QED BY <1>1, <1>3, IngestingAlone DEF OpenIsLatest, Store!InTransaction

\* ingest ends, and with it the only transaction of its job.
LEMMA IngestEndsLatest ==
  ASSUME PartsInv, OpenIsLatest, NEW w \in Workers, Commit(w) \/ Raise(w)
  PROVE  OpenIsLatest'
  <1>1. PICK i \in Attempts :
            /\ Ingesting(w, i)
            /\ pc'[i] \notin Store!InTransaction
            /\ \A k \in Attempts \ {i} : pc'[k] = pc[k]
    BY StoreFacts
    DEF Commit, Raise, Store!Commit, Store!Raise, Store!Goto, Store!InTransaction, storeVars
  <1>2. at[w] = "ingest" /\ i = <<Queue!JobOf(w), jobs[Queue!JobOf(w)].attempts>>
    BY <1>1 DEF Ingesting, AttemptOf
  <1>3. jobs' = jobs /\ message' = message /\ stream' = stream
    BY DEF Commit, Raise, Queue!Ingest, Queue!IngestRaises, Queue!redis
  <1>4. \A v : Queue!JobOf(v)' = Queue!JobOf(v)
    BY <1>3 DEF Queue!JobOf
  <1>5. \A v \in Workers \ {w} : at'[v] = at[v]
    BY QueueFacts DEF Commit, Raise, Queue!Ingest, Queue!IngestRaises, Queue!Move
  <1>6. \A k \in Attempts : pc'[k] \in Store!InTransaction =>
            pc[k] \in Store!InTransaction /\ k # i
    BY <1>1
  <1>7. \A k \in Attempts : k # i /\ k[2] = jobs[k[1]].attempts => k[1] # Queue!JobOf(w)
    BY <1>2 DEF Attempts
  <1> QED BY <1>3, <1>4, <1>5, <1>6, <1>7 DEF OpenIsLatest, Store!InTransaction

\* Rollbacks only end transactions; uploads have no job.
LEMMA OthersLatest ==
  ASSUME PartsInv, OpenIsLatest,
         \/ \E i \in Attempts : RollBack(i)
         \/ \E u \in Uploads : Upload(u)
         \/ UNCHANGED vars
  PROVE  OpenIsLatest'
  <1>1. \A i \in Attempts : pc'[i] \in Store!InTransaction => pc'[i] = pc[i]
    <2>1. ASSUME NEW k \in Attempts, RollBack(k)
          PROVE  \A i \in Attempts : pc'[i] \in Store!InTransaction => pc'[i] = pc[i]
      BY <2>1, StoreFacts DEF RollBack, Store!Raise, Store!InTransaction
    <2>2. ASSUME NEW u \in Uploads, Upload(u)
          PROVE  \A i \in Attempts : pc'[i] = pc[i]
      BY <2>2, StoreFacts, PipelineAssumption
      DEF Upload, Store!Begin, Store!Advance, Store!Raise, Store!Upsert, Store!DeleteChunks,
          Store!InsertChunk, Store!Commit, Store!RecordIngested, Store!Goto
    <2>3. ASSUME UNCHANGED vars
          PROVE  \A i \in Attempts : pc'[i] = pc[i]
      BY <2>3 DEF vars, storeVars
    <2> QED BY <2>1, <2>2, <2>3
  <1>2. UNCHANGED queueVars
    BY DEF RollBack, Upload, vars
  <1>3. jobs' = jobs /\ at' = at /\ \A v : Queue!JobOf(v)' = Queue!JobOf(v)
    BY <1>2 DEF queueVars, Queue!JobOf
  <1> QED BY <1>1, <1>3 DEF OpenIsLatest, Store!InTransaction

\* upload is written by Begin alone, of a call that is not committed yet.
LEMMA PayloadsStep ==
  ASSUME PartsInv, PartsInv', PayloadsKept, [Next]_vars
  PROVE  PayloadsKept'
  <1>1. CASE UNCHANGED <<pc, upload, rows, committed>>
    BY <1>1 DEF PayloadsKept
  <1>2. ASSUME NEW i \in Attempts \cup Uploads, NEW u, Store!Begin(i, u),
               i \in Attempts => u = PayloadOf[i[1]]
        PROVE  PayloadsKept'
    BY <1>2, StoreFacts DEF PayloadsKept, Store!Begin, Store!Goto, Store!database
  <1>3. ASSUME NEW i \in Attempts \cup Uploads,
               \/ Store!Upsert(i)
               \/ Store!DeleteChunks(i)
               \/ Store!InsertChunk(i)
               \/ Store!RecordIngested(i)
               \/ Store!Raise(i)
        PROVE  PayloadsKept'
    <2>1. upload' = upload /\ rows' = rows /\ committed' = committed
      BY <1>3 DEF Store!Upsert, Store!DeleteChunks, Store!InsertChunk, Store!RecordIngested,
                  Store!Raise, Store!database
    <2>2. pc[i] # "idle" /\ \A k \in (Attempts \cup Uploads) \ {i} : pc'[k] = pc[k]
      BY <1>3, StoreFacts
      DEF Store!Upsert, Store!DeleteChunks, Store!InsertChunk, Store!RecordIngested,
          Store!Raise, Store!Goto, Store!InTransaction
    <2> QED BY <2>1, <2>2 DEF PayloadsKept
  <1>4. ASSUME NEW i \in Attempts \cup Uploads, Store!Commit(i)
        PROVE  PayloadsKept'
    <2>1. /\ upload' = upload
          /\ rows' = [rows EXCEPT ![upload[i].document] = i]
          /\ committed' = committed \cup {i}
      BY <1>4 DEF Store!Commit, Store!Document
    <2>2. pc[i] # "idle" /\ \A k \in (Attempts \cup Uploads) \ {i} : pc'[k] = pc[k]
      BY <1>4, StoreFacts DEF Store!Commit, Store!Goto
    <2>3. upload[i].document \in Documents
      BY <2>2, StoreFacts DEF Store!Upload
    <2>4. i # Nothing
      BY PipelineAssumption
    <2>5. \A k \in committed : rows'[upload[k].document] # Nothing
      BY <2>1, <2>3, <2>4, StoreFacts DEF PayloadsKept
    <2>6. rows'[upload[i].document] # Nothing
      BY <2>1, <2>3, <2>4, StoreFacts
    <2> QED BY <2>1, <2>2, <2>5, <2>6 DEF PayloadsKept
  <1>5. ASSUME NEW j \in Jobs, Request(j) \/ CrashRequest(j)
        PROVE  PayloadsKept'
    BY <1>1, <1>5 DEF Request, CrashRequest, storeVars
  <1>6. ASSUME NEW w \in Workers, Work(w) \/ Raise(w) \/ Crash(w) \/ Restart(w)
        PROVE  PayloadsKept'
    <2>1. CASE Handle(w) \/ Crash(w) \/ Restart(w)
      BY <1>1, <2>1 DEF Handle, Crash, Restart, storeVars
    <2>2. CASE Begin(w)
      BY <1>2, <2>2 DEF Begin
    <2>3. CASE Statement(w)
      BY <1>3, <2>3 DEF Statement
    <2>4. CASE Commit(w)
      BY <1>4, <2>4 DEF Commit
    <2>5. CASE Raise(w)
      BY <1>1, <1>3, <2>5 DEF Raise, storeVars
    <2> QED BY <1>6, <2>1, <2>2, <2>3, <2>4, <2>5 DEF Work
  <1>7. ASSUME NEW i \in Attempts, RollBack(i)
        PROVE  PayloadsKept'
    BY <1>3, <1>7 DEF RollBack
  <1>8. ASSUME NEW u \in Uploads, Upload(u)
        PROVE  PayloadsKept'
    BY <1>2, <1>3, <1>4, <1>8, PipelineAssumption DEF Upload, Store!Advance
  <1>9. CASE UNCHANGED vars
    BY <1>1, <1>9 DEF vars, storeVars
  <1> QED BY <1>5, <1>6, <1>7, <1>8, <1>9 DEF Next

LEMMA InitPipeline == Init => PipelineInv
  BY DEF Init, Store!Init, PipelineInv, PayloadsKept, OpenIsLatest, Store!InTransaction

LEMMA NextPipeline ==
  ASSUME PartsInv, PartsInv', PipelineInv, [Next]_vars
  PROVE  PipelineInv'
  <1>1. PayloadsKept'
    BY PayloadsStep DEF PipelineInv
  <1>2. OpenIsLatest'
    <2> USE DEF PipelineInv
    <2>1. CASE \E j \in Jobs : Request(j) \/ CrashRequest(j)
      BY <2>1, RequestLatest
    <2>2. CASE \E w \in Workers : Work(w) \/ Raise(w) \/ Crash(w) \/ Restart(w)
      BY <2>2, HandleLatest, StatementLatest, IngestEndsLatest DEF Work
    <2>3. CASE \/ \E i \in Attempts : RollBack(i)
               \/ \E u \in Uploads : Upload(u)
               \/ UNCHANGED vars
      BY <2>3, OthersLatest
    <2> QED BY <2>1, <2>2, <2>3 DEF Next
  <1> QED BY <1>1, <1>2 DEF PipelineInv

\* The invariants of IngestionJobs and of DocumentStore hold in the pipeline.
THEOREM PartsInvariant == Spec => []PartsInv
  BY PartsHold, PipelineImplementsJobs, PipelineImplementsStore, PTL
  DEF ImplementsJobs

\* Payloads stay with their calls, and an open transaction belongs to the last
\* attempt at its job.
THEOREM PipelineInvariant == Spec => []PipelineInv
  <1>1. PartsInv /\ PartsInv' /\ PipelineInv /\ [Next]_vars => PipelineInv'
    BY NextPipeline
  <1> QED BY <1>1, InitPipeline, PartsInvariant, PTL DEF Spec

\* Two sessions of IngestionService.ingest never have transactions of one job
\* open together, a dead worker's included.
THEOREM TransactionsNeverOverlap == Spec => []OneTransactionPerJob
  <1>1. OpenIsLatest => OneTransactionPerJob
    <2> SUFFICES ASSUME OpenIsLatest, NEW j \in Jobs PROVE Cardinality(Open(j)) <= 1
      BY DEF OneTransactionPerJob
    <2>1. Open(j) \in SUBSET {<<j, jobs[j].attempts>>}
      BY DEF OpenIsLatest, Open, Attempts
    <2>2. IsFiniteSet({<<j, jobs[j].attempts>>}) /\ Cardinality({<<j, jobs[j].attempts>>}) = 1
      BY FS_Singleton
    <2> QED BY <2>1, <2>2, FS_Subset
  <1> QED BY <1>1, PipelineInvariant, PTL DEF PipelineInv

\* What mark_job_completed says is true of the tables: the job's document is
\* there, whole.
THEOREM CompletedFound == Spec => []CompletedIsSearchable
  <1>1. PartsInv /\ PipelineInv => CompletedIsSearchable
    <2> SUFFICES ASSUME PartsInv, PipelineInv, NEW j \in Jobs, jobs[j].status = "completed"
                 PROVE  LET d == PayloadOf[j].document IN
                        /\ rows[d] # Nothing
                        /\ {n \in DOMAIN chunks[d] : chunks[d][n] = rows[d]} =
                                0 .. upload[rows[d]].size - 1
      BY DEF CompletedIsSearchable
    <2> DEFINE d == PayloadOf[j].document
    <2>1. PICK i \in committed \cap Attempts : i[1] = j
      BY DEF PartsInv, QueueProofs!JobsInv, QueueProofs!CompletedIsStored
    <2>2. upload[i] = PayloadOf[j]
      BY <2>1, StoreFacts DEF PipelineInv, PayloadsKept
    <2>3. rows[d] # Nothing
      BY <2>1, <2>2 DEF PipelineInv, PayloadsKept
    <2>4. d \in Documents
      BY PipelineAssumption DEF Store!Upload
    <2>5. rows[d] \in committed /\ rows[d] \in Attempts \cup Uploads
      BY <2>3, <2>4, StoreFacts
    <2>6. upload[rows[d]] \in Store!Upload
      BY <2>5, StoreFacts
    <2>7. upload[rows[d]].size \in 0 .. MaxChunks
      BY <2>6 DEF Store!Upload
    <2>8. DOMAIN chunks[d] = 0 .. MaxChunks - 1
      BY <2>4, StoreFacts DEF Store!Indexes
    <2>9. \A n \in 0 .. MaxChunks - 1 :
            chunks[d][n] = rows[d] <=> n < upload[rows[d]].size
      BY <2>3, <2>4, StoreFacts DEF Store!Indexes
    <2> HIDE DEF d
    <2>10. {n \in DOMAIN chunks[d] : chunks[d][n] = rows[d]} = 0 .. upload[rows[d]].size - 1
      BY <2>7, <2>8, <2>9, PipelineAssumption
    <2> QED BY <2>3, <2>10 DEF d
  <1> QED BY <1>1, PartsInvariant, PipelineInvariant, PTL

-----------------------------------------------------------------------------
(* What the composition inherits from its parts.                           *)

\* Also with statements that fail, transactions that dead workers leave and
\* uploads in between, a job is tried and put on the stream at most MaxAttempts
\* times, keeps a message until it has ended, and is not stranded without a
\* crash.
THEOREM QueuePromisesKept ==
  Spec => [](/\ QueueProofs!RetriesBounded
             /\ QueueProofs!AcknowledgedWhenSafe
             /\ QueueProofs!Carried)
  <1>1. QueueProofs!Spec => []QueueProofs!RetriesBounded
    BY QueueAssumption, QueueProofs!RetriesAreBounded
  <1>2. QueueProofs!Spec => []QueueProofs!AcknowledgedWhenSafe
    BY QueueAssumption, QueueProofs!AcknowledgedSafely
  <1>3. QueueProofs!Spec => []QueueProofs!Carried
    BY QueueAssumption, QueueProofs!NothingStranded
  <1> QED BY <1>1, <1>2, <1>3, PipelineImplementsJobs, QueueSpecSame, PTL DEF ImplementsJobs

\* Attempts of workers and uploads, overlapping and failing anywhere, replace
\* documents as WholeDocuments says: each in one step.
THEOREM PipelineReplacesWhole == Spec => StoreProofs!ImplementsWhole
  <1>1. StoreProofs!Spec => StoreProofs!ImplementsWhole
    BY StoreAssumption, StoreProofs!StoreImplementsWhole
  <1> QED BY <1>1, PipelineImplementsStore, StoreSpecSame, PTL
=============================================================================
