------------------------ MODULE IngestionJobsProofs ------------------------
(* Proofs that hold for every number of jobs, workers, attempts and crashes. *)
EXTENDS IngestionJobs, TLAPS, FiniteSetTheorems

-----------------------------------------------------------------------------
(* What an UPDATE of the status and a longer stream leave alone.           *)

LEMMA SetStatusEffect ==
  ASSUME jobs \in [Jobs -> JobRow], NEW j \in Jobs,
         NEW status \in {"queued", "completed", "failed"}, SetStatus(j, status)
  PROVE  /\ jobs' \in [Jobs -> JobRow]
         /\ jobs'[j].status = status
         /\ \A k \in Jobs : jobs'[k].attempts = jobs[k].attempts
         /\ \A k \in Jobs \ {j} : jobs'[k] = jobs[k]
  <1> DEFINE row == [jobs[j] EXCEPT !.status = status]
  <1>1. jobs' = [jobs EXCEPT ![j] = row]
    BY DEF SetStatus
  <1>2. row \in JobRow /\ row.status = status /\ row.attempts = jobs[j].attempts
    BY DEF JobRow
  <1> QED BY <1>1, <1>2

LEMMA HeldJob ==
  ASSUME TypeOK, NEW w \in Workers, at[w] \in Holding
  PROVE  message[w] \in DOMAIN stream /\ JobOf(w) \in Jobs
  BY DEF TypeOK, JobOf

LEMMA HeldJobStable ==
  ASSUME TypeOK, NEW w \in Workers, at[w] \in Holding,
         message'[w] = message[w],
         stream' = stream \/ \E j \in Jobs : stream' = Append(stream, j)
  PROVE  JobOf(w)' = JobOf(w)
  <1>1. message[w] \in 1 .. Len(stream) /\ stream \in Seq(Jobs)
    BY DEF TypeOK
  <1>2. CASE stream' = stream
    BY <1>2 DEF JobOf
  <1>3. CASE \E j \in Jobs : stream' = Append(stream, j)
    BY <1>1, <1>3 DEF JobOf
  <1> QED BY <1>2, <1>3

\* A job on the stream has been submitted.
LEMMA HeldJobSubmitted ==
  ASSUME TypeOK, NewIsUntouched, NEW w \in Workers, at[w] \in Holding
  PROVE  submit[JobOf(w)] # "new"
  BY HeldJob DEF NewIsUntouched, JobOf

-----------------------------------------------------------------------------
(* Steps of the API: the workers stay where they are.                      *)

\* The parts of the invariant that speak of workers survive a step that moves
\* no worker, adds at most a message, and makes no attempted job claimable.
LEMMA ApiStep ==
  ASSUME JobsInv, TypeOK', NewIsUntouched', AttemptsLeft', CompletedIsStored',
         UNCHANGED <<at, message, stored>>,
         stream' = stream \/ \E j \in Jobs : stream' = Append(stream, j),
         \A k \in Jobs : jobs'[k].status = "queued" =>
                            jobs[k].status = "queued" \/ submit[k] = "new"
  PROVE  JobsInv'
  <1> USE DEF JobsInv
  <1>1. \A w \in Workers : at[w] \in Holding =>
            JobOf(w)' = JobOf(w) /\ JobOf(w) \in Jobs /\ submit[JobOf(w)] # "new"
    BY HeldJob, HeldJobStable, HeldJobSubmitted
  <1>2. MessagesDistinct'
    BY DEF MessagesDistinct
  <1>3. AttemptedNotQueued'
    BY <1>1 DEF AttemptedNotQueued, Attempting, Holding
  <1>4. StoredBeforeComplete'
    BY <1>1 DEF StoredBeforeComplete, Attempting, Holding
  <1>5. OneAttemptAtATime'
    BY <1>1 DEF OneAttemptAtATime, Attempting, Holding
  <1> QED BY <1>2, <1>3, <1>4, <1>5

LEMMA CreateStep ==
  ASSUME JobsInv, NEW j \in Jobs, Create(j)
  PROVE  JobsInv'
  <1> USE IngestionAssumption DEF JobsInv, Create, redis, worker, documents
  <1>1. /\ jobs' \in [Jobs -> JobRow]
        /\ jobs'[j].status = "queued"
        /\ \A k \in Jobs : jobs'[k].attempts = jobs[k].attempts
        /\ \A k \in Jobs \ {j} : jobs'[k] = jobs[k]
    BY SetStatusEffect DEF TypeOK
  <1>a. created' \in Seq(Jobs)
    BY DEF TypeOK
  <1>2. TypeOK'
    BY <1>1, <1>a DEF TypeOK, Submitting
  <1>3. NewIsUntouched'
    BY <1>1 DEF NewIsUntouched, TypeOK
  <1>4. AttemptsLeft'
    BY <1>1 DEF AttemptsLeft, NewIsUntouched
  <1>5. CompletedIsStored'
    BY <1>1 DEF CompletedIsStored
  <1> QED BY <1>1, <1>2, <1>3, <1>4, <1>5, ApiStep

LEMMA EnqueueStep ==
  ASSUME JobsInv, NEW j \in Jobs, Enqueue(j) \/ EnqueueRaises(j)
  PROVE  JobsInv'
  <1> USE DEF JobsInv
  <1>1. /\ submit[j] = "enqueue"
        /\ \E next \in {"record", "withdraw"} : submit' = [submit EXCEPT ![j] = next]
        /\ stream' = stream \/ stream' = Append(stream, j)
        /\ UNCHANGED <<jobs, created, cursor, pending, worker, documents, crashes>>
    BY DEF Enqueue, EnqueueRaises
  <1>2. stream' \in Seq(Jobs) /\ cursor \in 0 .. Len(stream')
    <2>1. stream \in Seq(Jobs) /\ cursor \in 0 .. Len(stream)
      BY DEF TypeOK
    <2>2. CASE stream' = stream
      BY <2>1, <2>2
    <2>3. CASE stream' = Append(stream, j)
      <3>1. stream' \in Seq(Jobs) /\ Len(stream') = Len(stream) + 1
        BY <2>1, <2>3
      <3> QED BY <2>1, <3>1
    <2> QED BY <1>1, <2>2, <2>3
  <1> USE <1>1 DEF worker, documents
  <1>3. TypeOK'
    <2>1. submit' \in [Jobs -> {"new", "accepted", "unavailable", "lost"}
                                \cup Submitting]
      BY DEF TypeOK, Submitting
    <2> QED BY <1>2, <2>1 DEF TypeOK
  <1>4. NewIsUntouched'
    <2>1. CASE stream' = stream
      BY <2>1 DEF NewIsUntouched, TypeOK
    <2>2. CASE stream' = Append(stream, j)
      BY <2>2 DEF NewIsUntouched, TypeOK
    <2> QED BY <2>1, <2>2
  <1>5. AttemptsLeft' /\ CompletedIsStored'
    BY DEF AttemptsLeft, CompletedIsStored
  <1> QED BY <1>3, <1>4, <1>5, ApiStep

LEMMA WithdrawStep ==
  ASSUME JobsInv, NEW j \in Jobs, Withdraw(j)
  PROVE  JobsInv'
  <1> USE DEF JobsInv, Withdraw, redis, worker, documents
  <1>1. /\ jobs' \in [Jobs -> JobRow]
        /\ \A k \in Jobs : jobs'[k].attempts = jobs[k].attempts
        /\ \A k \in Jobs : jobs'[k].status \in {jobs[k].status, "failed"}
        /\ \A k \in Jobs \ {j} : jobs'[k] = jobs[k]
    BY SetStatusEffect DEF TypeOK
  <1>2. TypeOK'
    BY <1>1 DEF TypeOK, Submitting
  <1>3. NewIsUntouched'
    BY <1>1 DEF NewIsUntouched, TypeOK
  <1>4. AttemptsLeft'
    BY <1>1 DEF AttemptsLeft
  <1>5. CompletedIsStored'
    BY <1>1 DEF CompletedIsStored
  <1> QED BY <1>1, <1>2, <1>3, <1>4, <1>5, ApiStep

LEMMA SubmitEndsStep ==
  ASSUME JobsInv, NEW j \in Jobs, RecordQueued(j) \/ CrashSubmit(j)
  PROVE  JobsInv'
  <1> USE IngestionAssumption
      DEF JobsInv, RecordQueued, CrashSubmit, redis, worker, documents
  <1>1. TypeOK'
    <2>1. /\ submit' \in [Jobs -> {"new", "accepted", "unavailable", "lost"}
                                   \cup Submitting]
          /\ crashes' \in 0 .. MaxCrashes
      BY DEF TypeOK, Submitting
    <2> QED BY <2>1 DEF TypeOK
  <1>2. NewIsUntouched' /\ AttemptsLeft' /\ CompletedIsStored'
    BY DEF NewIsUntouched, AttemptsLeft, CompletedIsStored, TypeOK, Submitting
  <1> QED BY <1>1, <1>2, ApiStep

-----------------------------------------------------------------------------
(* Steps of a worker.                                                      *)

\* A worker that begins no attempt disturbs no other, provided only the end of
\* its own attempt makes a job claimable again.
LEMMA WorkerStep ==
  ASSUME JobsInv, TypeOK', NewIsUntouched', AttemptsLeft', CompletedIsStored',
         NEW w \in Workers,
         at' = [at EXCEPT ![w] = at'[w]],
         UNCHANGED message,
         stream' = stream \/ \E j \in Jobs : stream' = Append(stream, j),
         stored \subseteq stored',
         at'[w] \in Holding => at[w] \in Holding,
         at'[w] \in Attempting => at[w] \in Attempting,
         at'[w] = "complete" => JobOf(w) \in stored',
         \A k \in Jobs : jobs'[k].status = "queued" =>
            \/ jobs[k].status = "queued"
            \/ at[w] \in Attempting /\ at'[w] \notin Attempting /\ JobOf(w) = k
  PROVE  JobsInv'
  <1> USE DEF JobsInv
  <1>1. \A v \in Workers : at[v] \in Holding =>
            JobOf(v)' = JobOf(v) /\ JobOf(v) \in Jobs
    BY HeldJob, HeldJobStable
  <1>2. \A v \in Workers \ {w} : at'[v] = at[v]
    BY DEF TypeOK
  <1>3. MessagesDistinct'
    BY <1>2 DEF MessagesDistinct
  <1>4. AttemptedNotQueued'
    BY <1>1, <1>2 DEF AttemptedNotQueued, OneAttemptAtATime, Attempting, Holding
  <1>5. StoredBeforeComplete'
    BY <1>1, <1>2 DEF StoredBeforeComplete, Attempting, Holding
  <1>6. OneAttemptAtATime'
    BY <1>1, <1>2 DEF OneAttemptAtATime, Attempting, Holding
  <1> QED BY <1>3, <1>4, <1>5, <1>6

LEMMA ReadStep ==
  ASSUME JobsInv, NEW w \in Workers, Read(w)
  PROVE  JobsInv'
  <1> USE DEF JobsInv, Read, Move, documents
  <1>1. TypeOK'
    BY DEF TypeOK, Holding, Attempting
  <1>2. MessagesDistinct'
    BY DEF MessagesDistinct, TypeOK, Holding, Attempting
  <1>3. \A v \in Workers : at'[v] \in Attempting =>
            at'[v] = at[v] /\ JobOf(v)' = JobOf(v) /\ jobs' = jobs
    BY DEF TypeOK, Attempting, JobOf
  <1>4. NewIsUntouched' /\ AttemptsLeft' /\ CompletedIsStored'
    BY DEF NewIsUntouched, AttemptsLeft, CompletedIsStored
  <1>5. AttemptedNotQueued' /\ StoredBeforeComplete' /\ OneAttemptAtATime'
    BY <1>3 DEF AttemptedNotQueued, StoredBeforeComplete, OneAttemptAtATime, Attempting
  <1> QED BY <1>1, <1>2, <1>4, <1>5

\* The UPDATE with its status guard: nobody was attempting the job, because it
\* was queued, and it had an attempt left.
LEMMA ClaimStep ==
  ASSUME JobsInv, NEW w \in Workers, Claim(w)
  PROVE  JobsInv'
  <1> USE DEF JobsInv, Claim, Move, redis, documents
  <1>1. CASE at'[w] = "ack"
    <2>1. jobs' = jobs
      BY <1>1 DEF TypeOK
    <2>2. TypeOK'
      BY <1>1, <2>1 DEF TypeOK, Holding, Attempting
    <2>3. NewIsUntouched' /\ AttemptsLeft' /\ CompletedIsStored'
      BY <2>1 DEF NewIsUntouched, AttemptsLeft, CompletedIsStored
    <2> QED BY <1>1, <2>1, <2>2, <2>3, WorkerStep DEF TypeOK, Holding, Attempting
  <1>2. CASE at'[w] = "ingest"
    <2> DEFINE j == JobOf(w)
               row == [status |-> "running", attempts |-> jobs[j].attempts + 1]
    <2>1. /\ j \in Jobs /\ submit[j] # "new"
          /\ at[w] = "claim" /\ at' = [at EXCEPT ![w] = "ingest"]
          /\ jobs[j].status = "queued"
          /\ jobs' = [jobs EXCEPT ![j] = row]
      BY <1>2, HeldJob, HeldJobSubmitted DEF TypeOK, Claimable, Holding
    <2> HIDE DEF j
    <2>2. row \in JobRow
      BY <2>1 DEF TypeOK, JobRow
    <2>3. TypeOK'
      BY <2>1, <2>2 DEF TypeOK, Holding, Attempting
    <2>4. AttemptsLeft'
      BY <2>1, IngestionAssumption DEF AttemptsLeft, TypeOK, JobRow
    <2>5. NewIsUntouched' /\ CompletedIsStored'
      BY <2>1 DEF NewIsUntouched, CompletedIsStored, TypeOK
    <2>6. MessagesDistinct'
      BY <2>1 DEF MessagesDistinct, TypeOK, Holding
    <2>7. \A v \in Workers \ {w} : at'[v] = at[v] /\ JobOf(v)' = JobOf(v)
      BY <2>1 DEF TypeOK, JobOf
    <2>8. JobOf(w)' = j /\ at'[w] = "ingest"
      BY <2>1 DEF TypeOK, JobOf, j
    <2>9. \A v \in Workers \ {w} : at[v] \in Attempting => JobOf(v) # j
      BY <2>1 DEF AttemptedNotQueued
    <2>10. AttemptedNotQueued'
      BY <2>1, <2>7, <2>8, <2>9, HeldJob
      DEF AttemptedNotQueued, TypeOK, Holding, Attempting
    <2>11. StoredBeforeComplete' /\ OneAttemptAtATime'
      BY <2>7, <2>8, <2>9 DEF StoredBeforeComplete, OneAttemptAtATime
    <2> QED BY <2>3, <2>4, <2>5, <2>6, <2>10, <2>11
  <1> QED BY <1>1, <1>2 DEF TypeOK

\* The steps that end or continue an attempt, and the UPDATEs they make.
LEMMA IngestStep ==
  ASSUME JobsInv, NEW w \in Workers, Ingest(w) \/ IngestRaises(w)
  PROVE  JobsInv'
  <1> USE DEF JobsInv, Ingest, IngestRaises, Move, redis, documents, StoreDocument
  <1>1. JobOf(w) \in Jobs
    BY HeldJob DEF Holding, Attempting
  <1>2. TypeOK'
    <2>1. store' \in [Documents -> Jobs \cup {NoJob}] /\ stored' \subseteq Jobs
      BY <1>1 DEF TypeOK
    <2> QED BY <2>1 DEF TypeOK, Holding, Attempting
  <1>3. NewIsUntouched' /\ AttemptsLeft' /\ CompletedIsStored'
    BY DEF NewIsUntouched, AttemptsLeft, CompletedIsStored
  <1> QED BY <1>2, <1>3, WorkerStep DEF TypeOK, Holding, Attempting

LEMMA CompleteStep ==
  ASSUME JobsInv, NEW w \in Workers, Complete(w) \/ CompleteRaises(w)
  PROVE  JobsInv'
  <1> USE DEF JobsInv, Move, redis, documents
  <1>1. /\ at[w] = "complete"
        /\ at'[w] \in {"ack", "fail"} /\ at' = [at EXCEPT ![w] = at'[w]]
        /\ jobs' = jobs \/ SetStatus(JobOf(w), "completed")
        /\ UNCHANGED <<created, submit, redis, message, documents, crashes>>
    BY DEF Complete, CompleteRaises, TypeOK
  <1>2. /\ JobOf(w) \in Jobs /\ submit[JobOf(w)] # "new" /\ JobOf(w) \in stored
    BY <1>1, HeldJob, HeldJobSubmitted DEF StoredBeforeComplete, Holding, Attempting
  <1>3. /\ jobs' \in [Jobs -> JobRow]
        /\ \A k \in Jobs : jobs'[k].attempts = jobs[k].attempts
        /\ \A k \in Jobs : jobs'[k].status \in {jobs[k].status, "completed"}
        /\ \A k \in Jobs \ {JobOf(w)} : jobs'[k] = jobs[k]
    <2>1. CASE jobs' = jobs
      BY <2>1 DEF TypeOK
    <2>2. CASE SetStatus(JobOf(w), "completed")
      BY <1>2, <2>2, SetStatusEffect DEF TypeOK
    <2> QED BY <1>1, <2>1, <2>2
  <1>4. TypeOK'
    BY <1>1, <1>3 DEF TypeOK, Holding, Attempting
  <1>5. NewIsUntouched' /\ AttemptsLeft' /\ CompletedIsStored'
    BY <1>1, <1>2, <1>3 DEF NewIsUntouched, AttemptsLeft, CompletedIsStored
  <1> QED BY <1>1, <1>3, <1>4, <1>5, WorkerStep DEF Holding, Attempting

LEMMA FailStep ==
  ASSUME JobsInv, NEW w \in Workers, Fail(w)
  PROVE  JobsInv'
  <1> USE DEF JobsInv, Move, redis, documents
  <1>1. /\ at[w] = "fail"
        /\ at'[w] \in {"ack", "requeue"} /\ at' = [at EXCEPT ![w] = at'[w]]
        /\ \/ SetStatus(JobOf(w), "failed")
           \/ ~Exhausted(JobOf(w)) /\ SetStatus(JobOf(w), "queued")
        /\ UNCHANGED <<created, submit, redis, message, documents, crashes>>
    BY DEF Fail, TypeOK
  <1>2. JobOf(w) \in Jobs /\ submit[JobOf(w)] # "new"
    BY <1>1, HeldJob, HeldJobSubmitted DEF Holding, Attempting
  <1>3. /\ jobs' \in [Jobs -> JobRow]
        /\ \A k \in Jobs : jobs'[k].attempts = jobs[k].attempts
        /\ \A k \in Jobs \ {JobOf(w)} : jobs'[k] = jobs[k]
        /\ \/ jobs'[JobOf(w)].status = "failed"
           \/ jobs'[JobOf(w)].status = "queued" /\ ~Exhausted(JobOf(w))
    BY <1>1, <1>2, SetStatusEffect DEF TypeOK
  <1>4. TypeOK'
    BY <1>1, <1>3 DEF TypeOK, Holding, Attempting
  <1>5. AttemptsLeft'
    <2>1. \A k \in Jobs : jobs[k].attempts \in Nat
      BY DEF TypeOK, JobRow
    <2>2. ~Exhausted(JobOf(w)) => jobs[JobOf(w)].attempts < MaxAttempts
      BY <1>2, <2>1, IngestionAssumption DEF Exhausted
    <2> QED BY <1>2, <1>3, <2>1, <2>2 DEF AttemptsLeft
  <1>6. NewIsUntouched' /\ CompletedIsStored'
    BY <1>1, <1>2, <1>3 DEF NewIsUntouched, CompletedIsStored
  <1>7. \A k \in Jobs : jobs'[k].status = "queued" =>
            jobs[k].status = "queued" \/ JobOf(w) = k
    BY <1>3
  <1> QED BY <1>1, <1>4, <1>5, <1>6, <1>7, WorkerStep DEF Holding, Attempting

LEMMA RequeueStep ==
  ASSUME JobsInv, NEW w \in Workers, Requeue(w)
  PROVE  JobsInv'
  <1> USE DEF JobsInv, Requeue, Move, documents
  <1>1. JobOf(w) \in Jobs /\ submit[JobOf(w)] # "new"
    BY HeldJob, HeldJobSubmitted DEF Holding
  <1>2. TypeOK'
    BY <1>1 DEF TypeOK, Holding, Attempting
  <1>3. NewIsUntouched'
    BY <1>1 DEF NewIsUntouched, TypeOK
  <1>4. AttemptsLeft' /\ CompletedIsStored'
    BY DEF AttemptsLeft, CompletedIsStored
  <1> QED BY <1>1, <1>2, <1>3, <1>4, WorkerStep DEF TypeOK, Holding, Attempting

\* Acknowledging removes only the worker's own entry.
LEMMA AckStep ==
  ASSUME JobsInv, NEW w \in Workers, Ack(w)
  PROVE  JobsInv'
  <1> USE DEF JobsInv, Ack, Move, documents
  <1>1. TypeOK'
    BY DEF TypeOK, MessagesDistinct, Holding, Attempting
  <1>2. NewIsUntouched' /\ AttemptsLeft' /\ CompletedIsStored'
    BY DEF NewIsUntouched, AttemptsLeft, CompletedIsStored
  <1> QED BY <1>1, <1>2, WorkerStep DEF TypeOK, Holding, Attempting

LEMMA CrashStep ==
  ASSUME JobsInv, NEW w \in Workers, Crash(w) \/ Restart(w)
  PROVE  JobsInv'
  <1> USE IngestionAssumption DEF JobsInv, Crash, Restart, Move, redis, documents
  <1>1. crashes' \in 0 .. MaxCrashes
    BY DEF TypeOK
  <1>2. TypeOK'
    BY <1>1 DEF TypeOK, Holding, Attempting
  <1>3. NewIsUntouched' /\ AttemptsLeft' /\ CompletedIsStored'
    BY DEF NewIsUntouched, AttemptsLeft, CompletedIsStored
  <1> QED BY <1>2, <1>3, WorkerStep DEF TypeOK, Holding, Attempting

-----------------------------------------------------------------------------

LEMMA InitJobs == Init => JobsInv
  BY IngestionAssumption
  DEF Init, JobsInv, TypeOK, JobRow, NewIsUntouched, MessagesDistinct,
      AttemptedNotQueued, AttemptsLeft, StoredBeforeComplete, OneAttemptAtATime,
      CompletedIsStored, Holding, Attempting

LEMMA NextJobs ==
  ASSUME JobsInv, [Next]_vars
  PROVE  JobsInv'
  <1>1. CASE \E j \in Jobs : Submit(j) \/ CrashSubmit(j)
    BY <1>1, CreateStep, EnqueueStep, WithdrawStep, SubmitEndsStep DEF Submit
  <1>2. CASE \E w \in Workers : Work(w) \/ Crash(w) \/ Restart(w)
    BY <1>2, ReadStep, ClaimStep, IngestStep, CompleteStep, FailStep, RequeueStep,
       AckStep, CrashStep
    DEF Work
  <1>3. CASE UNCHANGED vars
    BY <1>3
    DEF vars, JobsInv, TypeOK, NewIsUntouched, MessagesDistinct, AttemptedNotQueued,
        AttemptsLeft, StoredBeforeComplete, OneAttemptAtATime, CompletedIsStored, JobOf
  <1> QED BY <1>1, <1>2, <1>3 DEF Next

\* The pipeline keeps its inductive invariant under any workload and any
\* number of crashes, bounded or not.
THEOREM JobsInvariant == Spec => []JobsInv
  BY InitJobs, NextJobs, PTL DEF Spec

\* The job table, the stream with its pending list and the positions of API
\* requests and workers keep their types; a worker's message stays pending
\* until it acknowledges it.
THEOREM TypeCorrect == Spec => []TypeOK
  BY JobsInvariant, PTL DEF JobsInv

\* Two workers never process one job at the same time.
THEOREM AttemptsNeverOverlap == Spec => []OneAttemptAtATime
  BY JobsInvariant, PTL DEF JobsInv

\* A job that reads completed has had its document committed.
THEOREM CompletedHasDocument == Spec => []CompletedIsStored
  BY JobsInvariant, PTL DEF JobsInv

-----------------------------------------------------------------------------
(* The refinement of BoundedAttempts.                                      *)

Active == {j \in Jobs : Attempted(j) # {}}

Tries == [j \in Jobs |-> jobs[j].attempts]

\* What the mapped variables do when no worker begins or ends an attempt.
LEMMA ActiveKept ==
  ASSUME TypeOK,
         \A w \in Workers : at'[w] \in Attempting <=> at[w] \in Attempting,
         \A w \in Workers : at[w] \in Attempting => JobOf(w)' = JobOf(w)
  PROVE  Active' = Active
  BY DEF Active, Attempted

\* When worker w leaves its attempt the job is free: nobody else was at it.
LEMMA ActiveEnds ==
  ASSUME TypeOK, OneAttemptAtATime, NEW w \in Workers,
         at[w] \in Attempting, at'[w] \notin Attempting,
         \A v \in Workers \ {w} : at'[v] = at[v],
         \A v \in Workers : at[v] \in Attempting => JobOf(v)' = JobOf(v)
  PROVE  JobOf(w) \in Active /\ Active' = Active \ {JobOf(w)}
  <1>1. JobOf(w) \in Jobs
    BY HeldJob DEF Holding
  <1>2. \A j \in Jobs : (Attempted(j) # {})' <=> Attempted(j) # {} /\ j # JobOf(w)
    BY DEF Attempted, OneAttemptAtATime
  <1> QED BY <1>1, <1>2 DEF Active, Attempted

LEMMA ActiveBegins ==
  ASSUME TypeOK, NEW w \in Workers, NEW j \in Jobs,
         at[w] \notin Attempting, at'[w] \in Attempting, JobOf(w)' = j,
         \A v \in Workers \ {w} : at'[v] = at[v],
         \A v \in Workers : at[v] \in Attempting => JobOf(v)' = JobOf(v) /\ JobOf(v) # j
  PROVE  j \notin Active /\ Active' = Active \cup {j}
  <1>1. \A k \in Jobs : (Attempted(k) # {})' <=> Attempted(k) # {} \/ k = j
    BY DEF Attempted
  <1> QED BY <1>1 DEF Active, Attempted

\* Every step of the pipeline is a step of BoundedAttempts, or leaves its
\* variables alone.
LEMMA AttemptStep ==
  ASSUME JobsInv, [Next]_vars
  PROVE  \/ UNCHANGED <<Tries, Active, stored>>
         \/ \E j \in Jobs :
               \/ /\ j \notin Active
                  /\ Tries[j] < MaxAttempts
                  /\ Tries' = [Tries EXCEPT ![j] = @ + 1]
                  /\ Active' = Active \cup {j}
                  /\ stored' = stored
               \/ /\ j \in Active
                  /\ stored' = stored \cup {j}
                  /\ Tries' = Tries /\ Active' = Active
               \/ /\ j \in Active
                  /\ Active' = Active \ {j}
                  /\ Tries' = Tries /\ stored' = stored
  <1> USE DEF JobsInv
  <1>0. /\ jobs \in [Jobs -> JobRow]
        /\ \A w \in Workers : at[w] \in Holding => JobOf(w) \in Jobs
    BY HeldJob DEF TypeOK
  <1>1. ASSUME \A k \in Jobs : jobs'[k].attempts = jobs[k].attempts
        PROVE  Tries' = Tries
    BY <1>1 DEF Tries
  <1>2. ASSUME NEW j \in Jobs, Submit(j) \/ CrashSubmit(j)
        PROVE  UNCHANGED <<Tries, Active, stored>>
    <2>1. \A k \in Jobs : jobs'[k].attempts = jobs[k].attempts
      BY <1>0, <1>2, SetStatusEffect
      DEF Submit, Create, Enqueue, EnqueueRaises, Withdraw, RecordQueued, CrashSubmit
    <2>2. /\ UNCHANGED <<at, message, stored>>
          /\ stream' = stream \/ \E k \in Jobs : stream' = Append(stream, k)
      BY <1>2 DEF Submit, Create, Enqueue, EnqueueRaises, Withdraw, RecordQueued,
                  CrashSubmit, worker, documents, redis
    <2> QED BY <1>1, <2>1, <2>2, HeldJobStable, ActiveKept DEF Holding
  <1>3. ASSUME NEW w \in Workers, Read(w) \/ Requeue(w) \/ Ack(w) \/ Restart(w)
        PROVE  UNCHANGED <<Tries, Active, stored>>
    <2>1. /\ UNCHANGED <<jobs, stored>>
          /\ at' = [at EXCEPT ![w] = at'[w]]
          /\ at[w] \notin Attempting /\ at'[w] \notin Attempting
          /\ stream' = stream \/ \E k \in Jobs : stream' = Append(stream, k)
          /\ message' = [message EXCEPT ![w] = message'[w]]
      BY <1>0, <1>3 DEF TypeOK, Read, Requeue, Ack, Restart, Move, documents, redis,
                        Attempting, Holding
    <2>2. \A v \in Workers : at[v] \in Attempting => JobOf(v)' = JobOf(v)
      BY <2>1, HeldJobStable DEF TypeOK, Holding
    <2> QED BY <1>1, <2>1, <2>2, ActiveKept DEF TypeOK
  <1>4. ASSUME NEW w \in Workers, Claim(w)
        PROVE  \/ UNCHANGED <<Tries, Active, stored>>
               \/ /\ JobOf(w) \in Jobs \ Active
                  /\ Tries[JobOf(w)] < MaxAttempts
                  /\ Tries' = [Tries EXCEPT ![JobOf(w)] = @ + 1]
                  /\ Active' = Active \cup {JobOf(w)}
                  /\ stored' = stored
    <2>1. /\ at[w] = "claim" /\ at' = [at EXCEPT ![w] = at'[w]]
          /\ UNCHANGED <<stream, message, stored>>
      BY <1>4 DEF Claim, Move, redis, documents, TypeOK
    <2>2. \A v \in Workers : JobOf(v)' = JobOf(v)
      BY <2>1 DEF JobOf
    <2>3. CASE at'[w] = "ack"
      <3>1. jobs' = jobs
        BY <1>4, <2>3 DEF Claim, Move, TypeOK
      <3> QED BY <1>1, <2>1, <2>2, <2>3, <3>1, ActiveKept DEF TypeOK, Attempting
    <2>4. CASE at'[w] = "ingest"
      <3>1. /\ JobOf(w) \in Jobs
            /\ jobs[JobOf(w)].status = "queued"
            /\ jobs' = [jobs EXCEPT ![JobOf(w)] =
                    [status |-> "running", attempts |-> jobs[JobOf(w)].attempts + 1]]
        BY <1>0, <1>4, <2>1, <2>4 DEF Claim, Move, TypeOK, Claimable, Holding
      <3>2. Tries' = [Tries EXCEPT ![JobOf(w)] = @ + 1]
        BY <1>0, <3>1 DEF Tries
      <3>3. Tries[JobOf(w)] < MaxAttempts
        BY <3>1 DEF Tries, AttemptsLeft
      <3>4. \A v \in Workers : at[v] \in Attempting => JobOf(v) # JobOf(w)
        BY <3>1 DEF AttemptedNotQueued
      <3>5. JobOf(w) \notin Active /\ Active' = Active \cup {JobOf(w)}
        BY <2>1, <2>2, <2>4, <3>1, <3>4, ActiveBegins DEF TypeOK, Attempting
      <3> QED BY <2>1, <3>1, <3>2, <3>3, <3>5
    <2> QED BY <1>4, <2>3, <2>4 DEF Claim, Move, TypeOK
  <1>5. ASSUME NEW w \in Workers, Ingest(w) \/ IngestRaises(w) \/ CompleteRaises(w)
        PROVE  /\ Tries' = Tries /\ Active' = Active /\ JobOf(w) \in Active
               /\ stored' = stored \/ stored' = stored \cup {JobOf(w)}
    <2>1. /\ at[w] \in Attempting /\ at'[w] \in Attempting
          /\ at' = [at EXCEPT ![w] = at'[w]]
          /\ UNCHANGED <<stream, message>>
          /\ jobs' = jobs \/ SetStatus(JobOf(w), "completed")
          /\ stored' = stored \/ stored' = stored \cup {JobOf(w)}
      BY <1>5 DEF Ingest, IngestRaises, CompleteRaises, Move, redis, documents,
                  StoreDocument, TypeOK, Attempting
    <2>2. \A k \in Jobs : jobs'[k].attempts = jobs[k].attempts
      BY <1>0, <2>1, SetStatusEffect DEF Holding
    <2>3. Active' = Active
      BY <2>1, ActiveKept DEF TypeOK, JobOf
    <2>4. JobOf(w) \in Active
      BY <1>0, <2>1 DEF Active, Attempted, Holding
    <2> QED BY <1>1, <2>1, <2>2, <2>3, <2>4
  <1>6. ASSUME NEW w \in Workers, Complete(w) \/ Fail(w) \/ Crash(w)
        PROVE  \/ UNCHANGED <<Tries, Active, stored>>
               \/ /\ JobOf(w) \in Active
                  /\ Active' = Active \ {JobOf(w)}
                  /\ Tries' = Tries /\ stored' = stored
    <2>1. /\ at' = [at EXCEPT ![w] = at'[w]] /\ at'[w] \notin Attempting
          /\ UNCHANGED <<stream, message, stored>>
          /\ \/ jobs' = jobs
             \/ /\ at[w] \in Attempting
                /\ \E status \in {"queued", "completed", "failed"} :
                        SetStatus(JobOf(w), status)
      BY <1>6 DEF Complete, Fail, Crash, Move, redis, documents, TypeOK, Attempting
    <2>2. \A k \in Jobs : jobs'[k].attempts = jobs[k].attempts
      BY <1>0, <2>1, SetStatusEffect DEF Holding
    <2>3. \A v \in Workers : JobOf(v)' = JobOf(v)
      BY <2>1 DEF JobOf
    <2>4. CASE at[w] \in Attempting
      BY <1>1, <2>1, <2>2, <2>3, <2>4, ActiveEnds DEF TypeOK
    <2>5. CASE at[w] \notin Attempting
      BY <1>1, <2>1, <2>2, <2>3, <2>5, ActiveKept DEF TypeOK
    <2> QED BY <2>4, <2>5
  <1>7. CASE UNCHANGED vars
    BY <1>7 DEF vars, Tries, Active, Attempted, JobOf
  <1>8. ASSUME NEW w \in Workers PROVE JobOf(w) \in Active => JobOf(w) \in Jobs
    BY DEF Active
  <1> QED BY <1>2, <1>3, <1>4, <1>5, <1>6, <1>7, <1>8 DEF Next, Work

LEMMA InitAttempts == Init => Attempt!Init
  BY DEF Init, Attempt!Init, Attempted, Attempting

\* The pipeline implements its promise.
THEOREM PipelineImplementsAttempts == Spec => ImplementsAttempts
  <1>1. JobsInv /\ [Next]_vars => [Attempt!Next]_(Attempt!vars)
    BY AttemptStep
    DEF Tries, Active, Attempt!Next, Attempt!vars, Attempt!Begin, Attempt!Store, Attempt!End
  <1> QED BY <1>1, InitAttempts, JobsInvariant, PTL
    DEF Spec, ImplementsAttempts, Attempt!Spec

-----------------------------------------------------------------------------
(* Messages: how often a job is on the stream, and what is acknowledged.   *)

LEMMA DeliveriesFinite ==
  ASSUME TypeOK, NEW j
  PROVE  /\ IsFiniteSet(Deliveries(j))
         /\ Deliveries(j) \subseteq 1 .. Len(stream)
         /\ Cardinality(Deliveries(j)) \in Nat
  <1>1. stream \in Seq(Jobs)
    BY DEF TypeOK
  <1>2. Deliveries(j) \subseteq 1 .. Len(stream) /\ Len(stream) \in Nat
    BY <1>1 DEF Deliveries
  <1>3. IsFiniteSet(1 .. Len(stream))
    BY <1>2, FS_Interval
  <1> QED BY <1>2, <1>3, FS_Subset, FS_CardinalityType

\* A message more is a delivery more of its job, behind all others.
LEMMA AppendEffect ==
  ASSUME TypeOK, NEW j \in Jobs, stream' = Append(stream, j)
  PROVE  /\ DOMAIN stream' = 1 .. Len(stream) + 1
         /\ DOMAIN stream = 1 .. Len(stream)
         /\ Len(stream) \in Nat
         /\ stream'[Len(stream) + 1] = j
         /\ \A m \in DOMAIN stream : stream'[m] = stream[m]
         /\ \A k : k # j => Deliveries(k)' = Deliveries(k)
         /\ Deliveries(j)' = Deliveries(j) \cup {Len(stream) + 1}
         /\ Cardinality(Deliveries(j)') = Cardinality(Deliveries(j)) + 1
  <1>1. stream \in Seq(Jobs)
    BY DEF TypeOK
  <1>2. /\ DOMAIN stream' = 1 .. Len(stream) + 1
        /\ DOMAIN stream = 1 .. Len(stream)
        /\ Len(stream) \in Nat
        /\ stream'[Len(stream) + 1] = j
        /\ \A m \in DOMAIN stream : stream'[m] = stream[m]
    BY <1>1
  <1>3. \A k : k # j => Deliveries(k)' = Deliveries(k)
    BY <1>2 DEF Deliveries
  <1>4. Deliveries(j)' = Deliveries(j) \cup {Len(stream) + 1}
    BY <1>2 DEF Deliveries
  <1>5. Cardinality(Deliveries(j)') = Cardinality(Deliveries(j)) + 1
    <2>1. IsFiniteSet(Deliveries(j)) /\ Len(stream) + 1 \notin Deliveries(j)
      BY <1>2, DeliveriesFinite
    <2>2. Cardinality(Deliveries(j) \cup {Len(stream) + 1}) = Cardinality(Deliveries(j)) + 1
      BY <2>1, FS_AddElement
    <2> QED BY <1>4, <2>2
  <1> QED BY <1>2, <1>3, <1>4, <1>5

\* What a worker holds is a delivery of its job.
LEMMA CarrierDelivery ==
  ASSUME TypeOK, NEW w \in Workers, at[w] \in Holding
  PROVE  /\ message[w] \in Deliveries(JobOf(w))
         /\ message[w] \in pending
         /\ message[w] <= cursor
         /\ JobOf(w) \in Jobs
  BY HeldJob DEF TypeOK, Deliveries, JobOf

\* Two workers that carry one job carry one message, and the group hands a
\* message to one worker.
LEMMA CarriersDistinct ==
  ASSUME TypeOK, MessagesDistinct, LiveIsLast, NEW v \in Workers, NEW w \in Workers,
         at[v] \in Carrying, at[w] \in Carrying, JobOf(v) = JobOf(w)
  PROVE  v = w
  <1>1. message[v] \in Deliveries(JobOf(v)) /\ message[w] \in Deliveries(JobOf(v))
    BY CarrierDelivery DEF Carrying, Holding
  <1>2. message[v] = message[w]
    BY <1>1 DEF LiveIsLast, IsLast, TypeOK
  <1> QED BY <1>2 DEF MessagesDistinct, Carrying, Holding

\* While a worker carries a job, no message of the job is undelivered.
LEMMA CarriedDelivered ==
  ASSUME TypeOK, LiveIsLast, NEW w \in Workers, at[w] \in Carrying,
         NEW m \in DOMAIN stream, m > cursor
  PROVE  stream[m] # JobOf(w)
  <1>1. message[w] <= cursor
    BY CarrierDelivery DEF Carrying, Holding
  <1>2. m \in Deliveries(stream[m])
    BY DEF Deliveries
  <1>3. m \in Nat /\ message[w] \in Nat /\ cursor \in Nat
    BY DEF TypeOK
  <1> QED BY <1>1, <1>2, <1>3 DEF LiveIsLast, IsLast

LEMMA InitMessages == Init => MessagesInv
  <1> SUFFICES ASSUME Init PROVE MessagesInv
    OBVIOUS
  <1>1. \A j : Deliveries(j) = {}
    BY DEF Init, Deliveries
  <1>2. DOMAIN stream = {}
    BY DEF Init
  <1>3. Cardinality({}) = 0
    BY FS_EmptySet
  <1>4. LiveIsLast /\ LiveIsOpen /\ LastIsKept
    BY <1>1, <1>2 DEF Init, LiveIsLast, LiveIsOpen, LastIsKept, Carrying, Attempting
  <1>5. \A j \in Jobs : Cardinality(Deliveries(j)) = 0 /\ jobs[j].attempts = 0
    BY <1>1, <1>3 DEF Init
  <1>6. MessagesPaid
    BY <1>5, IngestionAssumption DEF Init, MessagesPaid, Attempting
  <1> QED BY <1>4, <1>6 DEF MessagesInv

-----------------------------------------------------------------------------
(* Steps that leave the stream and the pending list alone.                 *)

\* A step of the API that adds no message: what it changes of a job, it changes
\* of one that has no message or makes it read failed.
LEMMA QuietApi ==
  ASSUME JobsInv, MessagesInv, NEW j \in Jobs,
         UNCHANGED <<stream, cursor, pending, at, message>>,
         submit'[j] = "enqueue" => submit[j] = "new" /\ jobs'[j].status = "queued",
         submit'[j] # "new",
         \A k \in Jobs : k # j => submit'[k] = submit[k],
         \A k \in Jobs : jobs'[k].attempts = jobs[k].attempts,
         \A k \in Jobs : jobs'[k].status \in {jobs[k].status, "failed"} \/ submit[k] = "new"
  PROVE  MessagesInv'
  <1> USE DEF MessagesInv
  <1>1. \A k : Deliveries(k)' = Deliveries(k) /\ \A m : IsLast(m, k)' <=> IsLast(m, k)
    BY DEF Deliveries, IsLast
  <1>2. \A w \in Workers : JobOf(w)' = JobOf(w)
    BY DEF JobOf
  <1>3. \A k \in Jobs : Deliveries(k) # {} => jobs'[k].status \in {jobs[k].status, "failed"}
    BY DEF LiveIsLast
  <1>4. \A w \in Workers : at[w] \in Holding => JobOf(w) \in Jobs /\ Deliveries(JobOf(w)) # {}
    BY CarrierDelivery DEF JobsInv
  <1>5. \A m \in DOMAIN stream : stream[m] \in Jobs /\ Deliveries(stream[m]) # {}
    BY DEF JobsInv, TypeOK, Deliveries
  <1>6. LiveIsLast'
    BY <1>1, <1>2 DEF LiveIsLast
  <1>7. LiveIsOpen'
    <2>1. \A k \in Jobs : submit'[k] = "enqueue" => jobs'[k].status \in {"queued", "failed"}
      BY DEF LiveIsOpen
    <2> QED BY <1>2, <1>3, <1>4, <1>5, <2>1 DEF LiveIsOpen, Holding
  <1>8. LastIsKept'
    BY <1>1, <1>2, <1>3, <1>4 DEF LastIsKept, Holding
  <1>9. MessagesPaid'
    BY <1>1, <1>2, <1>4 DEF MessagesPaid, Holding
  <1> QED BY <1>6, <1>7, <1>8, <1>9

\* A step of a worker that reads, adds and acknowledges nothing: what it
\* changes of a job, it changes of one whose message it carries.
LEMMA QuietWorker ==
  ASSUME JobsInv, JobsInv', MessagesInv, NEW w \in Workers,
         UNCHANGED <<stream, cursor, pending, message, submit>>,
         at' = [at EXCEPT ![w] = at'[w]],
         \A k \in Jobs : jobs'[k] = jobs[k] \/ (at[w] \in Carrying /\ k = JobOf(w)),
         at'[w] \in Carrying => at[w] \in Carrying,
         at[w] \in Carrying => jobs'[JobOf(w)].attempts >= jobs[JobOf(w)].attempts,
         at'[w] # "claim",
         at'[w] = "requeue" => /\ jobs'[JobOf(w)].status \in {"queued", "failed"}
                               /\ jobs'[JobOf(w)].attempts < MaxAttempts,
         at'[w] \in Attempting \cup {"requeue"} =>
            \/ at[w] \in Attempting
            \/ jobs'[JobOf(w)].attempts = jobs[JobOf(w)].attempts + 1,
         at'[w] = "ack" => at[w] \in Carrying
                           /\ jobs'[JobOf(w)].status \in {"completed", "failed"}
  PROVE  MessagesInv'
  <1> USE DEF MessagesInv
  <1>1. \A k : Deliveries(k)' = Deliveries(k) /\ \A m : IsLast(m, k)' <=> IsLast(m, k)
    BY DEF Deliveries, IsLast
  <1>2. \A v \in Workers : JobOf(v)' = JobOf(v)
    BY DEF JobOf
  <1>3. \A v \in Workers : v # w => at'[v] = at[v]
    BY DEF JobsInv, TypeOK
  <1>4. \A v \in Workers : at[v] \in Holding =>
            /\ JobOf(v) \in Jobs
            /\ message[v] \in Deliveries(JobOf(v))
            /\ message[v] \in pending
    BY CarrierDelivery DEF JobsInv
  <1>5. \A v \in Workers : v # w /\ at[v] \in Carrying => jobs'[JobOf(v)] = jobs[JobOf(v)]
    BY <1>4, CarriersDistinct DEF JobsInv, Carrying, Holding
  <1>6. \A m \in DOMAIN stream : m > cursor => jobs'[stream[m]] = jobs[stream[m]]
    BY CarriedDelivered DEF JobsInv, TypeOK
  <1>7. \A k \in Jobs : /\ jobs[k].attempts \in Nat /\ jobs'[k].attempts \in Nat
                        /\ jobs'[k].attempts >= jobs[k].attempts
                        /\ Cardinality(Deliveries(k)) \in Nat
    <2>1. \A k \in Jobs : jobs[k].attempts \in Nat /\ jobs'[k].attempts \in Nat
      BY DEF JobsInv, TypeOK, JobRow
    <2>2. \A k \in Jobs : Cardinality(Deliveries(k)) \in Nat
      BY DeliveriesFinite DEF JobsInv
    <2> QED BY <2>1, <2>2
  <1>8. LiveIsLast'
    BY <1>1, <1>2, <1>3 DEF LiveIsLast
  <1>9. LiveIsOpen'
    <2>1. \A k \in Jobs : submit[k] = "enqueue" => jobs'[k] = jobs[k]
      BY <1>4 DEF LiveIsLast, Carrying, Holding
    <2> QED BY <1>2, <1>3, <1>5, <1>6, <2>1 DEF LiveIsOpen, Carrying
  <1>10. LastIsKept'
    <2>1. ASSUME NEW v \in Workers, at'[v] = "ack", IsLast(message[v], JobOf(v))
          PROVE  jobs'[JobOf(v)].status \in {"completed", "failed"}
      <3>1. CASE v = w
        BY <2>1, <3>1
      <3>2. CASE v # w
        <4>1. at[v] = "ack" /\ jobs[JobOf(v)].status \in {"completed", "failed"}
          BY <1>3, <2>1, <3>2 DEF LastIsKept
        <4>2. CASE jobs'[JobOf(v)] = jobs[JobOf(v)]
          BY <4>1, <4>2
        <4>3. CASE at[w] \in Carrying /\ JobOf(v) = JobOf(w)
          <5>1. message[v] = message[w]
            BY <1>4, <2>1, <4>1, <4>3 DEF LiveIsLast, IsLast, Carrying, Holding, JobsInv, TypeOK
          <5> QED BY <3>2, <4>1, <4>3, <5>1 DEF JobsInv, MessagesDistinct, Carrying, Holding
        <4> QED BY <1>4, <4>1, <4>2, <4>3 DEF Holding
      <3> QED BY <3>1, <3>2
    <2>2. ASSUME NEW k \in Jobs, jobs'[k].status \in {"queued", "running"},
                 NEW m \in Deliveries(k), IsLast(m, k)
          PROVE  m > cursor \/ m \in pending
      <3>1. CASE jobs'[k] = jobs[k]
        BY <2>2, <3>1 DEF LastIsKept
      <3>2. CASE at[w] \in Carrying /\ k = JobOf(w)
        <4>1. m = message[w]
          BY <1>4, <2>2, <3>2, DeliveriesFinite
          DEF LiveIsLast, IsLast, Carrying, Holding, JobsInv, TypeOK
        <4> QED BY <1>4, <3>2, <4>1 DEF Carrying, Holding
      <3> QED BY <3>1, <3>2
    <2> QED BY <1>1, <1>2, <2>1, <2>2 DEF LastIsKept
  <1>11. MessagesPaid'
    <2>1. \A k \in Jobs :
            /\ Cardinality(Deliveries(k)) <= MaxAttempts
            /\ Cardinality(Deliveries(k)) <= jobs'[k].attempts + 1
      BY <1>7 DEF MessagesPaid
    <2>2. ASSUME NEW v \in Workers, at'[v] \in Attempting \cup {"requeue"}
          PROVE  Cardinality(Deliveries(JobOf(v))) <= jobs'[JobOf(v)].attempts
      <3>1. CASE v # w
        BY <1>3, <1>5, <2>2, <3>1 DEF MessagesPaid, Carrying
      <3>2. CASE v = w
        <4>1. at[w] \in Carrying /\ JobOf(w) \in Jobs
          BY <1>4, <2>2, <3>2 DEF Carrying, Holding
        <4> QED BY <1>7, <2>2, <3>2, <4>1 DEF MessagesPaid
      <3> QED BY <3>1, <3>2
    <2>3. ASSUME NEW v \in Workers, at'[v] = "requeue"
          PROVE  jobs'[JobOf(v)].attempts < MaxAttempts
      BY <1>3, <1>5, <2>3 DEF MessagesPaid, Carrying
    <2> QED BY <1>1, <1>2, <2>1, <2>2, <2>3 DEF MessagesPaid
  <1> QED BY <1>8, <1>9, <1>10, <1>11

LEMMA SubmitMessages ==
  ASSUME JobsInv, MessagesInv, NEW j \in Jobs,
         Create(j) \/ Withdraw(j) \/ RecordQueued(j) \/ CrashSubmit(j)
  PROVE  MessagesInv'
  <1>1. CASE Create(j)
    <2>1. /\ \A k \in Jobs : jobs'[k].attempts = jobs[k].attempts
          /\ \A k \in Jobs \ {j} : jobs'[k] = jobs[k]
          /\ jobs'[j].status = "queued"
      BY <1>1, SetStatusEffect DEF Create, JobsInv, TypeOK
    <2> QED BY <1>1, <2>1, QuietApi DEF Create, redis, worker, JobsInv, TypeOK
  <1>2. CASE Withdraw(j)
    <2>1. /\ \A k \in Jobs : jobs'[k].attempts = jobs[k].attempts
          /\ \A k \in Jobs \ {j} : jobs'[k] = jobs[k]
          /\ jobs'[j].status = "failed"
      BY <1>2, SetStatusEffect DEF Withdraw, JobsInv, TypeOK
    <2> QED BY <1>2, <2>1, QuietApi DEF Withdraw, redis, worker, JobsInv, TypeOK
  <1>3. CASE RecordQueued(j) \/ CrashSubmit(j)
    BY <1>3, QuietApi DEF RecordQueued, CrashSubmit, redis, worker, JobsInv, TypeOK, Submitting
  <1> QED BY <1>1, <1>2, <1>3

\* The first message of a job; nobody carries the job yet.
LEMMA EnqueueMessages ==
  ASSUME JobsInv, MessagesInv, NEW j \in Jobs, Enqueue(j) \/ EnqueueRaises(j)
  PROVE  MessagesInv'
  <1> USE DEF MessagesInv
  <1>1. /\ submit[j] = "enqueue"
        /\ \E next \in {"record", "withdraw"} : submit' = [submit EXCEPT ![j] = next]
        /\ stream' = stream \/ stream' = Append(stream, j)
        /\ UNCHANGED <<jobs, cursor, pending, at, message>>
    BY DEF Enqueue, EnqueueRaises, worker
  <1>2. CASE stream' = stream
    BY <1>1, <1>2, QuietApi DEF JobsInv, TypeOK
  <1>3. CASE stream' = Append(stream, j)
    <2>0. PICK last \in Nat : last = Len(stream) + 1
      BY <1>3, AppendEffect DEF JobsInv
    <2>1. /\ Deliveries(j) = {}
          /\ Deliveries(j)' = {last}
          /\ \A k : k # j => Deliveries(k)' = Deliveries(k)
          /\ Cardinality(Deliveries(j)') = 1
      <3>1. Deliveries(j) = {} /\ Cardinality({}) = 0
        BY <1>1, FS_EmptySet DEF LiveIsLast
      <3>2. /\ Deliveries(j)' = Deliveries(j) \cup {last}
            /\ \A k : k # j => Deliveries(k)' = Deliveries(k)
            /\ Cardinality(Deliveries(j)') = Cardinality(Deliveries(j)) + 1
        BY <1>3, <2>0, AppendEffect DEF JobsInv
      <3> QED BY <3>1, <3>2
    <2>2. /\ DOMAIN stream' = 1 .. last /\ DOMAIN stream = 1 .. Len(stream)
          /\ Len(stream) \in Nat /\ stream'[last] = j
          /\ \A m \in DOMAIN stream : stream'[m] = stream[m]
      BY <1>3, <2>0, AppendEffect DEF JobsInv
    <2>3. \A w \in Workers : at[w] \in Holding =>
            JobOf(w)' = JobOf(w) /\ JobOf(w) # j /\ JobOf(w) \in Jobs
      BY <1>1, <1>3, <2>1, CarrierDelivery, HeldJobStable DEF JobsInv
    <2>4. \A m \in DOMAIN stream : stream[m] # j /\ stream[m] \in Jobs
      BY <2>1 DEF Deliveries, JobsInv, TypeOK
    <2>5. \A k : k # j => \A m : IsLast(m, k)' <=> IsLast(m, k)
      BY <2>1 DEF IsLast
    <2>6. IsLast(last, j)'
      BY <2>1, <2>2 DEF IsLast
    <2>7. \A m \in DOMAIN stream' : m = last \/ m \in DOMAIN stream
      BY <2>0, <2>2
    <2>8. LiveIsLast'
      <3>1. \A k \in Jobs : submit'[k] \in {"new", "enqueue"} => Deliveries(k)' = {}
        BY <1>1, <2>1 DEF LiveIsLast, JobsInv, TypeOK
      <3>2. \A m \in DOMAIN stream' : m > cursor => IsLast(m, stream[m])'
        BY <2>2, <2>4, <2>5, <2>6, <2>7 DEF LiveIsLast
      <3>3. \A w \in Workers : at[w] \in Carrying => IsLast(message[w], JobOf(w))'
        BY <1>1, <2>3, <2>5 DEF LiveIsLast, Carrying, Holding
      <3> QED BY <1>1, <3>1, <3>2, <3>3 DEF LiveIsLast
    <2>9. LiveIsOpen'
      <3>1. jobs[j].status \in {"queued", "failed"}
        BY <1>1 DEF LiveIsOpen
      <3>2. \A k \in Jobs : submit'[k] = "enqueue" => jobs[k].status \in {"queued", "failed"}
        BY <1>1 DEF LiveIsOpen, JobsInv, TypeOK
      <3> QED BY <1>1, <2>2, <2>3, <2>4, <2>7, <3>1, <3>2 DEF LiveIsOpen, Holding
    <2>10. LastIsKept'
      <3>1. \A k \in Jobs : \A m : m \in Deliveries(k)' /\ IsLast(m, k)' =>
                (m = last /\ k = j) \/ (k # j /\ m \in Deliveries(k) /\ IsLast(m, k))
        BY <2>1, <2>5
      <3>2. last > cursor
        BY <2>0 DEF JobsInv, TypeOK
      <3> QED BY <1>1, <2>3, <2>5, <3>1, <3>2 DEF LastIsKept, Holding
    <2>11. MessagesPaid'
      <3>1. \A k \in Jobs : jobs[k].attempts \in Nat
        BY DEF JobsInv, TypeOK, JobRow
      <3>2. \A k \in Jobs : /\ Cardinality(Deliveries(k)') <= MaxAttempts
                            /\ Cardinality(Deliveries(k)') <= jobs[k].attempts + 1
        BY <2>1, <3>1, IngestionAssumption DEF MessagesPaid
      <3>3. \A w \in Workers : at[w] \in Holding =>
                Deliveries(JobOf(w))' = Deliveries(JobOf(w))
        BY <2>1, <2>3
      <3> QED BY <1>1, <2>3, <3>2, <3>3 DEF MessagesPaid, Holding, Attempting
    <2> QED BY <2>8, <2>9, <2>10, <2>11
  <1> QED BY <1>1, <1>2, <1>3

\* The message after the one the worker carries; the worker is the only one to
\* carry the job, so no message of it was undelivered.
LEMMA RequeueMessages ==
  ASSUME JobsInv, MessagesInv, NEW w \in Workers, Requeue(w)
  PROVE  MessagesInv'
  <1> USE DEF MessagesInv
  <1>1. /\ at[w] = "requeue" /\ at'[w] = "ack"
        /\ \A v \in Workers : v # w => at'[v] = at[v]
        /\ UNCHANGED <<jobs, submit, cursor, pending, message>>
    BY DEF Requeue, Move, JobsInv, TypeOK
  <1>2. PICK j \in Jobs : j = JobOf(w)
    BY <1>1, HeldJob DEF JobsInv, Holding
  <1>3. stream' = Append(stream, j)
    BY <1>2 DEF Requeue
  <1>4. PICK last \in Nat : last = Len(stream) + 1
    BY <1>3, AppendEffect DEF JobsInv
  <1>5. /\ Deliveries(j)' = Deliveries(j) \cup {last}
        /\ \A k : k # j => Deliveries(k)' = Deliveries(k)
        /\ Cardinality(Deliveries(j)') = Cardinality(Deliveries(j)) + 1
    BY <1>3, <1>4, AppendEffect DEF JobsInv
  <1>6. /\ DOMAIN stream' = 1 .. last /\ DOMAIN stream = 1 .. Len(stream)
        /\ Len(stream) \in Nat /\ stream'[last] = j
        /\ \A m \in DOMAIN stream : stream'[m] = stream[m]
        /\ \A m \in DOMAIN stream' : m = last \/ m \in DOMAIN stream
        /\ last > cursor
    BY <1>3, <1>4, AppendEffect DEF JobsInv, TypeOK
  <1>7. \A v \in Workers : at[v] \in Holding =>
            /\ JobOf(v)' = JobOf(v)
            /\ JobOf(v) \in Jobs
            /\ message[v] \in Deliveries(JobOf(v))
            /\ message[v] < last
    <2> SUFFICES ASSUME NEW v \in Workers, at[v] \in Holding
                 PROVE  /\ JobOf(v)' = JobOf(v)
                        /\ JobOf(v) \in Jobs
                        /\ message[v] \in Deliveries(JobOf(v))
                        /\ message[v] < last
      OBVIOUS
    <2>1. JobOf(v) \in Jobs /\ message[v] \in Deliveries(JobOf(v)) /\ message[v] <= cursor
      BY CarrierDelivery DEF JobsInv
    <2>2. JobOf(v)' = JobOf(v)
      BY <1>1, <1>3, HeldJobStable DEF JobsInv
    <2>3. message[v] < last
      BY <1>4, <2>1 DEF JobsInv, TypeOK
    <2> QED BY <2>1, <2>2, <2>3
  <1>8. \A v \in Workers : v # w /\ at[v] \in Carrying => JobOf(v) # j
    BY <1>1, <1>2, CarriersDistinct DEF JobsInv, Carrying
  <1>9. \A m \in DOMAIN stream : stream[m] \in Jobs /\ (m > cursor => stream[m] # j)
    BY <1>1, <1>2, CarriedDelivered DEF JobsInv, TypeOK, Carrying
  <1>10. \A k : k # j => \A m : IsLast(m, k)' <=> IsLast(m, k)
    BY <1>5 DEF IsLast
  <1>11. \A m : IsLast(m, j)' => last <= m
    BY <1>5 DEF IsLast
  <1>12. IsLast(last, j)'
    BY <1>4, <1>5, DeliveriesFinite DEF IsLast, JobsInv
  <1>13. LiveIsLast'
    <2>1. \A k \in Jobs : submit'[k] \in {"new", "enqueue"} => Deliveries(k)' = {}
      <3>1. submit[j] \notin {"new", "enqueue"}
        BY <1>1, <1>2, <1>7 DEF LiveIsLast, Holding
      <3> QED BY <1>1, <1>5, <3>1 DEF LiveIsLast
    <2>2. \A m \in DOMAIN stream' : m > cursor => IsLast(m, stream[m])'
      BY <1>6, <1>9, <1>10, <1>12 DEF LiveIsLast
    <2>3. \A v \in Workers : at'[v] \in Carrying => IsLast(message[v], JobOf(v))'
      BY <1>1, <1>7, <1>8, <1>10 DEF LiveIsLast, Carrying, Holding, Attempting
    <2> QED BY <1>1, <2>1, <2>2, <2>3 DEF LiveIsLast
  <1>14. LiveIsOpen'
    <2>1. jobs[j].status \in {"queued", "failed"}
      BY <1>1, <1>2 DEF LiveIsOpen
    <2> QED BY <1>1, <1>6, <1>7, <1>9, <2>1 DEF LiveIsOpen, Holding
  <1>15. LastIsKept'
    <2>1. \A v \in Workers : at'[v] = "ack" /\ IsLast(message[v], JobOf(v))' => JobOf(v) # j
      <3> SUFFICES ASSUME NEW v \in Workers, at'[v] = "ack", IsLast(message[v], JobOf(v))',
                          JobOf(v) = j
                   PROVE  FALSE
        OBVIOUS
      <3>1. at[v] \in Holding
        BY <1>1 DEF Holding
      <3>2. JobOf(v)' = j /\ message'[v] = message[v] /\ message[v] < last
        BY <1>1, <1>7, <3>1
      <3>3. message[v] \in Nat
        BY DEF JobsInv, TypeOK
      <3> QED BY <1>11, <3>2, <3>3
    <2>2. \A v \in Workers : at'[v] = "ack" /\ IsLast(message[v], JobOf(v))' =>
            jobs'[JobOf(v)'].status \in {"completed", "failed"}
      BY <1>1, <1>2, <1>7, <1>10, <2>1 DEF LastIsKept, Holding
    <2>3. \A k \in Jobs : jobs[k].status \in {"queued", "running"} =>
            \A m \in Deliveries(k)' : IsLast(m, k)' => m > cursor \/ m \in pending
      BY <1>4, <1>5, <1>6, <1>10, <1>11, DeliveriesFinite DEF LastIsKept, JobsInv
    <2> QED BY <1>1, <2>2, <2>3 DEF LastIsKept
  <1>16. MessagesPaid'
    <2>1. \A k \in Jobs : jobs[k].attempts \in Nat /\ Cardinality(Deliveries(k)) \in Nat
      BY DeliveriesFinite DEF JobsInv, TypeOK, JobRow
    <2>2. /\ Cardinality(Deliveries(j)) <= jobs[j].attempts
          /\ jobs[j].attempts < MaxAttempts
      BY <1>1, <1>2 DEF MessagesPaid
    <2>3. ASSUME NEW k \in Jobs
          PROVE  /\ Cardinality(Deliveries(k)') <= MaxAttempts
                 /\ Cardinality(Deliveries(k)') <= jobs[k].attempts + 1
      <3>1. CASE k = j
        <4>1. Cardinality(Deliveries(k)') = Cardinality(Deliveries(j)) + 1
          BY <1>5, <3>1
        <4>2. MaxAttempts \in Nat /\ jobs[j].attempts \in Nat /\ Cardinality(Deliveries(j)) \in Nat
          BY <2>1, IngestionAssumption
        <4> QED BY <2>2, <3>1, <4>1, <4>2
      <3>2. CASE k # j
        BY <1>5, <3>2 DEF MessagesPaid
      <3> QED BY <3>1, <3>2
    <2>4. \A v \in Workers : v # w /\ at[v] \in Carrying =>
            Deliveries(JobOf(v))' = Deliveries(JobOf(v))
      BY <1>5, <1>7, <1>8 DEF Carrying, Holding
    <2> QED BY <1>1, <1>7, <2>3, <2>4 DEF MessagesPaid, Carrying, Holding, Attempting
  <1> QED BY <1>13, <1>14, <1>15, <1>16

\* XREADGROUP: the next entry is no longer undelivered, and its worker carries it.
LEMMA ReadMessages ==
  ASSUME JobsInv, MessagesInv, NEW w \in Workers, Read(w)
  PROVE  MessagesInv'
  <1> USE DEF MessagesInv
  <1>1. PICK next \in 1 .. Len(stream) : next = cursor + 1
    BY DEF Read, JobsInv, TypeOK
  <1>2. /\ at[w] = "reading" /\ at'[w] = "claim"
        /\ \A v \in Workers : v # w => at'[v] = at[v] /\ message'[v] = message[v]
        /\ message'[w] = next /\ cursor' = next /\ pending' = pending \cup {next}
        /\ next > cursor /\ next \in DOMAIN stream
        /\ UNCHANGED <<jobs, submit, stream>>
    BY <1>1 DEF Read, Move, JobsInv, TypeOK
  <1>3. \A k : Deliveries(k)' = Deliveries(k) /\ \A m : IsLast(m, k)' <=> IsLast(m, k)
    BY <1>2 DEF Deliveries, IsLast
  <1>4. \A v \in Workers : v # w => JobOf(v)' = JobOf(v)
    BY <1>2 DEF JobOf
  <1>5. JobOf(w)' = stream[next]
    BY <1>2 DEF JobOf
  <1>6. LiveIsLast'
    <2>1. \A m \in DOMAIN stream : m > cursor' => m > cursor
      BY <1>1, <1>2 DEF JobsInv, TypeOK
    <2>2. IsLast(message[w], JobOf(w))'
      BY <1>2, <1>3, <1>5 DEF LiveIsLast
    <2>3. \A v \in Workers : at'[v] \in Carrying => IsLast(message[v], JobOf(v))'
      <3> SUFFICES ASSUME NEW v \in Workers, at'[v] \in Carrying, v # w
                   PROVE  IsLast(message[v], JobOf(v))'
        BY <2>2
      <3>1. IsLast(message[v], JobOf(v))
        BY <1>2 DEF LiveIsLast
      <3> QED BY <1>2, <1>3, <1>4, <3>1
    <2>4. \A m \in DOMAIN stream' : m > cursor' => IsLast(m, stream[m])'
      BY <1>2, <1>3, <2>1 DEF LiveIsLast
    <2> QED BY <1>2, <1>3, <2>3, <2>4 DEF LiveIsLast
  <1>7. LiveIsOpen'
    <2>1. \A m \in DOMAIN stream : m > cursor' => m > cursor
      BY <1>1, <1>2 DEF JobsInv, TypeOK
    <2> QED BY <1>2, <1>4, <1>5, <2>1 DEF LiveIsOpen
  <1>8. LastIsKept'
    <2>1. \A v \in Workers : at'[v] = "ack" =>
            v # w /\ at[v] = "ack" /\ (IsLast(message[v], JobOf(v))' => IsLast(message[v], JobOf(v)))
      BY <1>2, <1>3, <1>4
    <2>2. \A v \in Workers : at'[v] = "ack" /\ IsLast(message[v], JobOf(v))' =>
            jobs'[JobOf(v)'].status \in {"completed", "failed"}
      BY <1>2, <1>4, <2>1 DEF LastIsKept
    <2>3. \A k \in Jobs : \A m \in Deliveries(k) : m > cursor => m > cursor' \/ m = next
      BY <1>1, <1>2, DeliveriesFinite DEF JobsInv, TypeOK
    <2>4. \A k \in Jobs : jobs'[k].status \in {"queued", "running"} =>
            \A m \in Deliveries(k)' : IsLast(m, k)' => m > cursor' \/ m \in pending'
      BY <1>2, <1>3, <2>3 DEF LastIsKept
    <2> QED BY <2>2, <2>4 DEF LastIsKept
  <1>9. MessagesPaid'
    BY <1>2, <1>3, <1>4 DEF MessagesPaid, Attempting
  <1> QED BY <1>6, <1>7, <1>8, <1>9

\* XACK: what is acknowledged is not the last message of a job that goes on.
LEMMA AckMessages ==
  ASSUME JobsInv, MessagesInv, NEW w \in Workers, Ack(w)
  PROVE  MessagesInv'
  <1> USE DEF MessagesInv
  <1>1. /\ at[w] = "ack" /\ at'[w] = "reading"
        /\ \A v \in Workers : v # w => at'[v] = at[v]
        /\ pending' = pending \ {message[w]}
        /\ UNCHANGED <<jobs, submit, stream, cursor, message>>
    BY DEF Ack, Move, JobsInv, TypeOK
  <1>2. \A k : Deliveries(k)' = Deliveries(k) /\ \A m : IsLast(m, k)' <=> IsLast(m, k)
    BY <1>1 DEF Deliveries, IsLast
  <1>3. \A v \in Workers : JobOf(v)' = JobOf(v)
    BY <1>1 DEF JobOf
  <1>4. LiveIsLast' /\ LiveIsOpen'
    BY <1>1, <1>2, <1>3 DEF LiveIsLast, LiveIsOpen, Carrying, Attempting
  <1>5. LastIsKept'
    <2>1. ASSUME NEW k \in Jobs, jobs[k].status \in {"queued", "running"},
                 NEW m \in Deliveries(k), IsLast(m, k)
          PROVE  m > cursor \/ m \in pending'
      <3>1. m > cursor \/ m \in pending
        BY <2>1 DEF LastIsKept
      <3>2. m # message[w]
        BY <1>1, <2>1 DEF LastIsKept, Deliveries, JobOf
      <3> QED BY <1>1, <3>1, <3>2
    <2>2. \A v \in Workers : at'[v] = "ack" =>
            v # w /\ at[v] = "ack" /\ (IsLast(message[v], JobOf(v))' => IsLast(message[v], JobOf(v)))
      BY <1>1, <1>2, <1>3
    <2> QED BY <1>1, <1>2, <1>3, <2>1, <2>2 DEF LastIsKept
  <1>6. MessagesPaid'
    BY <1>1, <1>2, <1>3 DEF MessagesPaid, Attempting
  <1> QED BY <1>4, <1>5, <1>6

\* A claim that matches no row finds a job that has ended.
LEMMA ClaimMessages ==
  ASSUME JobsInv, JobsInv', MessagesInv, NEW w \in Workers, Claim(w)
  PROVE  MessagesInv'
  <1>1. /\ JobOf(w) \in Jobs
        /\ jobs[JobOf(w)].status \in {"queued", "failed"}
        /\ jobs[JobOf(w)].attempts \in Nat
    BY HeldJob DEF Claim, Move, MessagesInv, LiveIsOpen, JobsInv, TypeOK, JobRow, Holding
  <1>2. /\ at[w] \in Carrying
        /\ at' = [at EXCEPT ![w] = at'[w]]
        /\ at'[w] \in {"ack", "ingest"}
        /\ UNCHANGED <<stream, cursor, pending, message, submit>>
    BY DEF Claim, Move, redis, JobsInv, TypeOK, Carrying
  <1>3. CASE at'[w] = "ack"
    <2>1. jobs' = jobs /\ jobs[JobOf(w)].status # "queued"
      BY <1>3 DEF Claim, Move, Claimable, JobsInv, TypeOK
    <2> QED BY <1>1, <1>2, <1>3, <2>1, QuietWorker DEF Attempting
  <1>4. CASE at'[w] = "ingest"
    <2>1. jobs' = [jobs EXCEPT ![JobOf(w)] =
                [status |-> "running", attempts |-> @.attempts + 1]]
      BY <1>4 DEF Claim, Move, JobsInv, TypeOK
    <2>2. /\ jobs'[JobOf(w)].attempts = jobs[JobOf(w)].attempts + 1
          /\ \A k \in Jobs : jobs'[k] = jobs[k] \/ k = JobOf(w)
      BY <1>1, <2>1 DEF JobsInv, TypeOK
    <2> QED BY <1>1, <1>2, <1>4, <2>2, QuietWorker DEF Attempting
  <1> QED BY <1>2, <1>3, <1>4

\* The end of an attempt: completed, failed, or queued again with an attempt left.
LEMMA AttemptMessages ==
  ASSUME JobsInv, JobsInv', MessagesInv, NEW w \in Workers,
         Ingest(w) \/ IngestRaises(w) \/ Complete(w) \/ CompleteRaises(w) \/ Fail(w)
  PROVE  MessagesInv'
  <1>1. /\ at[w] \in Attempting
        /\ at' = [at EXCEPT ![w] = at'[w]]
        /\ at'[w] \in Attempting \cup {"ack", "requeue"}
        /\ UNCHANGED <<stream, cursor, pending, message, submit>>
    BY DEF Ingest, IngestRaises, Complete, CompleteRaises, Fail, Move, redis, JobsInv, TypeOK,
           Attempting
  <1>2. /\ JobOf(w) \in Jobs
        /\ jobs[JobOf(w)].attempts \in Nat
    BY <1>1, HeldJob DEF JobsInv, TypeOK, JobRow, Holding
  <1>3. \/ jobs' = jobs /\ at'[w] \in Attempting
        \/ SetStatus(JobOf(w), "completed") /\ at'[w] # "requeue"
        \/ SetStatus(JobOf(w), "failed") /\ at'[w] # "requeue"
        \/ SetStatus(JobOf(w), "queued") /\ at'[w] = "requeue" /\ ~Exhausted(JobOf(w))
    BY DEF Ingest, IngestRaises, Complete, CompleteRaises, Fail, Move, JobsInv, TypeOK, Attempting
  <1>4. /\ \A k \in Jobs : jobs'[k] = jobs[k] \/ k = JobOf(w)
        /\ jobs'[JobOf(w)].attempts = jobs[JobOf(w)].attempts
        /\ at'[w] = "ack" => jobs'[JobOf(w)].status \in {"completed", "failed"}
        /\ at'[w] = "requeue" =>
                jobs'[JobOf(w)].status = "queued" /\ ~Exhausted(JobOf(w))
    <2>1. CASE jobs' = jobs /\ at'[w] \in Attempting
      BY <2>1 DEF Attempting
    <2>2. ASSUME NEW status \in {"queued", "completed", "failed"}, SetStatus(JobOf(w), status)
          PROVE  /\ \A k \in Jobs : jobs'[k] = jobs[k] \/ k = JobOf(w)
                 /\ jobs'[JobOf(w)].attempts = jobs[JobOf(w)].attempts
                 /\ jobs'[JobOf(w)].status = status
      BY <1>2, <2>2, SetStatusEffect DEF JobsInv, TypeOK
    <2> QED BY <1>3, <2>1, <2>2
  <1>5. ~Exhausted(JobOf(w)) => jobs[JobOf(w)].attempts < MaxAttempts
    BY <1>2, IngestionAssumption DEF Exhausted
  <1> QED BY <1>1, <1>2, <1>4, <1>5, QuietWorker DEF Carrying, Attempting

LEMMA CrashMessages ==
  ASSUME JobsInv, JobsInv', MessagesInv, NEW w \in Workers, Crash(w) \/ Restart(w)
  PROVE  MessagesInv'
  <1>1. at[w] \in Carrying => jobs[JobOf(w)].attempts \in Nat
    BY HeldJob DEF JobsInv, TypeOK, JobRow, Carrying, Holding
  <1>2. /\ at' = [at EXCEPT ![w] = at'[w]]
        /\ at'[w] \in {"down", "reading"}
        /\ UNCHANGED <<jobs, stream, cursor, pending, message, submit>>
    BY DEF Crash, Restart, Move, redis, JobsInv, TypeOK
  <1> QED BY <1>1, <1>2, QuietWorker DEF Carrying, Attempting

LEMMA NextMessages ==
  ASSUME JobsInv, JobsInv', MessagesInv, [Next]_vars
  PROVE  MessagesInv'
  <1>1. CASE \E j \in Jobs : Submit(j) \/ CrashSubmit(j)
    BY <1>1, SubmitMessages, EnqueueMessages DEF Submit
  <1>2. CASE \E w \in Workers : Work(w) \/ Crash(w) \/ Restart(w)
    BY <1>2, ReadMessages, ClaimMessages, AttemptMessages, RequeueMessages, AckMessages,
       CrashMessages
    DEF Work
  <1>3. CASE UNCHANGED vars
    BY <1>3
    DEF vars, MessagesInv, LiveIsLast, LiveIsOpen, LastIsKept, MessagesPaid, IsLast, Deliveries,
        JobOf
  <1> QED BY <1>1, <1>2, <1>3 DEF Next

\* The inductive invariant of the messages: a job has at most one alive, its last.
THEOREM MessagesInvariant == Spec => []MessagesInv
  BY InitMessages, NextMessages, JobsInvariant, PTL DEF Spec

\* A job is attempted and put on the stream at most MaxAttempts times, whatever
\* replies are lost, whoever dies and however often a withdrawn job is retried.
THEOREM RetriesAreBounded == Spec => []RetriesBounded
  <1>1. JobsInv /\ MessagesInv => RetriesBounded
    BY DEF JobsInv, AttemptsLeft, MessagesInv, MessagesPaid, RetriesBounded
  <1> QED BY <1>1, JobsInvariant, MessagesInvariant, PTL

\* Every job on the stream has a last message.
HasLast == \A j \in Jobs : Deliveries(j) # {} => \E m \in Deliveries(j) : IsLast(m, j)

LEMMA AppendHasLast ==
  ASSUME TypeOK, HasLast, NEW j \in Jobs, stream' = Append(stream, j)
  PROVE  HasLast'
  <1>1. /\ Len(stream) \in Nat
        /\ Deliveries(j)' = Deliveries(j) \cup {Len(stream) + 1}
        /\ \A k : k # j => Deliveries(k)' = Deliveries(k)
    BY AppendEffect
  <1>2. \A n \in Deliveries(j) : n <= Len(stream)
    BY <1>1, DeliveriesFinite
  <1>3. PICK last \in Nat : last = Len(stream) + 1
    BY <1>1
  <1>4. last \in Deliveries(j)' /\ IsLast(last, j)'
    BY <1>1, <1>2, <1>3, DeliveriesFinite DEF IsLast
  <1> QED BY <1>1, <1>4 DEF HasLast, IsLast

LEMMA LastExists == Spec => []HasLast
  <1>1. Init => HasLast
    BY DEF Init, HasLast, Deliveries
  <1>2. ASSUME TypeOK, HasLast, [Next]_vars PROVE HasLast'
    <2>1. CASE stream' = stream
      BY <1>2, <2>1 DEF HasLast, Deliveries, IsLast
    <2>2. CASE \E j \in Jobs : stream' = Append(stream, j)
      BY <1>2, <2>2, AppendHasLast
    <2>3. stream' = stream \/ \E j \in Jobs : stream' = Append(stream, j)
      <3>1. ASSUME NEW j \in Jobs, Submit(j) \/ CrashSubmit(j)
            PROVE  stream' = stream \/ stream' = Append(stream, j)
        BY <3>1 DEF Submit, CrashSubmit, Create, Enqueue, EnqueueRaises, Withdraw, RecordQueued,
             redis
      <3>2. ASSUME NEW w \in Workers, Work(w) \/ Crash(w) \/ Restart(w)
            PROVE  stream' = stream \/ \E j \in Jobs : stream' = Append(stream, j)
        <4>1. CASE Requeue(w)
          BY <1>2, <4>1, HeldJob DEF Requeue, Move, Holding
        <4>2. CASE ~Requeue(w)
          BY <3>2, <4>2 DEF Work, Crash, Restart, Read, Claim, Ingest, IngestRaises, Complete,
               CompleteRaises, Fail, Ack, redis
        <4> QED BY <4>1, <4>2
      <3> QED BY <1>2, <3>1, <3>2 DEF Next, vars
    <2> QED BY <2>1, <2>2, <2>3
  <1>3. JobsInv => TypeOK
    BY DEF JobsInv
  <1> QED BY <1>1, <1>2, <1>3, JobsInvariant, PTL DEF Spec

\* A job that goes on has a message undelivered or unacknowledged: its last.
THEOREM AcknowledgedSafely == Spec => []AcknowledgedWhenSafe
  <1>1. ASSUME JobsInv, MessagesInv, HasLast
        PROVE  AcknowledgedWhenSafe
    <2> SUFFICES ASSUME NEW j \in Jobs, Deliveries(j) # {},
                        jobs[j].status \in {"queued", "running"}
                 PROVE  \E m \in Deliveries(j) : m > cursor \/ m \in pending
      BY DEF AcknowledgedWhenSafe
    <2>1. PICK m \in Deliveries(j) : IsLast(m, j)
      BY <1>1 DEF HasLast
    <2> QED BY <1>1, <2>1 DEF MessagesInv, LastIsKept
  <1> QED BY <1>1, JobsInvariant, MessagesInvariant, LastExists, PTL

-----------------------------------------------------------------------------
(* Without crashes no job is stranded.                                     *)

LEMMA UndeliveredMessage ==
  ASSUME JobsInv, NEW j \in Jobs, stream' = Append(stream, j), cursor' = cursor
  PROVE  \E m \in Deliveries(j)' : m > cursor'
  <1>1. /\ Deliveries(j)' = Deliveries(j) \cup {Len(stream) + 1}
        /\ Len(stream) + 1 > cursor
    BY AppendEffect DEF JobsInv, TypeOK
  <1> QED BY <1>1

LEMMA DeliveriesGrow ==
  ASSUME JobsInv, stream' = stream \/ \E j \in Jobs : stream' = Append(stream, j)
  PROVE  \A k : Deliveries(k) \subseteq Deliveries(k)'
  <1>1. CASE stream' = stream
    BY <1>1 DEF Deliveries
  <1>2. CASE \E j \in Jobs : stream' = Append(stream, j)
    BY <1>2, AppendEffect DEF JobsInv
  <1> QED BY <1>1, <1>2

LEMMA CarriedByApi ==
  ASSUME JobsInv, Carried, NEW j \in Jobs, Submit(j) \/ CrashSubmit(j)
  PROVE  Carried'
  <1>1. CASE CrashSubmit(j)
    BY <1>1 DEF CrashSubmit, Carried, JobsInv, TypeOK
  <1>2. CASE Submit(j)
    <2>1. /\ UNCHANGED <<cursor, at, message, crashes>>
          /\ stream' = stream \/ stream' = Append(stream, j)
      BY <1>2 DEF Submit, Create, Enqueue, EnqueueRaises, Withdraw, RecordQueued, redis, worker
    <2>2. \A w \in Workers : at[w] \in Holding => JobOf(w)' = JobOf(w)
      BY <2>1, HeldJobStable DEF JobsInv
    <2>3. \A k \in Jobs : Attempted(k) \subseteq Attempted(k)'
      BY <2>1, <2>2 DEF Attempted, Holding
    <2>4. \A k \in Jobs : OnItsWay(k) =>
            OnItsWay(k)' \/ (k = j /\ submit[j] \in {"enqueue", "withdraw"})
      <3>1. \A k \in Jobs : Deliveries(k) \subseteq Deliveries(k)'
        BY <2>1, DeliveriesGrow
      <3>2. \A k \in Jobs \ {j} : submit'[k] = submit[k]
        BY <1>2 DEF Submit, Create, Enqueue, EnqueueRaises, Withdraw, RecordQueued, JobsInv, TypeOK
      <3> QED BY <2>1, <2>2, <3>1, <3>2 DEF OnItsWay, Holding
    <2>5. \A k \in Jobs \ {j} : jobs'[k] = jobs[k]
      BY <1>2, SetStatusEffect
      DEF Submit, Create, Enqueue, EnqueueRaises, Withdraw, RecordQueued, JobsInv, TypeOK
    <2>6. /\ jobs'[j].status = "running" => jobs[j].status = "running"
          /\ jobs'[j].status = "queued" =>
                \/ OnItsWay(j)'
                \/ jobs[j].status = "queued" /\ submit[j] \notin {"enqueue", "withdraw"}
      <3>1. CASE Create(j)
        BY <3>1, SetStatusEffect DEF Create, OnItsWay, JobsInv, TypeOK
      <3>2. CASE Enqueue(j)
        BY <3>2, UndeliveredMessage DEF Enqueue, OnItsWay
      <3>3. CASE EnqueueRaises(j)
        BY <3>3 DEF EnqueueRaises, OnItsWay, JobsInv, TypeOK
      <3>4. CASE Withdraw(j)
        BY <3>4, SetStatusEffect DEF Withdraw, JobsInv, TypeOK
      <3>5. CASE RecordQueued(j)
        BY <3>5 DEF RecordQueued
      <3> QED BY <1>2, <3>1, <3>2, <3>3, <3>4, <3>5 DEF Submit
    <2> QED BY <2>1, <2>3, <2>4, <2>5, <2>6 DEF Carried
  <1> QED BY <1>1, <1>2

\* A worker that leaves a job running attempts it, and one that leaves it queued
\* will put it on the stream or has done so.
LEMMA CarriedByStep ==
  ASSUME JobsInv, Carried, NEW w \in Workers, NEW j \in Jobs, j = JobOf(w),
         at[w] \in Holding,
         UNCHANGED <<submit, cursor, message, crashes>>,
         stream' = stream \/ stream' = Append(stream, j),
         \A v \in Workers : v # w => at'[v] = at[v],
         \A k \in Jobs : k # j => jobs'[k] = jobs[k],
         jobs'[j].status = "running" =>
            \/ at'[w] \in Attempting
            \/ at[w] \notin Attempting /\ jobs'[j] = jobs[j],
         jobs'[j].status = "queued" =>
            \/ at'[w] = "requeue"
            \/ stream' = Append(stream, j)
            \/ at[w] \notin {"claim", "requeue"} /\ jobs'[j] = jobs[j]
  PROVE  Carried'
  <1>1. \A v \in Workers : at[v] \in Holding => JobOf(v)' = JobOf(v)
    BY HeldJobStable DEF JobsInv
  <1>2. \A k : Deliveries(k) \subseteq Deliveries(k)'
    BY DeliveriesGrow
  <1>3. \A k \in Jobs : k # j \/ at[w] \notin Attempting => Attempted(k) \subseteq Attempted(k)'
    BY <1>1 DEF Attempted, Holding
  <1>4. \A k \in Jobs : k # j \/ at[w] \notin {"claim", "requeue"} =>
            (OnItsWay(k) => OnItsWay(k)')
    BY <1>1, <1>2 DEF OnItsWay, Holding
  <1>5. at'[w] \in Attempting => Attempted(j)' # {}
    BY <1>1 DEF Attempted
  <1>6. at'[w] = "requeue" => OnItsWay(j)'
    BY <1>1 DEF OnItsWay
  <1>7. stream' = Append(stream, j) => OnItsWay(j)'
    BY UndeliveredMessage DEF OnItsWay
  <1> QED BY <1>3, <1>4, <1>5, <1>6, <1>7 DEF Carried

LEMMA CarriedByRead ==
  ASSUME JobsInv, Carried, NEW w \in Workers, Read(w)
  PROVE  Carried'
  <1>1. PICK next \in 1 .. Len(stream) : next = cursor + 1
    BY DEF Read, JobsInv, TypeOK
  <1>2. /\ at[w] = "reading" /\ at'[w] = "claim"
        /\ \A v \in Workers : v # w => at'[v] = at[v] /\ message'[v] = message[v]
        /\ message'[w] = next /\ cursor' = next
        /\ UNCHANGED <<jobs, submit, stream, crashes>>
    BY <1>1 DEF Read, Move, JobsInv, TypeOK
  <1>3. \A v \in Workers : v # w => JobOf(v)' = JobOf(v)
    BY <1>2 DEF JobOf
  <1>4. JobOf(w)' = stream[next]
    BY <1>2 DEF JobOf
  <1>5. \A k \in Jobs : Attempted(k) \subseteq Attempted(k)'
    BY <1>2, <1>3 DEF Attempted, Attempting
  <1>6. \A k \in Jobs : \A m \in Deliveries(k) : m > cursor => m > cursor' \/ m = next
    BY <1>1, <1>2, DeliveriesFinite DEF JobsInv, TypeOK
  <1>7. \A k \in Jobs : Deliveries(k)' = Deliveries(k) /\ \A m \in Deliveries(k) : stream[m] = k
    BY <1>2 DEF Deliveries
  <1>8. \A k \in Jobs : OnItsWay(k) => OnItsWay(k)'
    BY <1>2, <1>3, <1>4, <1>6, <1>7 DEF OnItsWay
  <1> QED BY <1>2, <1>5, <1>8 DEF Carried

LEMMA CarriedByWork ==
  ASSUME JobsInv, Carried, NEW w \in Workers, Work(w), ~Read(w)
  PROVE  Carried'
  <1>1. /\ at[w] \in Holding
        /\ \A v \in Workers : v # w => at'[v] = at[v]
        /\ UNCHANGED <<submit, cursor, message, crashes>>
    BY DEF Work, Claim, Ingest, IngestRaises, Complete, CompleteRaises, Fail, Requeue, Ack, Move,
           redis, Holding, Attempting, JobsInv, TypeOK
  <1>2. PICK j \in Jobs : j = JobOf(w)
    BY <1>1, HeldJob DEF JobsInv
  <1>3. stream' = stream \/ stream' = Append(stream, j)
    BY <1>2 DEF Work, Claim, Ingest, IngestRaises, Complete, CompleteRaises, Fail, Requeue, Ack,
                redis
  <1>4. \A k \in Jobs : k # j => jobs'[k] = jobs[k]
    BY <1>2, SetStatusEffect DEF Work, Claim, Ingest, IngestRaises, Complete, CompleteRaises,
       Fail, Requeue, Ack, JobsInv, TypeOK
  <1>5. /\ jobs'[j].status = "running" =>
            \/ at'[w] \in Attempting
            \/ at[w] \notin Attempting /\ jobs'[j] = jobs[j]
        /\ jobs'[j].status = "queued" =>
            \/ at'[w] = "requeue"
            \/ stream' = Append(stream, j)
            \/ at[w] \notin {"claim", "requeue"} /\ jobs'[j] = jobs[j]
    <2>1. CASE Claim(w)
      BY <1>2, <2>1 DEF Claim, Claimable, Move, Attempting, JobsInv, TypeOK
    <2>2. CASE Ingest(w) \/ IngestRaises(w)
      BY <2>2 DEF Ingest, IngestRaises, Move, Attempting, JobsInv, TypeOK
    <2>3. CASE Complete(w) \/ CompleteRaises(w)
      BY <1>2, <2>3, SetStatusEffect DEF Complete, CompleteRaises, Move, Attempting, JobsInv, TypeOK
    <2>4. CASE Fail(w)
      BY <1>2, <2>4, SetStatusEffect DEF Fail, Move, Attempting, JobsInv, TypeOK
    <2>5. CASE Requeue(w) \/ Ack(w)
      BY <1>2, <2>5 DEF Requeue, Ack, Move, Attempting
    <2> QED BY <2>1, <2>2, <2>3, <2>4, <2>5 DEF Work
  <1> QED BY <1>1, <1>2, <1>3, <1>4, <1>5, CarriedByStep

LEMMA NextCarried ==
  ASSUME JobsInv, Carried, [Next]_vars
  PROVE  Carried'
  <1>1. ASSUME NEW w \in Workers, Crash(w) \/ Restart(w)
        PROVE  Carried'
    <2>1. CASE Crash(w)
      BY <2>1 DEF Crash, Carried, JobsInv, TypeOK
    <2>2. CASE Restart(w)
      <3>1. /\ UNCHANGED <<jobs, submit, stream, cursor, message, crashes>>
            /\ \A v \in Workers : at[v] # "down" => at'[v] = at[v]
        BY <2>2 DEF Restart, Move, redis, JobsInv, TypeOK
      <3>2. \A v \in Workers : JobOf(v)' = JobOf(v)
        BY <3>1 DEF JobOf
      <3>3. \A k \in Jobs : Attempted(k) \subseteq Attempted(k)' /\ Deliveries(k)' = Deliveries(k)
        BY <3>1, <3>2 DEF Attempted, Attempting, Deliveries
      <3> QED BY <3>1, <3>2, <3>3 DEF Carried, OnItsWay
    <2> QED BY <1>1, <2>1, <2>2
  <1>2. CASE UNCHANGED vars
    BY <1>2 DEF vars, Carried, OnItsWay, Attempted, Deliveries, JobOf
  <1> QED BY <1>1, <1>2, CarriedByApi, CarriedByRead, CarriedByWork DEF Next, Work

\* Without a crash no job is stranded, whatever is refused, raised or retried.
THEOREM NothingStranded == Spec => []Carried
  <1>1. Init => Carried
    BY DEF Init, Carried
  <1> QED BY <1>1, NextCarried, JobsInvariant, PTL DEF Spec
=============================================================================
