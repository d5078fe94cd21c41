---------------------------- MODULE IngestionJobs ----------------------------
(***************************************************************************)
(* Asynchronous ingestion: POST /v1/ingestion/jobs commits a row in the    *)
(* ingestion_jobs table and adds its id to a Redis stream; workers read    *)
(* the stream through one consumer group, claim the job in PostgreSQL,     *)
(* replace the document, and acknowledge the message or add a new one.     *)
(*                                                                         *)
(* PostgreSQL and Redis share no transaction, so every statement that one  *)
(* of them commits is an action of its own and an API replica or a worker  *)
(* can die between any two of them.  A call can also raise after it took   *)
(* effect: the reply was lost.                                             *)
(*                                                                         *)
(* Abstractions.  The replacement of a document is one step here: it is a  *)
(* single transaction.  Messages carry the job and its tenant, which never *)
(* disagree, so the tenant is left out; entries without the fields are     *)
(* never added by this code.                                               *)
(***************************************************************************)
EXTENDS Naturals, Sequences, FiniteSets

CONSTANTS
    Jobs,           \* submitted jobs
    Workers,        \* worker processes of the consumer group
    Documents,      \* (tenant, external_id) pairs
    DocumentOf,     \* the document each job replaces
    MaxAttempts,    \* settings.ingestion_max_attempts
    MaxCrashes,     \* bound on crashes of workers and API replicas
    NoJob           \* no row; a document never ingested

ASSUME IngestionAssumption ==
    /\ DocumentOf \in [Jobs -> Documents]
    /\ MaxAttempts \in Nat \ {0}
    /\ MaxCrashes \in Nat
    /\ NoJob \notin Jobs

JobRow ==
    [status : {"absent", "queued", "running", "completed", "failed"},
     attempts : Nat]

VARIABLES
    jobs,       \* table ingestion_jobs
    created,    \* the order in which its rows were inserted
    submit,     \* where the API request that submits each job is
    stream,     \* agentic:ingestion:jobs, never trimmed
    cursor,     \* last-delivered id of the group ingestion-workers
    pending,    \* its pending entries list
    at,         \* where each worker is
    message,    \* the message a worker is processing
    store,      \* documents: the job whose content is searchable
    stored,     \* jobs whose document was committed, now replaced or not
    crashes

vars == <<jobs, created, submit, stream, cursor, pending, at, message, store,
          stored, crashes>>

redis == <<stream, cursor, pending>>
documents == <<store, stored>>
worker == <<at, message>>

-----------------------------------------------------------------------------

Attempting == {"ingest", "complete", "fail"}    \* between claim and outcome

Holding == {"claim", "requeue", "ack"} \cup Attempting

Submitting == {"enqueue", "withdraw", "record"}

JobOf(w) == stream[message[w]]

Attempts(j) == jobs[j].attempts

\* Table, stream, pending list and processes keep their types; a message a
\* worker holds is still pending.
TypeOK ==
    /\ jobs \in [Jobs -> JobRow]
    /\ created \in Seq(Jobs)
    /\ submit \in [Jobs -> {"new", "accepted", "unavailable", "lost"}
                            \cup Submitting]
    /\ stream \in Seq(Jobs)
    /\ cursor \in 0 .. Len(stream)
    /\ pending \subseteq 1 .. cursor
    /\ at \in [Workers -> {"reading", "down"} \cup Holding]
    /\ message \in [Workers -> 0 .. cursor]
    /\ \A w \in Workers : at[w] \in Holding => message[w] \in pending
    /\ store \in [Documents -> Jobs \cup {NoJob}]
    /\ stored \subseteq Jobs
    /\ crashes \in 0 .. MaxCrashes

Init ==
    /\ jobs = [j \in Jobs |-> [status |-> "absent", attempts |-> 0]]
    /\ created = <<>>
    /\ submit = [j \in Jobs |-> "new"]
    /\ stream = <<>>
    /\ cursor = 0
    /\ pending = {}
    /\ at = [w \in Workers |-> "reading"]
    /\ message = [w \in Workers |-> 0]
    /\ store = [d \in Documents |-> NoJob]
    /\ stored = {}
    /\ crashes = 0

SetStatus(j, status) == jobs' = [jobs EXCEPT ![j].status = status]

Move(w, from, to) ==
    /\ at[w] = from
    /\ at' = [at EXCEPT ![w] = to]

-----------------------------------------------------------------------------
(* The API: submit_ingestion_job.                                          *)

\* create_ingestion_job commits the row with status queued.
Create(j) ==
    /\ submit[j] = "new"
    /\ submit' = [submit EXCEPT ![j] = "enqueue"]
    /\ SetStatus(j, "queued")
    /\ created' = Append(created, j)
    /\ UNCHANGED <<redis, worker, documents, crashes>>

Enqueue(j) ==
    /\ submit[j] = "enqueue"
    /\ submit' = [submit EXCEPT ![j] = "record"]
    /\ stream' = Append(stream, j)
    /\ UNCHANGED <<jobs, created, cursor, pending, worker, documents, crashes>>

\* Mutant: the exception of XADD is swallowed.
EnqueueUnchecked(j) ==
    /\ submit[j] = "enqueue"
    /\ submit' = [submit EXCEPT ![j] = "record"]
    /\ UNCHANGED <<jobs, created, redis, worker, documents, crashes>>

\* XADD raises: it was refused, or it was applied and its reply was lost.
EnqueueRaises(j) ==
    /\ submit[j] = "enqueue"
    /\ submit' = [submit EXCEPT ![j] = "withdraw"]
    /\ \/ stream' = stream
       \/ stream' = Append(stream, j)
    /\ UNCHANGED <<jobs, created, cursor, pending, worker, documents, crashes>>

\* The except branch overwrites the status, whatever it has become.
Withdraw(j) ==
    /\ submit[j] = "withdraw"
    /\ submit' = [submit EXCEPT ![j] = "unavailable"]
    /\ SetStatus(j, "failed")
    /\ UNCHANGED <<created, redis, worker, documents, crashes>>

\* record_event, then 202.
RecordQueued(j) ==
    /\ submit[j] = "record"
    /\ submit' = [submit EXCEPT ![j] = "accepted"]
    /\ UNCHANGED <<jobs, created, redis, worker, documents, crashes>>

-----------------------------------------------------------------------------
(* A worker: run_worker and process_job.                                   *)

\* Mutant: XREADGROUP with NOACK.
ReadNoAck(w) ==
    /\ Move(w, "reading", "claim")
    /\ cursor < Len(stream)
    /\ cursor' = cursor + 1
    /\ message' = [message EXCEPT ![w] = cursor + 1]
    /\ UNCHANGED <<jobs, created, submit, stream, pending, documents, crashes>>

\* XREADGROUP ">" delivers the next entry to this worker alone and puts it on
\* the pending list, which no worker ever reads again.
Read(w) ==
    /\ Move(w, "reading", "claim")
    /\ cursor < Len(stream)
    /\ cursor' = cursor + 1
    /\ pending' = pending \cup {cursor + 1}
    /\ message' = [message EXCEPT ![w] = cursor + 1]
    /\ UNCHANGED <<jobs, created, submit, stream, documents, crashes>>

\* mark_job_running: UPDATE .. WHERE status = 'queued' counts the attempt;
\* when it matches no row the message is acknowledged without processing.
Claimable(j) == jobs[j].status = "queued"

Claim(w) ==
    /\ \/ /\ Move(w, "claim", "ingest")
          /\ Claimable(JobOf(w))
          /\ jobs' = [jobs EXCEPT ![JobOf(w)] =
                [status |-> "running", attempts |-> @.attempts + 1]]
       \/ /\ Move(w, "claim", "ack")
          /\ ~Claimable(JobOf(w))
          /\ jobs' = jobs
    /\ UNCHANGED <<created, submit, redis, message, documents, crashes>>

StoreDocument(w) ==
    /\ store' = [store EXCEPT ![DocumentOf[JobOf(w)]] = JobOf(w)]
    /\ stored' = stored \cup {JobOf(w)}

\* IngestionService.ingest commits the replacement of the document.
Ingest(w) ==
    /\ Move(w, "ingest", "complete")
    /\ StoreDocument(w)
    /\ UNCHANGED <<jobs, created, submit, redis, message, crashes>>

\* Mutant: the worker goes on after an exception of ingest.
IngestUnchecked(w) ==
    /\ Move(w, "ingest", "complete")
    /\ UNCHANGED <<jobs, created, submit, redis, message, documents, crashes>>

\* ingest raises: rolled back, or committed with the reply lost.
IngestRaises(w) ==
    /\ Move(w, "ingest", "fail")
    /\ \/ UNCHANGED documents
       \/ StoreDocument(w)
    /\ UNCHANGED <<jobs, created, submit, redis, message, crashes>>

\* mark_job_completed.
Complete(w) ==
    /\ Move(w, "complete", "ack")
    /\ SetStatus(JobOf(w), "completed")
    /\ UNCHANGED <<created, submit, redis, message, documents, crashes>>

\* mark_job_completed raises inside the try: the job goes to the handler.
CompleteRaises(w) ==
    /\ Move(w, "complete", "fail")
    /\ \/ jobs' = jobs
       \/ SetStatus(JobOf(w), "completed")
    /\ UNCHANGED <<created, submit, redis, message, documents, crashes>>

\* Mutant: off by one.
ExhaustedLate(j) == jobs[j].attempts > MaxAttempts

Exhausted(j) == jobs[j].attempts >= MaxAttempts

\* Mutant: the exception handler always reports a terminal outcome.
FailAlwaysTerminal(w) ==
    /\ Move(w, "fail", "ack")
    /\ SetStatus(JobOf(w), IF Exhausted(JobOf(w)) THEN "failed" ELSE "queued")
    /\ UNCHANGED <<created, submit, redis, message, documents, crashes>>

\* mark_job_failed: terminal once the attempts are used up, else back to
\* queued.
Fail(w) ==
    /\ \/ /\ Move(w, "fail", "ack")
          /\ Exhausted(JobOf(w))
          /\ SetStatus(JobOf(w), "failed")
       \/ /\ Move(w, "fail", "requeue")
          /\ ~Exhausted(JobOf(w))
          /\ SetStatus(JobOf(w), "queued")
    /\ UNCHANGED <<created, submit, redis, message, documents, crashes>>

\* Mutant: the worker tries again itself, besides adding a message.
RetryInPlace(w) ==
    /\ Move(w, "requeue", "ingest")
    /\ stream' = Append(stream, JobOf(w))
    /\ UNCHANGED <<jobs, created, submit, cursor, pending, message, documents, crashes>>

\* A new message for the next attempt, before the old one is acknowledged.
Requeue(w) ==
    /\ Move(w, "requeue", "ack")
    /\ stream' = Append(stream, JobOf(w))
    /\ UNCHANGED <<jobs, created, submit, cursor, pending, message, documents, crashes>>

Ack(w) ==
    /\ Move(w, "ack", "reading")
    /\ pending' = pending \ {message[w]}
    /\ UNCHANGED <<jobs, created, submit, stream, cursor, message, documents, crashes>>

-----------------------------------------------------------------------------
(* Crashes.  An exception outside process_job's try block is one, too.     *)

Crash(w) ==
    /\ crashes < MaxCrashes
    /\ at[w] # "down"
    /\ at' = [at EXCEPT ![w] = "down"]
    /\ crashes' = crashes + 1
    /\ UNCHANGED <<jobs, created, submit, redis, message, documents>>

Restart(w) ==
    /\ Move(w, "down", "reading")
    /\ UNCHANGED <<jobs, created, submit, redis, message, documents, crashes>>

CrashSubmit(j) ==
    /\ crashes < MaxCrashes
    /\ submit[j] \in Submitting
    /\ submit' = [submit EXCEPT ![j] = "lost"]
    /\ crashes' = crashes + 1
    /\ UNCHANGED <<jobs, created, redis, worker, documents>>

-----------------------------------------------------------------------------

Submit(j) ==
    \/ Create(j)
    \/ Enqueue(j)
    \/ EnqueueRaises(j)
    \/ Withdraw(j)
    \/ RecordQueued(j)

Work(w) ==
    \/ Read(w)
    \/ Claim(w)
    \/ Ingest(w)
    \/ IngestRaises(w)
    \/ Complete(w)
    \/ CompleteRaises(w)
    \/ Fail(w)
    \/ Requeue(w)
    \/ Ack(w)

Next ==
    \/ \E j \in Jobs : Submit(j) \/ CrashSubmit(j)
    \/ \E w \in Workers : Work(w) \/ Crash(w) \/ Restart(w)

Spec == Init /\ [][Next]_vars

-----------------------------------------------------------------------------
(* Safety.                                                                 *)

Attempted(j) == {w \in Workers : at[w] \in Attempting /\ JobOf(w) = j}

\* However messages for a job multiply, and whatever the API does to its row
\* meanwhile, two workers never process the same job at the same time.
OneAttemptAtATime ==
    \A v, w \in Workers :
        at[v] \in Attempting /\ at[w] \in Attempting /\ JobOf(v) = JobOf(w) => v = w

Deliveries(j) == {m \in DOMAIN stream : stream[m] = j}

\* Retries are bounded: a job is attempted, and put on the stream, at most
\* MaxAttempts times, also when outcomes are lost and workers die.
RetriesBounded ==
    \A j \in Jobs :
        /\ jobs[j].attempts <= MaxAttempts
        /\ Cardinality(Deliveries(j)) <= MaxAttempts

\* A job that reads completed has had its document committed.
CompletedIsStored ==
    \A j \in Jobs : jobs[j].status = "completed" => j \in stored

\* docs/interview-questions.md:135, "acknowledge the message only after
\* completion": a job that was ever on the stream and is not finished still has
\* a message there that is undelivered or unacknowledged, after any crash: it
\* can be found from the stream.  Delivering a pending message again would
\* bring a queued job to an attempt.  For a job left running it would not:
\* Claimable is false for it, and the message would be acknowledged.
AcknowledgedWhenSafe ==
    \A j \in Jobs :
        Deliveries(j) # {} /\ jobs[j].status \in {"queued", "running"} =>
            \E m \in Deliveries(j) : m > cursor \/ m \in pending

\* The request, a message or a worker will bring a queued job to an attempt.
OnItsWay(j) ==
    \/ submit[j] \in {"enqueue", "withdraw"}
    \/ \E m \in Deliveries(j) : m > cursor
    \/ \E w \in Workers : at[w] \in {"claim", "requeue"} /\ JobOf(w) = j

\* While nothing crashes no job is stranded: a queued job is on its way to a
\* worker and a running one is being attempted.
Carried ==
    crashes = 0 =>
        \A j \in Jobs :
            /\ jobs[j].status = "running" => Attempted(j) # {}
            /\ jobs[j].status = "queued" => OnItsWay(j)

-----------------------------------------------------------------------------
(* The inductive invariant behind OneAttemptAtATime and CompletedIsStored. *)

\* A job without a row has not been put on the stream either.
NewIsUntouched ==
    \A j \in Jobs : submit[j] = "new" =>
        /\ jobs[j].status = "absent"
        /\ jobs[j].attempts = 0
        /\ \A m \in DOMAIN stream : stream[m] # j

\* The group hands an entry to one worker only.
MessagesDistinct ==
    \A v, w \in Workers :
        at[v] \in Holding /\ at[w] \in Holding /\ message[v] = message[w] => v = w

\* A job under attempt cannot be claimed.
AttemptedNotQueued ==
    \A w \in Workers : at[w] \in Attempting => jobs[JobOf(w)].status # "queued"

\* A job that can be claimed has an attempt left.
AttemptsLeft ==
    \A j \in Jobs :
        /\ jobs[j].attempts <= MaxAttempts
        /\ jobs[j].status = "queued" => jobs[j].attempts < MaxAttempts

\* mark_job_completed runs after the commit of the document.
StoredBeforeComplete ==
    \A w \in Workers : at[w] = "complete" => JobOf(w) \in stored

\* The status guard of mark_job_running carries the proof: a job is queued only
\* while no worker attempts it, whatever messages and API requests do.
JobsInv ==
    /\ TypeOK
    /\ NewIsUntouched
    /\ MessagesDistinct
    /\ AttemptedNotQueued
    /\ AttemptsLeft
    /\ StoredBeforeComplete
    /\ OneAttemptAtATime
    /\ CompletedIsStored

-----------------------------------------------------------------------------
(* The inductive invariant behind RetriesBounded and AcknowledgedWhenSafe.  *)

Carrying == {"claim", "requeue"} \cup Attempting   \* may still lead to a message

IsLast(m, j) == \A n \in Deliveries(j) : n <= m

\* Only the last message of a job is alive: no other is undelivered or being
\* worked on, so a job has never two messages that could both multiply.
LiveIsLast ==
    /\ \A j \in Jobs : submit[j] \in {"new", "enqueue"} => Deliveries(j) = {}
    /\ \A m \in DOMAIN stream : m > cursor => IsLast(m, stream[m])
    /\ \A w \in Workers : at[w] \in Carrying => IsLast(message[w], JobOf(w))

\* A job whose message is to come or alive, and not under attempt, is queued,
\* unless the API has withdrawn it.
LiveIsOpen ==
    /\ \A j \in Jobs : submit[j] = "enqueue" => jobs[j].status \in {"queued", "failed"}
    /\ \A m \in DOMAIN stream : m > cursor => jobs[stream[m]].status \in {"queued", "failed"}
    /\ \A w \in Workers : at[w] \in {"claim", "requeue"} =>
            jobs[JobOf(w)].status \in {"queued", "failed"}

\* The last message of a job is acknowledged when the job has ended, and until
\* then it is undelivered or pending.
LastIsKept ==
    /\ \A w \in Workers : at[w] = "ack" /\ IsLast(message[w], JobOf(w)) =>
            jobs[JobOf(w)].status \in {"completed", "failed"}
    /\ \A j \in Jobs : jobs[j].status \in {"queued", "running"} =>
            \A m \in Deliveries(j) : IsLast(m, j) => m > cursor \/ m \in pending

\* Every message but the first was paid for with an attempt, and the last
\* attempt pays for none.
MessagesPaid ==
    /\ \A j \in Jobs :
            /\ Cardinality(Deliveries(j)) <= MaxAttempts
            /\ Cardinality(Deliveries(j)) <= jobs[j].attempts + 1
    /\ \A w \in Workers : at[w] \in Attempting \cup {"requeue"} =>
            Cardinality(Deliveries(JobOf(w))) <= jobs[JobOf(w)].attempts
    /\ \A w \in Workers : at[w] = "requeue" => jobs[JobOf(w)].attempts < MaxAttempts

\* A job has at most one message alive, its last.
MessagesInv ==
    /\ LiveIsLast
    /\ LiveIsOpen
    /\ LastIsKept
    /\ MessagesPaid

\* The pipeline's promise: a job is active while a worker attempts it.
Attempt == INSTANCE BoundedAttempts WITH
    tries <- [j \in Jobs |-> jobs[j].attempts],
    active <- {j \in Jobs : Attempted(j) # {}},
    stored <- stored

\* Every behaviour of the pipeline is a behaviour of BoundedAttempts.
ImplementsAttempts == Attempt!Spec

-----------------------------------------------------------------------------
(* What the documentation says and the code does not do.                   *)

\* docs/interview-questions.md:151, "This prevents old content from remaining
\* searchable after a source document changes": when jobs for a document were
\* inserted and entered the stream in the same order and all have completed,
\* the document holds the content of the last one.
NewestContentWins ==
    \A k \in DOMAIN created :
        LET last == created[k]
            older == {j \in Jobs : DocumentOf[j] = DocumentOf[last]} \ {last} IN
        /\ \A j \in older \cup {last} : jobs[j].status = "completed"
        /\ \A j \in older :
                /\ \E i \in 1 .. k - 1 : created[i] = j
                /\ \E m \in Deliveries(j) : \A n \in Deliveries(last) : m < n
        => store[DocumentOf[last]] = last
=============================================================================
