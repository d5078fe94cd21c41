-------------------------- MODULE IngestionPipeline --------------------------
(***************************************************************************)
(* The workers, POST /v1/documents and the document store together.        *)
(* IngestionJobs takes the replacement of a document for one step; here a  *)
(* worker runs the statements of DocumentStore, so that workers and        *)
(* uploads wait for each other on the row of a document, a call of ingest  *)
(* can raise at any of its statements, and a worker that dies leaves its   *)
(* transaction open until PostgreSQL notices.                              *)
(*                                                                         *)
(* An attempt is a job and the number mark_job_running gave it.  A COMMIT  *)
(* that a dying worker has sent takes effect before it dies.  Searches are *)
(* left to DocumentStore.                                                  *)
(***************************************************************************)
EXTENDS Naturals, Sequences, FiniteSets

CONSTANTS Jobs, Workers, MaxAttempts, MaxCrashes,           \* of IngestionJobs
          Documents, Tenants, TenantOf, Subjects, MaxChunks, \* of DocumentStore
          PayloadOf,    \* what each job and each call of POST /v1/documents uploads
          Uploads,      \* calls of POST /v1/documents
          Nothing       \* no job, no call of ingest

Attempts == Jobs \X (1 .. MaxAttempts)

VARIABLES
    jobs, created, submit, stream, cursor, pending, at, message, crashes,
    rows, chunks, lock, upload, pc, deleted, inserted, committed, audit, answer,
    newest      \* history: the job whose document was committed last

queueVars == <<jobs, created, submit, stream, cursor, pending, at, message, crashes>>

storeVars == <<rows, chunks, lock, upload, pc, deleted, inserted, committed, audit, answer,
               newest>>

vars == <<queueVars, storeVars>>

Store == INSTANCE DocumentStore WITH
    Ingests <- Attempts \cup Uploads, Searches <- {}, Limit <- 0,
    NoIngest <- Nothing, stored <- committed

Queue == INSTANCE IngestionJobs WITH
    DocumentOf <- [j \in Jobs |-> PayloadOf[j].document],
    NoJob <- Nothing,
    store <- newest,
    stored <- {i[1] : i \in committed \cap Attempts}

\* What the constants of both parts are; a call of ingest is an attempt of a
\* worker or an upload, not both.
ASSUME PipelineAssumption ==
    /\ MaxAttempts \in Nat \ {0}
    /\ MaxCrashes \in Nat
    /\ MaxChunks \in Nat
    /\ TenantOf \in [Documents -> Tenants]
    /\ Uploads \cap Attempts = {}
    /\ PayloadOf \in [Jobs \cup Uploads -> Store!Upload]
    /\ Nothing \notin Jobs \cup Attempts \cup Uploads
    /\ Nothing \notin Store!Upload
    /\ Nothing \notin [document : Documents, size : 0 .. MaxChunks]
    /\ Nothing \notin Store!Answer

Init ==
    /\ jobs = [j \in Jobs |-> [status |-> "absent", attempts |-> 0]]
    /\ created = <<>>
    /\ submit = [j \in Jobs |-> "new"]
    /\ stream = <<>>
    /\ cursor = 0
    /\ pending = {}
    /\ at = [w \in Workers |-> "reading"]
    /\ message = [w \in Workers |-> 0]
    /\ crashes = 0
    /\ newest = [d \in Documents |-> Nothing]
    /\ Store!Init

\* The attempt of a worker that is in IngestionService.ingest.
AttemptOf(w) == <<Queue!JobOf(w), jobs[Queue!JobOf(w)].attempts>>

Ingesting(w, i) == at[w] = "ingest" /\ i = AttemptOf(w)

Abandoned(i) ==
    /\ pc[i] \in Store!InTransaction
    /\ \A w \in Workers : ~Ingesting(w, i)

-----------------------------------------------------------------------------

\* What leaves the documents alone: requests, messages, the job table.
Handle(w) ==
    /\ UNCHANGED storeVars
    /\ \/ Queue!Read(w)
       \/ Queue!Claim(w)
       \/ Queue!Complete(w)
       \/ Queue!CompleteRaises(w)
       \/ Queue!Fail(w)
       \/ Queue!Requeue(w)
       \/ Queue!Ack(w)

Request(j) == UNCHANGED storeVars /\ Queue!Submit(j)

Begin(w) ==
    \E i \in Attempts :
        /\ Ingesting(w, i)
        /\ Store!Begin(i, PayloadOf[i[1]])
        /\ UNCHANGED <<queueVars, newest>>

Statement(w) ==
    \E i \in Attempts :
        /\ Ingesting(w, i)
        /\ Store!Upsert(i) \/ Store!DeleteChunks(i) \/ Store!InsertChunk(i)
        /\ UNCHANGED <<queueVars, newest>>

\* The commit ends ingest, or its reply is lost and ingest raises.
Commit(w) ==
    \E i \in Attempts :
        /\ Ingesting(w, i)
        /\ Store!Commit(i)
        /\ newest' = [newest EXCEPT ![upload[i].document] = i[1]]
        /\ Queue!Ingest(w) \/ Queue!IngestRaises(w)

\* Mutant: the session is not closed when ingest raises.
RaiseWithoutRollback(w) ==
    \E i \in Attempts :
        /\ Ingesting(w, i)
        /\ UNCHANGED storeVars
        /\ Queue!IngestRaises(w)

\* ingest raises, before its first statement or at any; leaving the session's
\* context rolls back.
Raise(w) ==
    \E i \in Attempts :
        /\ Ingesting(w, i)
        /\ \/ pc[i] = "idle" /\ UNCHANGED storeVars
           \/ Store!Raise(i) /\ UNCHANGED newest
        /\ Queue!IngestRaises(w)

\* The process of a worker dies; what it had sent stays with PostgreSQL.
Crash(w) == UNCHANGED storeVars /\ Queue!Crash(w)

CrashRequest(j) == UNCHANGED storeVars /\ Queue!CrashSubmit(j)

Restart(w) == UNCHANGED storeVars /\ Queue!Restart(w)

\* Mutant: what a dead worker had done is committed.
CommitAbandoned(i) ==
    /\ Abandoned(i)
    /\ \/ /\ Store!Commit(i)
          /\ newest' = [newest EXCEPT ![upload[i].document] = i[1]]
       \/ pc[i] # "chunks" /\ Store!Raise(i) /\ UNCHANGED newest
    /\ UNCHANGED queueVars

\* PostgreSQL finds the connection of a dead worker closed and rolls back.
RollBack(i) ==
    /\ Abandoned(i)
    /\ Store!Raise(i)
    /\ UNCHANGED <<queueVars, newest>>

\* POST /v1/documents, statement by statement.
Upload(u) ==
    /\ Store!Begin(u, PayloadOf[u]) \/ Store!Advance(u) \/ Store!Raise(u)
    /\ UNCHANGED <<queueVars, newest>>

-----------------------------------------------------------------------------

Work(w) == Handle(w) \/ Begin(w) \/ Statement(w) \/ Commit(w)

Next ==
    \/ \E j \in Jobs : Request(j) \/ CrashRequest(j)
    \/ \E w \in Workers : Work(w) \/ Raise(w) \/ Crash(w) \/ Restart(w)
    \/ \E i \in Attempts : RollBack(i)
    \/ \E u \in Uploads : Upload(u)

Spec == Init /\ [][Next]_vars

\* As for its parts; PostgreSQL notices a closed connection.  Nothing makes a
\* statement raise: there is no lock or statement timeout.
Fairness ==
    /\ WF_vars(\E j \in Jobs : submit[j] # "new" /\ Request(j))
    /\ \A w \in Workers : WF_vars(Work(w) \/ Restart(w))
    /\ WF_vars(\E i \in Attempts : RollBack(i))
    /\ \A u \in Uploads : WF_vars(Store!Advance(u) /\ UNCHANGED <<queueVars, newest>>)

FairSpec == Spec /\ Fairness

-----------------------------------------------------------------------------
(* Safety.                                                                 *)

Open(j) == {i \in Attempts : i[1] = j /\ pc[i] \in Store!InTransaction}

\* Two transactions of one job are never open together, although a dead
\* worker's stays open and messages for the job may be left on the stream.
OneTransactionPerJob == \A j \in Jobs : Cardinality(Open(j)) <= 1

\* A job that reads completed is searchable: its document holds all the chunks
\* of one upload, its own or that of another job for the document.
CompletedIsSearchable ==
    \A j \in Jobs : jobs[j].status = "completed" =>
        LET d == PayloadOf[j].document IN
        /\ rows[d] # Nothing
        /\ {n \in DOMAIN chunks[d] : chunks[d][n] = rows[d]} =
                0 .. upload[rows[d]].size - 1

\* With the store's statements in place of its one step, the pipeline still is
\* what IngestionJobs says it is.
ImplementsJobs == Queue!Spec

-----------------------------------------------------------------------------
(* The inductive invariant behind them; the invariants of both parts hold   *)
(* besides.                                                                *)

\* A call of ingest replaces the document its job or request names, and what is
\* committed stays searchable until the next commit.
PayloadsKept ==
    /\ \A i \in Attempts : pc[i] # "idle" => upload[i] = PayloadOf[i[1]]
    /\ \A i \in committed : rows[upload[i].document] # Nothing

\* An open transaction belongs to the last attempt at its job, which nobody can
\* claim as long as it is open, nor put back to queued.
OpenIsLatest ==
    \A i \in Attempts : pc[i] \in Store!InTransaction =>
        /\ i[2] = jobs[i[1]].attempts
        /\ jobs[i[1]].status # "queued"
        /\ \A w \in Workers : at[w] \in {"complete", "fail"} => Queue!JobOf(w) # i[1]

PipelineInv == PayloadsKept /\ OpenIsLatest

-----------------------------------------------------------------------------
(* Liveness.                                                               *)

\* While nothing crashes no queued job is left behind, though its worker may
\* wait for the row of its document and any statement may raise.
JobsSettle ==
    \A j \in Jobs :
        jobs[j].status = "queued" ~>
            crashes > 0 \/ jobs[j].status \in {"completed", "failed"}

\* A transaction that was begun ends, also after a crash: a dead worker does
\* not keep the row of a document from others.
TransactionsEnd == \A i \in Attempts \cup Uploads : pc[i] = "upsert" ~> pc[i] \in Store!Ended
=============================================================================
