# Verification of the agentic operations platform

This directory models the parts of the platform where several processes meet:
the approval gate in front of its one write tool, asynchronous ingestion, the
document store that ingestion writes and retrieval reads, the two of them
together, and the agent route behind its rate limit and budget. It also models
two programs that run alone and decide much: the splitting of text into chunks,
and the quality gates of the CI job. Each part has

* a module that translates the code, one action per statement or call that
  other processes can interleave with;
* for the gate, ingestion and the store, an abstract module that says in a few lines what the
  part promises;
* an `MC` module with the `.cfg` files that model-check small instances;
* a `Proofs` module in which TLAPS proves, for every value of the constants,
  every safety property the runs check.

| part | code | model | promise | proofs |
| --- | --- | --- | --- | --- |
| approval gate | `mcp/persistent_authorization.py`, `/v1/actions/*` in `api/routes.py` | `ActionGate` | `ApprovedActions` | `ActionGateProofs` |
| ingestion jobs, queue, worker | `ingestion/jobs.py`, `ingestion/queue.py`, `workers/ingestion_worker.py`, `POST /v1/ingestion/jobs` | `IngestionJobs` | `BoundedAttempts` | `IngestionJobsProofs` |
| document store, search | `ingestion/service.py`, `retrieval/pgvector.py`, `POST /v1/documents` | `DocumentStore` | `WholeDocuments` | `DocumentStoreProofs` |
| workers, uploads and store together | the three rows above | `IngestionPipeline`, which instantiates `IngestionJobs` and `DocumentStore` | `IngestionJobs` | `IngestionPipelineProofs` |
| chunking | `ingestion/chunking.py` | `Chunking` | its invariants | `ChunkingProofs` |
| rate limit and budget | `controls/redis_controls.py` | `RedisControls` | its invariants | `RedisControlsProofs` |
| agent | `POST /v1/agent/run`, the two controls in `api/routes.py`, `agents/graph.py` | `AgentRun`, which extends `RedisControls` | its invariants | `AgentRunProofs` |
| CI gates | `evaluation/`, `mcp/authorization.py`, `.github/workflows/ci.yml` | `QualityGates` | its invariants | `QualityGatesProofs` |

Paths without a prefix are below `src/agentic_ai/` of the repository;
`infra/`, `docs/` and `README.md:<line>` are the repository's own.

## 1. Inventory

**API replicas** (`api/`). Stateless FastAPI processes. A request is a
coroutine with a database session of its own (`db/session.py`); requests share
PostgreSQL and Redis only. `get_session` sets `app.tenant_id` for the first
transaction of the session and rolls back what is left open when the handler
raises. Operations: upload a document, submit and read an ingestion job,
search, run the agent, request an approval, execute an action, health probes.

**Approval gate** (`mcp/persistent_authorization.py`).
State: `tool_approvals` (token hash, tenant, subject, tool, hash of the
arguments, status, expiry) and `idempotency_records` (tenant, key, hash of the
arguments, status, result). `request_approval` commits a pending approval.
`execute_action` reads the record of the key, calls `authorize` (checks role,
key and approval, consumes the approval, inserts the record, commits), calls
the tool over MCP, and calls `complete` or `fail`, each with a commit of its
own, then writes the audit event. Hard: concurrent executions with one token or
one key, locks on rows that do not exist, crashes after the commit that nobody
recovers, tool calls that raise after they took effect.
Correct when: an approval is used once, by its owner, for its arguments; a used
key never runs again; records and audit events tell the truth; every request
ends.

**Ingestion jobs, queue and worker** (`ingestion/jobs.py`,
`ingestion/queue.py`, `workers/ingestion_worker.py`).
State: `ingestion_jobs` (status, attempt count), the Redis stream with the
consumer group's last-delivered id and pending list. `submit_ingestion_job`
commits the row, adds the message, and marks the job failed when `XADD` raises.
A worker reads one message, claims the job with an `UPDATE .. WHERE status =
'queued'`, replaces the document, marks the job, and acknowledges; a job that
failed with attempts left is set back to queued and added to the stream again.
Hard: two stores without a common transaction, crashes between any two
statements, lost replies, several messages for one job, reordering by retries.
Correct when: attempts at a job neither overlap nor exceed their limit,
completed means stored, no unfinished job loses its message, every job settles
as long as no worker dies while it attempts one.

**Document store** (`ingestion/service.py`). State: `documents` (readers,
content hash) and `document_chunks`. `ingest` upserts the row, deletes the
chunks, embeds and inserts each new chunk, commits. Hard: uploads of one
document overlap over many awaits of the embedding model; any of them may raise.
Correct when: the committed chunks are always all chunks of one upload.

**Retrieval** (`retrieval/pgvector.py`). Reads one snapshot, filtered by tenant
and reader. Correct when: text is found only by readers that its own upload
names, and replaced text is not found.

**Redis controls** (`controls/redis_controls.py`). State: one counter per
tenant, subject, route and minute, and one per tenant and day, in Redis.
`enforce_rate_limit` and `reserve_agent_budget` make the counter's name from the
clock and send a Lua script that increments, sets the expiry of a new counter
and compares. Hard: calls of many replicas interleave; the script may run after
the window it names has ended, or run and lose its reply; refused calls are
counted too, and only the budget's script gives back.
Correct when: a window admits its limit, no more and no less.

**Agent workflow** (`agents/graph.py`, `POST /v1/agent/run`). No shared state
of its own. The two controls are dependencies of the handler; then the query is
checked for injection, and the graph runs: retrieve, decide, perhaps ask the
status tool, compose with the answer model; then the audit event. Hard: every
step is an await, the controls, the tool, the model and the database may each
raise, with or without effect, and only some exceptions of the model are
expected.
Correct when: nothing runs unpaid, only evidence reaches the model, the event
agrees with what was done, every request ends.

**Audit log** (`audit.py`). `record_event` inserts and commits, in a
transaction after the one it reports.

**Tenant isolation** (`db/session.py`, `infra/migrations/003_tenant_rls.sql`).
Policies compare `app.tenant_id`, set with transaction scope.

**Chunking** (`ingestion/chunking.py`). `chunk_text` collects paragraphs until
the limit, cuts what is too long at the last space within the limit, and starts
each chunk with the end of the one before. It is called inside `ingest`, in the
event loop. Hard: four places append a chunk, each with other conditions on
what is left, and the loop ends only if what is left shrinks.
Correct when: chunks fit, no text is lost between them, the overlap is bounded,
the call returns.

**Evaluation** (`evaluation/`, `.github/workflows/ci.yml`). The CI job compares
a file of predictions with the cases of a dataset and runs a file of security
cases; what it lets through becomes a container image. Hard: averages,
rounding, missing and repeated lines, exceptions.
Correct when: a green job leaves no case behind.

**Pure code.** In-memory authorization (`mcp/authorization.py`), guardrails
(`guardrails/`), tokens (`auth/`).

**Outside.** The ticket system behind `mcp/server.py` (the demonstration server
stores nothing), the embedding and answer models, Langfuse.

### How the parts interact

The API calls the gate, the job functions, `IngestionService`, the retriever
and the agent graph in the request's coroutine. API and workers share the
`ingestion_jobs` table and the stream. Workers and `POST /v1/documents` share
`documents` and `document_chunks` with every search, including the agent's.
Every handler writes `audit_events`.

The hazards of this code, each at its line and with the properties that answer
it, are listed in `PROJECT.json`.

## 2. The models and the code

### ActionGate

| model | code |
| --- | --- |
| `approvals`, `records` | committed rows of `tool_approvals`, `idempotency_records` |
| `approvalLock`, `keyLock` | row lock of `SELECT .. FOR UPDATE`; uncommitted insert of a primary key |
| `issuing[t]` | where the `request-approval` call that made token `t` is |
| `pc[r]`, `body[r]` | the execute request: next statement, payload |
| `tickets` | requests whose tool call took effect |
| `RequestApproval`, `RecordApproval`, `LoseApproval` | `request_approval`; the audit insert after it; that insert raising, with or without effect |
| `Lookup` | `get_idempotent_result` |
| `Recheck`, `LockApproval`, `InsertKey`, `Commit` | the four statements of `authorize` |
| `CreateTicket`, `ToolReturns`, `ToolRaises` | `create_incident_ticket` over MCP |
| `Complete`/`Fail`, `RecordCompleted`/`RecordFailed` | `complete`/`fail`, then `record_event` |
| `RecordRaises` | the commit of that event takes effect and raises |
| `Abort` | a crash or a statement that fails without effect, anywhere |

The isolation level is PostgreSQL's default, READ COMMITTED: a statement sees
what is committed when it runs, `FOR UPDATE` waits and then reads the row
again, and `FOR UPDATE` on an absent row locks nothing, which is why `Recheck`
takes no lock. `INSERT .. ON CONFLICT DO NOTHING` waits for an uncommitted
insert of the same key (`keyLock`) and does nothing when that one commits; the
code does not look at the row count, so `InsertKey` goes on either way.

A request may present a token before it was issued only as a guess that no
later token equals (`Fresh`): tokens have 256 random bits. Otherwise anybody
may present any token, key and arguments.

### IngestionJobs

| model | code |
| --- | --- |
| `jobs`, `created` | rows of `ingestion_jobs`, in the order they were inserted |
| `stream`, `cursor`, `pending` | stream, last-delivered id and pending list of the group |
| `submit[j]` | the API request that submits job `j` |
| `at[w]`, `message[w]` | where worker `w` is, and the message it holds |
| `store`, `stored` | the job whose content a document has; jobs that ever committed theirs |
| `Create`, `Enqueue`, `EnqueueRaises`, `Withdraw`, `RecordQueued` | `submit_ingestion_job` |
| `Read`, `Claim`, `Ingest`, `Complete`, `Fail`, `Requeue`, `Ack` | `run_worker` and `process_job` |
| `IngestRaises`, `CompleteRaises` | exceptions inside the `try` of `process_job`, before or after the effect |
| `Crash`, `Restart`, `CrashSubmit` | a process dies; also any exception outside that `try` |

`Ingest` is one step because `DocumentStore` shows that it is one transaction
whose effect appears at once. `queue.read` asks for one message (`count=1`), so
a worker holds at most one.

### DocumentStore

| model | code |
| --- | --- |
| `rows`, `chunks` | committed rows of `documents` and `document_chunks` |
| `lock` | the open transaction that wrote the document's row |
| `upload`, `pc`, `deleted`, `inserted` | a call of `ingest` and what its transaction has done so far |
| `Upsert`, `DeleteChunks`, `InsertChunk`, `Commit` | the statements of `ingest` |
| `RecordIngested` | the audit event of `POST /v1/documents` |
| `Raise` | any failure; the session rolls back |
| `Search` | the single statement of `PgVectorRetriever.search` |

`Published` says what is visible after a commit: inserted chunks (`ON CONFLICT
.. DO UPDATE` overwrites), without the ones the `DELETE` had seen, and with
whatever else is there. That nothing else is there is what `WholeVersions` says
and what the row lock of the upsert is for. Ranking is left out: a search
returns any readable chunks up to its limit. It may miss some even when they
fit, because the filter is applied to the candidates of an approximate index.

### IngestionPipeline

| model | code |
| --- | --- |
| `Queue`, `Store` | instances of `IngestionJobs` and `DocumentStore` over the same state |
| an attempt | a job and the number `mark_job_running` gave it; its call of `ingest` |
| `newest` | history: whose content a document has, which `IngestionJobs` calls `store` |
| `Handle`, `Request` | the steps of the worker loop and of `submit_ingestion_job` outside `ingest` |
| `Begin`, `Statement`, `Commit`, `Raise` | `ingest` within `process_job`: its statements, its end, an exception with `session.rollback` |
| `Crash`, `RollBack` | a worker dies with its transaction open; PostgreSQL sees the connection closed |
| `Upload` | `POST /v1/documents`, statement by statement |

`IngestionJobs` takes the replacement of a document for one step. Here it has
all its statements: workers wait for each other and for uploads on the row of a
document, an exception can come at any of them, and the row lock of a dead
worker is held until PostgreSQL notices.

### Chunking

| model | code |
| --- | --- |
| `text` | the content: letters, spaces, line feeds and blanks (tabs, carriage returns), already normalised |
| `first`, `taken` | `current` is `text[first .. taken]` |
| `at`, `split` | which statement comes next, `split_at` |
| `chunk`, `before` | the last chunk appended and the one before, as positions in the text |
| `TakeParagraph` | the `for` loop: the paragraph joins `current`, or `current` is appended and its last characters start the next |
| `Split`, `Cut`, `EndWhile` | the `while` loop: `rfind`, the append, the slice that keeps the overlap |
| `Finish` | the append after the loop |

Only the positions of chunks are kept. What `strip` removes and `rfind` finds is
computed on the characters. Two line feeds with only whitespace between them
separate paragraphs; blanks alone, or one line feed among them, do not, and
stay inside a paragraph as they do in the code.

### QualityGates

| model | code |
| --- | --- |
| `cases`, `lines`, `checks` | the lines of the three files |
| `step`, `next` | the step of the CI job and the line it reads |
| `LoadCases`, `LoadPrediction`, `EndPredictions` | `load_retrieval_cases`, `load_retrieval_predictions` |
| `EvaluateCase`, `GateRetrieval` | `evaluate_dataset`, exit status of `evaluation.cli` |
| `LoadSecurityCases`, `EvaluateCheck`, `GateSecurity` | `load_security_cases`, `evaluate_security_dataset`, exit status of `evaluation.security_cli` |
| `P95Values`, `Exceeds` | the latency at the rank of the percentile after `sorted`, and the comparison with the limit |
| `Raises`, `Passes` | a security case that raises, for its category, a missing key or an unknown capability; one that passes |
| `Authorize` | `ToolAuthorization.authorize` of a fresh instance without a token |

The thresholds are those of `ci.yml`. Sums are scaled integers: with the
thresholds 1.0 and 0.0 the comparisons of the floating-point averages agree with
them. A case whose `relevant_chunk_ids` are empty has recall 0, so a dataset
that holds one can never pass, though `docs/interview-questions.md:251` asks
for no-answer queries in it. Precision and nDCG count a chunk as often as it is
listed, recall once; only recall gates.

`float(payload.get("latency_ms", 0.0))` lets more through than latencies. A
missing one counts as 0. A negative or infinite one compares as 0 or as a large
one does, and is left out. `nan` compares with nothing: `sorted` may leave it,
or any other value, at the rank of the percentile (`P95Values`), and as the
percentile it exceeds no limit.

### RedisControls

| model | code |
| --- | --- |
| `counters[k]` | the counter of a scope and window: its value and when it expires |
| `calls[c]` | a call: formatted or not, its window, its outcome, the unit it took |
| `Format` | `datetime.now` and the key |
| `Reply` | the script runs and `eval` returns; a count above the limit raises |
| `LoseReply`, `Unreachable` | `eval` raises after the script ran, or without |
| `Script`, `Admits`, `Left`, `Expiry` | what the two scripts compute and write |
| `TTL`, `RetryAfter` | the remaining life of the counter, which Redis rounds to the nearest second; at least 1 |
| `Tick` | time passes, to any later moment of `Times` |

A scope is a tenant, subject and route with a window of a minute, or a tenant
with a window of a day; `WindowEnd` names a window by its end. The assumption
on it, that a window ends after its moments and no later than one period after
them, is what minutes and UTC days are. Replicas and Redis share one clock; it
has `Second` units in a second, 1000 in Redis, and stops at the moments at which
something happens.

`taken` records whether a call took a unit before its window ended (`timely`)
or after (`late`). A late call counts in a counter that may have expired and
starts again at one, so the limit of a window is promised for timely calls
only: a replica that stalls for longer than the window between formatting and
sending can exceed it.

### AgentRun

| model | code |
| --- | --- |
| `pc[r]` | the request: dependency, handler step or outcome |
| `evidence`, `status`, `answer`, `asked` | `AgentState`: what was found, the live status, where the answer comes from, whether a prompt was sent |
| `events[r]` | its row of `audit_events` |
| `AskRate`, `RateAdmits`, `RateRefuses`, `RateFails` | `enforce_rate_limit`: 429, 503 |
| `AskBudget`, `BudgetAdmits`, `BudgetRefuses`, `BudgetFails` | `enforce_agent_budget`: 429, 503 |
| `Guard`, `RecordBlocked` | `detect_prompt_injection`, the event and the 400 |
| `Retrieve`, `Investigate`, `Abstain`, `AskModel` | the nodes of the graph |
| `ModelRaises` | an exception that `compose` does not expect |
| `RecordAnswer`, `RecordRaises` | `record_event` and the response; a commit that took effect and raised |
| `Raise` | any other statement or call raises, or the process dies |
| `Orphan` | a script that was in flight when its request ended still runs |

`AgentRun` extends `RedisControls`: a request has one call of each control, and
each action on a control is that module's action. Whether a query is blocked,
asks for a live status or finds evidence is drawn where the code looks. A
status tool that raises is `Raise`: the graph expects no exception there, and
the request ends with a 500, where `docs/interview-questions.md:231` describes
a partial answer.

### Abstractions common to all

Hashes are the values they are hashes of. Text, embeddings, scores, log lines
and response bodies are left out. Identities are inputs: token verification is
a stateless library call. Time is a clock that ticks at any moment.

The policies of `003_tenant_rls.sql` are not part of the models: the shipped
`docker-compose.yml` connects as `POSTGRES_USER`, a superuser, whom no policy
binds, forced or not. The setting they read is local to a transaction, and
`README.md:90` says it is written "before application queries run"; a session
that commits and goes on runs its later statements without it. These are
`complete`, `fail` and the audit event after the commit of `authorize`, the
audit events after the commits of `request_approval`, `ingest` and
`create_ingestion_job`, and everything a worker does to a job after
`mark_job_running`. Under a role the policies bind they would find no row.

## 3. What is checked

| run | instance | shows |
| --- | --- | --- |
| `gate_race` | 3 requests, 2 tokens, 1 key, 2 payloads, 2 writers of one tenant, 1 tick | `SingleUse`, `TicketsApproved`, `ConsumedIsAudited`, `OutcomeRecorded`, `ReplaysOnlyTickets`, `AuditTruthful` |
| `gate_live` | 2 requests, 2 tokens, a writer and a reader, fairness | `ImplementsApproved`, `RecordsKept`, `UsedKeyStaysClosed`, `ExpiredNeverUsed`, `EveryRequestEnds` |
| `ingest_crash` | 2 jobs for one document, 2 workers, 2 attempts, 1 crash | `OneAttemptAtATime`, `RetriesBounded`, `CompletedIsStored`, `AcknowledgedWhenSafe`, `Carried`, `ImplementsAttempts` |
| `store` | 3 uploads of 0 to 2 chunks, 2 documents of 2 tenants that share a subject name, 1 search | `WholeVersions`, `SearchesAuthorized`, `SearchesReadCurrent`, `ImplementsWhole` |
| `pipeline` | a job of 2 attempts and 2 chunks, 2 workers, an upload of 1 chunk for the same document, 1 crash, fairness | `ImplementsJobs`, `OneTransactionPerJob`, `CompletedIsSearchable`, `JobsSettle`, `TransactionsEnd` |
| `chunk` | every normal text of up to 12 letters, spaces and line feeds, and of up to 9 with blanks, limit 7, overlap 2, fairness | `ChunksFit`, `ChunksContiguous`, `EndsOnShortWords` |
| `agent_run` | 2 requests of one subject, limits of 1, a minute of two seconds and a day of four, five moments, fairness | `WithinLimit`, `RefusedWhenSpent`, `RetryHelps`, `RunsPaid`, `RunsWithinBudget`, `PromptsGrounded`, `AuditTruthful`, `EveryRequestEnds` |
| `gates` | up to 3 cases, 2 predictions and 2 security cases, lines that do not parse among them, latencies at and above the limit, `nan` and missing, all categories of security cases, K of 2, the median for the percentile | `GreenIsSafe`, `GreenIsFast`, `GreenIsSecure` |

The inductive invariants of the proofs (`GateInv`, `AuditInv`, `RecordInv`,
`JobsInv`, `MessagesInv`, `StoreInv`, `PipelineInv`, `ChunkingInv`, `ControlsInv`, `RunInv`,
`GatherInv`, `GatesInv`) imply what the runs check; TLC agrees with each of
them on the same instances, where one adds its name to the cfg.

### Bounds

* Three requests are needed for the worst case of the gate: two that race on a
  key and a third that replays what they left. Two tokens let two requests of
  one key both be authorized; a third token adds a request that neither shares
  a row with the others nor a new kind of conflict. One tick of the clock with
  a lifetime of one lets every approval expire at every point.
* Two jobs for one document and two workers give every conflict on a row, on a
  message and on the document. Two attempts reach both the retry and the limit.
  One crash can hit any process at any step.
* Two chunks make a shorter upload follow a longer one and an upload fail
  between two inserts; three uploads let a third one see what two left.
* In the pipeline one job with two attempts meets itself, through the
  transaction that its dead worker left, and an upload of a shorter text. A
  second job would contend as the upload does, and make the instance too large
  for liveness.
* Twelve characters, against a limit of seven and an overlap of two, hold up to
  three chunks, words longer than the limit, spaces inside and outside the
  overlap, and paragraphs that do and do not fit together. Blanks are stripped
  like spaces but not found by `rfind`; nine characters put one on either side
  of every cut. The proofs remove this bound for what is safety.
* Three cases make the rank of the median a rounded number; two predictions let
  one be missing or repeated; one security case can fail, or raise, before one that
  passes or after it.
  The percentile of 95 is rounded in the same way with 21 cases.
* Two requests with limits of one race for the last unit of a window, and the
  one that loses is refused. The moments are 0, 2, 5, 6 and 12 thirds of a
  second, with minutes of six thirds and midnight at 6: a call can cross the end
  of a minute, of a day, or both between its two steps, counters expire while
  calls are in flight, and `TTL` rounds both up and down.
* The proofs remove these bounds for the properties they cover. `MaxTime`
  of the gate, `MaxCrashes` and `MaxChunks` are the only caps on counters.

Symmetry is used where only invariants and step properties are checked, never
with liveness. `CHECK_DEADLOCK FALSE` is set because requests, jobs and uploads
are finite sets: when all have ended the system stops. That nobody waits for
ever is a liveness property of each part.

### Fairness

Weak fairness of what a process does of its own accord: an event loop runs a
coroutine that can run, PostgreSQL grants a lock that is free, and a call of
the tool or the embedding model ends, one way or the other (a tool call that
never returned would hold up its own request only: it is made after the locks
are released), the answer model has a timeout of 90 seconds, the status tool is
a subprocess that replies or exits, and Redis replies or its connection breaks.
Nothing forces a request to arrive, a job to be submitted, time
to pass or a process to crash. `IngestionJobs` assumes no fairness: what it
promises is safety.

`IngestionPipeline` also restarts a worker that is down; `docker-compose.yml`
sets no restart policy, so this is a demand on the deployment, without which a
crash of every worker trivially stops ingestion. `JobsSettle` and
`TransactionsEnd` assume that a call of `ingest` comes to its first statement,
that is, that `chunk_text` returns. It does for texts whose words are short
(`EndsOnShortWords`) and not for some others (`chunk_v_loop`): a worker that is
given one of those makes no step any more, and its job stays running; an API
replica stands still with the transactions of its other requests open.

`IngestionPipeline` also lets PostgreSQL notice that the connection of a dead
worker is closed. Nothing there makes a statement raise: there is no lock or
statement timeout, so one that waited for a lock nobody releases would wait for
ever, which is what `TransactionsEnd` excludes. `Chunking` is one synchronous
call that goes on until it returns.

Weak fairness suffices for locks because the lock of a transaction that ends is
free for the next, and the sets of requests and uploads are finite: one that
waits can be overtaken only so often.

### Where the code and its documentation disagree

Each of these runs checks one documented property and ends in a
counterexample.

| run | documentation | what happens |
| --- | --- | --- |
| `gate_v_key` | "An idempotency key prevents duplicate side effects" (`docs/interview-questions.md:171`) | two requests with one key and two approvals both pass the read of `authorize`, and both call the tool; `complete` updates by key only, so a replay of one payload may return the ticket of the other |
| `chunk_v_loop` | "Create deterministic paragraph-aware chunks for reproducible ingestion" (`chunking.py:18`) | a short word followed by a word longer than the limit: the cut at the space keeps the whole remainder as overlap, and the loop appends the same chunk for ever |
| `ingest_v_stale` | replacement "prevents old content from remaining searchable" (`docs/interview-questions.md:151`) | a retry runs after a newer job of the same document and replaces the newer content |
| `gates_v_nan` | "CI fails when configured thresholds are missed" (`docs/interview-questions.md:39`) | a latency of `nan` parses; as the percentile it is not above the limit, and the job is green with too few cases within it |

The passing properties say what still holds in these cases: each approval is
used once although the key is not (`SingleUse`), a replay returns a real ticket
of the key although perhaps of another payload (`ReplaysOnlyTickets`), chunking
returns when no `max_characters - overlap` characters in a row are without a
space (`EndsOnShortWords`), and a gate that has read no `nan` is not too slow
(`GreenIsFast`).

A worker that dies leaves the message it read pending, and no code reads pending
messages; `docs/interview-questions.md:139` says that a deployment needs a
recovery policy for them, so this is no disagreement. `AcknowledgedWhenSafe`
says what such a policy can build on: the message of an unfinished job is still
there. That is enough for a job that is still queued. One that the worker left
`running` also needs its status reset: `mark_job_running` claims queued jobs
only (`ingestion/jobs.py:106`), `process_job` then returns `True`
(`workers/ingestion_worker.py:26-27`), and the message delivered again would be
acknowledged without an attempt.

## 4. What is proved

`tlapm` checks the eight `Proofs` modules. Assumptions are those on the
constants (`ActionGateAssumption`, `IngestionAssumption`,
`DocumentStoreAssumption`, `PipelineAssumption`, `ChunkingAssumption`,
`ControlsAssumption`, `AgentRunAssumption`, `QualityGatesAssumption`,
`FilesAssumption`): types,
at least one attempt (settings do not check this), that a value standing for
"no row" is not a row and the one standing for `nan` not a number, how long
windows last, which calls a request makes,
that an upload is not an attempt of a worker, that a file is a finite sequence
of lines with the fields its loader demands, and that the scale of the sums in
`QualityGates` can be divided by every number of relevant chunks, so that
integers stand for the code's fractions. The numbers of
requests, workers, jobs, uploads, documents, attempts, chunks and crashes are
arbitrary, and so are limits and periods.

**The gate.** `SingleUse` is not inductive: that a request about to commit is
the only one does not follow from nobody else having committed. `GateInv` adds
that such a request holds the approval's row lock and that the row is still
pending and matches (`HoldersMatch`), that an authorized request's approval is
consumed and matches (`SpendersMatch`), and that every approval was granted to a
writer and issued (`GrantedByWriters`). A commit then finds a pending row, so
nobody has spent it, and holds the lock, so nobody else is about to. From
`GateInvariant` follow `TypeCorrect`, `ApprovalUsedOnce`, `EveryTicketApproved`
and `GateImplementsApproved`: in the refinement a commit is a `Spend`, the
tool's effect a `Perform`, `RequestApproval` an `Approve`, everything else a
stutter.

The audit log and the records of keys have invariants of their own, which use
`GateInv`. `AuditInv`: a token is handed out only after its audit insert
(`DeliveredAudited`), and what a request presents was handed out or is a guess
that is never issued (`PresentedDelivered`); so what is spent is on the log
(`ConsumptionAudited`), and what is recorded as completed is a ticket
(`AuditLogTrue`). `RecordInv`: an uncommitted insert belongs to a request at its
commit, in a slot without a record (`KeyHoldersCommit`), and whoever is past
its insert finds a record there, its own or another's (`KeysTaken`), so that
`complete` and `fail` always have a row to update (`OutcomesRecorded`) and a
replay returns a ticket (`ReplaysTicketed`). The same facts make
`RecordsNeverLost` an argument about single steps: the commit of a late insert
meets a record and changes nothing. `UsedKeysStayClosed` is a property of
behaviours: once a slot has a record it keeps one, and `Recheck` does not pass
a request of that slot. So is `ExpiredStayUnused`: an approval keeps its expiry,
a request its token, and time does not run back, so that a request that comes
to its transaction after the expiry never passes `ApprovalMatches`, whatever
the others do meanwhile.

**Ingestion.** `OneAttemptAtATime` needs that a job under attempt is not queued
(`AttemptedNotQueued`): then the status guard of the claim excludes it. This
survives the API's unconditional update because that one writes `failed`, and
survives the handler's reset to queued because that worker has just left its
attempt and was alone (`OneAttemptAtATime` itself). `AttemptsLeft` bounds the
attempts, `StoredBeforeComplete` orders the two commits, `NewIsUntouched` keeps
a late `Create` from resetting a job that runs. The theorems are
`AttemptsNeverOverlap`, `CompletedHasDocument` and
`PipelineImplementsAttempts`, for any number of crashes.

`MessagesInv`, on top of `JobsInv`, is about the stream. A job can have several
messages, but only its last one is alive (`LiveIsLast`): no other is
undelivered or held by a worker that may still claim, retry or requeue.
Without this two messages of one job could each be retried and multiply.
`MessagesPaid` then bounds them: every message but the first was paid for with
an attempt, and a worker that is about to add one has an attempt left. That
gives `RetriesAreBounded`. `LiveIsOpen` says that a job
whose live message is not under attempt is queued or withdrawn, and `LastIsKept` that the last
message is acknowledged only when its job has ended; with a lemma that a job
that was ever on the stream has a last message (`LastExists`) that gives
`AcknowledgedSafely`. `NothingStranded` is proved step by step from both
invariants: without a crash, each step that takes a job off one of its three
ways to an attempt puts it on the next.

**The store.** `WholeVersions` needs that a transaction between its upsert and
its commit owns the document's row (`WritersHoldRow`) and that every committed
chunk was seen by its `DELETE` (`DeletedAll`). The theorems are
`DocumentsWhole`, `OnlyReadersFind`, `SearchesCurrent` and
`StoreImplementsWhole`.

**The pipeline.** Each step of the workers and the uploads is a step of the
queue or leaves it alone (`QueueStep`), and likewise for the store
(`StoreStep`). The one step in which both move is the worker's `COMMIT`; that
an upload's commit is nothing to the queue rests on an upload not being an
attempt. `PipelineImplementsJobs` and `PipelineImplementsStore` follow, with
no invariant.

So the theorems of the parts hold in the composition: `IngestionPipelineProofs`
instantiates `IngestionJobsProofs` and `DocumentStoreProofs` over the pipeline's
state, and `PartsInvariant` carries `JobsInv` and `StoreInv` over. `PipelineInv`
adds what neither part can say. `OpenIsLatest`: a transaction that is open, its
worker alive or dead, belongs to the last attempt at its job, the job is not
queued, and no other worker is about to set it back. It survives a claim by the
status guard, an exception because leaving the session rolls back before the
handler runs, and a crash because a dead worker's job stays running.
`PayloadsKept`: a call of `ingest` replaces the document of its own payload,
and what was committed stays searchable. `TransactionsNeverOverlap` follows
from the first, and `CompletedFound` from the second with `CompletedIsStored`
of the queue and `WholeVersions` of the store. `QueuePromisesKept` and
`PipelineReplacesWhole` say what else the composition inherits: retries are
bounded, no unfinished job loses its message, and documents are replaced as
`WholeDocuments` promises.

**Chunking.** That chunks fit and touch is about chunks that were appended; the
loop appends them from `current`. `CurrentIsText` says that `current` starts
and ends with text and is short enough wherever it is appended whole, and
`CurrentContinues` that it overlaps the last chunk by no more than the overlap
and leaves only whitespace before it, with the case in the middle of the loop
where the piece has been appended and not yet cut off. The theorems are
`EveryChunkFits` and `NoTextLost`, for any text, limit and overlap; that they
hold at every step and not only at the end is why they also hold of the loop
that never ends.

**The controls.** `WithinLimit` is about calls, a counter is about itself.
`CountersCount` ties them: until its window ends a counter is alive and at
least as large as the number of units taken. It survives time passing because
the counter's life began inside the window and lasts a whole period, and it
survives the budget's decrement because only a refused call gives back.
`CountersEarned` is the other direction: a counter below its limit counts only
units that were taken, so a refusal means the limit was used up
(`RefusedWhenSpent`), although the rate script also counts calls it refuses.
The theorems are `ControlsInvariant` and `LimitsExact`, and
`WaitingHelps`: `CountersCount` also says that the counter of a refused caller
outlives its window, and rounding to the nearest second shortens what the caller
is told by less than half a second. That much is really lost: a window whose
first call comes at 0.1 s refuses one at 30.7 s, `TTL` says 29, and the caller
that comes back at 59.7 s is in the same window.

**The agent.** Every step of the route is a step of the controls or leaves them
alone (`RouteKeepsControls`), so `LimitsExact` holds for the route
(`RouteWithinLimits`). `RunsPaid` needs that a request which waits for its
budget has been admitted by the rate limit. `BudgetBoundsRuns` maps each run
to the unit it was paid with, which is injective because no two requests share
a call, and bounds the units by `WithinLimit`. `GatherInv` says for each place
of a request what it has gathered so far, which makes `PromptsGrounded` and
`AuditTruthful` inductive (`PromptsAreGrounded`, `EventsAreTrue`).

**The CI gates.** The two commands fold files into sums; here the loop is a
loop of the job, so induction over the lines is the induction over its steps,
and no recursive definition has to be reasoned about. `PredictionsExact` says
the dictionary holds exactly the lines read so far, `SumsExact` that a full
recall so far means full recall of each case so far, and a zero forbidden rate
none anywhere, `ChecksExact` that a check that did not pass is kept as a
failure; `RetrievalPassed` carries the first gate's result past the second. The
theorems `NoCaseHidden` and `NoCheckHidden` hold for files of any length;
the second covers all four categories, and cases that cannot be evaluated.
`PercentileNotShort` is about the sorted latencies, none of them `nan`: that there is a smallest
value with enough cases at or below it comes from a least-number principle
(`LeastNatural`), which the well-foundedness of the order of the naturals gives
as a fact about sets, without an induction over an operator.

Only model-checked: all liveness (`EveryRequestEnds`, `JobsSettle`,
`TransactionsEnd`, `EndsOnShortWords`), which is out of the prover's reach
together with `ENABLED`. The four documented properties that the code violates
have counterexamples instead of proofs.

## 5. Not modelled, and the plan

In the order of their importance:

1. An abstract specification of the controls (a counter of units per window),
   and the proof that `RedisControls` implements it, as for the other parts.
2. The safety halves of the liveness properties: that a request which has not
   ended can always take a step unless it waits for a named other one, and that
   nobody waits in a circle.
3. The search event of `POST /v1/search`, which completes the audit log.

Not modelled because a model would add nothing: a bounded pool of database
connections, whose exhaustion the modules contain as a failing statement; the
redemption of a token by the in-memory authorization, which only tests call;
the tenant setting, which changes no result under the shipped database user.

Left out for good: token verification, guardrail patterns and model calls
(stateless; their results are inputs), observability (passes results and
exceptions through), loaders (reads files), migrations (run once before the
system starts), and wiring, settings and health probes.
