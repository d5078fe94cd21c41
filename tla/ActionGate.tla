----------------------------- MODULE ActionGate -----------------------------
(***************************************************************************)
(* The approval gate in front of the one write tool.                       *)
(*                                                                         *)
(* A user first asks for an approval (POST /v1/actions/request-approval),  *)
(* then presents its token with an idempotency key (POST                   *)
(* /v1/actions/execute).  Every execute request runs in a coroutine of     *)
(* some API replica with a database session of its own; requests meet only *)
(* in PostgreSQL (READ COMMITTED), through two tables: tool_approvals and  *)
(* idempotency_records.  One action below is one SQL statement or one call *)
(* of the handler, so every interleaving of the replicas is explored; a    *)
(* transaction's writes become visible in its commit, and the row locks it *)
(* takes are explicit.                                                     *)
(*                                                                         *)
(* Abstractions.  There is a single executable tool, so an approval is     *)
(* bound to (principal, arguments); the SHA-256 of the canonical arguments *)
(* is the arguments; a token is a model value and its hash is the token;   *)
(* minutes are ticks of a clock.  Rate limiting is left out.               *)
(***************************************************************************)
EXTENDS Naturals

CONSTANTS
    Requests,       \* POST /actions/execute requests, each its own session
    Tokens,         \* approval tokens secrets.token_urlsafe may return
    Keys,           \* idempotency keys callers supply
    Arguments,      \* argument payloads of create_incident_ticket
    Principals,     \* (tenant, subject) identities of the bearer tokens
    TenantOf,       \* the tenant of each principal
    Writers,        \* principals whose roles the write policy allows
    Lifetime,       \* approval lifetime, in ticks
    MaxTime,        \* bound on the clock
    NoRow,          \* an absent row
    NoRequest,      \* nobody: an idle session, a free row lock
    NoResult        \* the JSON null of a record without a result

Tenants == {TenantOf[p] : p \in Principals}

Slots == Tenants \X Keys        \* PRIMARY KEY (tenant_id, idempotency_key)

RequestBody ==
    [principal : Principals, arguments : Arguments, token : Tokens, key : Keys]

ApprovalRow ==
    [principal : Principals, arguments : Arguments,
     status : {"pending", "consumed"}, expires : Nat]

RecordRow ==
    [arguments : Arguments, status : {"in_progress", "completed", "failed"},
     result : Arguments \cup {NoResult, "error"}]

ASSUME ActionGateAssumption ==
    /\ TenantOf = [p \in Principals |-> TenantOf[p]]
    /\ Writers \subseteq Principals
    /\ Lifetime \in Nat
    /\ MaxTime \in Nat
    /\ NoRequest \notin Requests
    /\ NoRequest \notin RequestBody
    /\ NoRow \notin ApprovalRow
    /\ NoRow \notin RecordRow
    /\ NoRow \notin [principal : Principals, arguments : Arguments]

VARIABLES
    clock,          \* datetime.now(UTC)
    approvals,      \* table tool_approvals, committed rows
    records,        \* table idempotency_records, committed rows
    approvalLock,   \* the transaction holding the row lock of an approval
    keyLock,        \* the transaction with an uncommitted insert of a slot
    issuing,        \* progress of the request-approval call of each token
    body,           \* what each execute request carries
    pc,             \* where each execute request is
    answer,         \* the result a request was answered with
    tickets,        \* requests whose ticket exists in the external system
    audit           \* table audit_events

vars == <<clock, approvals, records, approvalLock, keyLock, issuing, body,
          pc, answer, tickets, audit>>

database == <<approvals, records, approvalLock, keyLock, audit>>

-----------------------------------------------------------------------------
(* The steps of execute_action.                                            *)

InTransaction ==        \* inside the transaction that authorize commits
    {"lookup", "recheck", "lockApproval", "insertKey", "commit"}

Authorized ==           \* authorize has committed
    {"callTool", "awaitTool", "complete", "fail", "recordCompleted",
     "recordFailed", "completed", "failed", "abandoned"}

Refused == {"conflict", "forbidden", "rolledBack"}

Finished == Refused \cup {"answered", "completed", "failed", "abandoned"}

\* The tables, the row locks and the positions of the handlers keep their
\* types; a request that has begun has a body.
TypeOK ==
    /\ clock \in 0 .. MaxTime
    /\ approvals \in [Tokens -> ApprovalRow \cup {NoRow}]
    /\ records \in [Slots -> RecordRow \cup {NoRow}]
    /\ approvalLock \in [Tokens -> Requests \cup {NoRequest}]
    /\ keyLock \in [Slots -> Requests \cup {NoRequest}]
    /\ issuing \in [Tokens -> {"unused", "recording", "delivered", "lost"}]
    /\ body \in [Requests -> RequestBody \cup {NoRequest}]
    /\ pc \in [Requests -> {"idle"} \cup InTransaction \cup Authorized
                             \cup Finished]
    /\ \A r \in Requests : pc[r] # "idle" => body[r] \in RequestBody
    /\ answer \in [Requests -> Arguments \cup {NoResult, "error"}]
    /\ tickets \subseteq Requests
    /\ audit \subseteq ({"approval_requested"} \X Tokens)
                       \cup ({"completed", "failed"} \X Requests)

Init ==
    /\ clock = 0
    /\ approvals = [t \in Tokens |-> NoRow]
    /\ records = [s \in Slots |-> NoRow]
    /\ approvalLock = [t \in Tokens |-> NoRequest]
    /\ keyLock = [s \in Slots |-> NoRequest]
    /\ issuing = [t \in Tokens |-> "unused"]
    /\ body = [r \in Requests |-> NoRequest]
    /\ pc = [r \in Requests |-> "idle"]
    /\ answer = [r \in Requests |-> NoResult]
    /\ tickets = {}
    /\ audit = {}

Goto(r, from, to) ==
    /\ pc[r] = from
    /\ pc' = [pc EXCEPT ![r] = to]

SlotOf(r) == <<TenantOf[body[r].principal], body[r].key>>

\* Mutant: the row lock outlives its transaction.
ApprovalKeptLocked(r) == approvalLock' = approvalLock

\* Rollback and commit both end the transaction: its row locks go.
ReleaseApproval(r) ==
    approvalLock' = [t \in Tokens |->
        IF approvalLock[t] = r THEN NoRequest ELSE approvalLock[t]]

ReleaseKey(r) ==
    keyLock' = [s \in Slots |-> IF keyLock[s] = r THEN NoRequest ELSE keyLock[s]]

EndTransaction(r) ==
    /\ ReleaseApproval(r)
    /\ ReleaseKey(r)

-----------------------------------------------------------------------------
(* Asking for an approval.                                                 *)

\* A new token is unpredictable: nobody presented it before it was issued.
Fresh(t) ==
    /\ issuing[t] = "unused"
    /\ \A r \in Requests : pc[r] # "idle" => body[r].token # t

\* request_approval: the role is checked, the pending row is committed.
RequestApproval(t, p, a) ==
    /\ Fresh(t)
    /\ p \in Writers
    /\ approvals' = [approvals EXCEPT ![t] =
            [principal |-> p, arguments |-> a, status |-> "pending",
             expires |-> clock + Lifetime]]
    /\ issuing' = [issuing EXCEPT ![t] = "recording"]
    /\ UNCHANGED <<clock, records, approvalLock, keyLock, body, pc, answer, tickets, audit>>

\* The audit insert runs after that commit; the token is returned only when it
\* went through.
RecordApproval(t) ==
    /\ issuing[t] = "recording"
    /\ audit' = audit \cup {<<"approval_requested", t>>}
    /\ issuing' = [issuing EXCEPT ![t] = "delivered"]
    /\ UNCHANGED <<clock, approvals, records, approvalLock, keyLock, body, pc,
                   answer, tickets>>

\* Mutant: a failing audit insert is swallowed and the token returned.
TokenReturnedAnyway(t) ==
    /\ issuing[t] = "recording"
    /\ issuing' = [issuing EXCEPT ![t] = "delivered"]
    /\ UNCHANGED <<clock, approvals, records, approvalLock, keyLock, body, pc,
                   answer, tickets, audit>>

\* The audit insert raises, with or without effect, or the replica dies, before
\* the token is returned.
LoseApproval(t) ==
    /\ issuing[t] = "recording"
    /\ issuing' = [issuing EXCEPT ![t] = "lost"]
    /\ \/ audit' = audit
       \/ audit' = audit \cup {<<"approval_requested", t>>}
    /\ UNCHANGED <<clock, approvals, records, approvalLock, keyLock, body, pc,
                   answer, tickets>>

-----------------------------------------------------------------------------
(* Executing an action.                                                    *)

\* A request arrives with any key, any arguments, and a token its sender was
\* given, by whatever way, or made up (one that was never issued).
Arrive(r, b) ==
    /\ issuing[b.token] \in {"delivered", "unused"}
    /\ Goto(r, "idle", "lookup")
    /\ body' = [body EXCEPT ![r] = b]
    /\ UNCHANGED <<clock, issuing, answer, tickets, database>>

\* get_idempotent_result: a read without a lock, before anything else.
Lookup(r) ==
    /\ pc[r] = "lookup"
    /\ LET row == records[SlotOf(r)] IN
       \/ /\ row = NoRow
          /\ Goto(r, "lookup", "recheck")
          /\ UNCHANGED answer
       \/ /\ row # NoRow
          /\ \/ row.arguments # body[r].arguments
             \/ row.status # "completed"
          /\ Goto(r, "lookup", "conflict")
          /\ UNCHANGED answer
       \/ /\ row # NoRow
          /\ row.arguments = body[r].arguments
          /\ row.status = "completed"
          /\ Goto(r, "lookup", "answered")
          /\ answer' = [answer EXCEPT ![r] = row.result]
    /\ UNCHANGED <<clock, issuing, body, tickets, database>>

\* Mutant: the check inside authorize lets a failed key be retried.
KeyUnusedOrFailed(r) ==
    records[SlotOf(r)] # NoRow => records[SlotOf(r)].status = "failed"

\* The read that authorize repeats, FOR UPDATE: a lock on a row that does not
\* exist locks nothing, and a row that does exist ends the request.
KeyUnused(r) == records[SlotOf(r)] = NoRow

Recheck(r) ==
    /\ pc[r] = "recheck"
    /\ \/ /\ body[r].principal \in Writers
          /\ KeyUnused(r)
          /\ Goto(r, "recheck", "lockApproval")
       \/ /\ body[r].principal \in Writers
          /\ ~KeyUnused(r)
          /\ Goto(r, "recheck", "conflict")
       \/ /\ body[r].principal \notin Writers
          /\ Goto(r, "recheck", "forbidden")
    /\ UNCHANGED <<clock, issuing, body, answer, tickets, database>>

\* Mutant: the approval is read without FOR UPDATE.
ApprovalReadUnlocked(r) == TRUE

ApprovalFree(r) == approvalLock[body[r].token] = NoRequest

\* Mutant: the arguments hash is not compared.
ApprovalMatchesAnyArguments(r) ==
    LET row == approvals[body[r].token] IN
    /\ row # NoRow
    /\ row.status = "pending"
    /\ row.expires > clock
    /\ row.principal = body[r].principal

\* Mutant: the expiry is not looked at.
ApprovalMatchesForEver(r) ==
    LET row == approvals[body[r].token] IN
    /\ row # NoRow
    /\ row.status = "pending"
    /\ row.principal = body[r].principal
    /\ row.arguments = body[r].arguments

\* What authorize demands of the approval row it has locked.
ApprovalMatches(r) ==
    LET row == approvals[body[r].token] IN
    /\ row # NoRow
    /\ row.status = "pending"
    /\ row.expires > clock
    /\ row.principal = body[r].principal
    /\ row.arguments = body[r].arguments

\* SELECT .. FOR UPDATE waits for the row's holder, then reads the row.
LockApproval(r) ==
    /\ pc[r] = "lockApproval"
    /\ ApprovalFree(r)
    /\ \/ /\ ApprovalMatches(r)
          /\ Goto(r, "lockApproval", "insertKey")
          /\ approvalLock' = [approvalLock EXCEPT ![body[r].token] = r]
       \/ /\ ~ApprovalMatches(r)
          /\ Goto(r, "lockApproval", "forbidden")
          /\ UNCHANGED approvalLock
    /\ UNCHANGED <<clock, approvals, records, keyLock, issuing, body, answer,
                   tickets, audit>>

\* Mutant: ON CONFLICT DO UPDATE, which takes over a record that exists.
UpsertKey(r) ==
    /\ Goto(r, "insertKey", "commit")
    /\ keyLock[SlotOf(r)] = NoRequest
    /\ keyLock' = [keyLock EXCEPT ![SlotOf(r)] = r]
    /\ UNCHANGED <<clock, approvals, records, approvalLock, issuing, body,
                   answer, tickets, audit>>

\* INSERT .. ON CONFLICT DO NOTHING waits for a concurrent insert of the same
\* slot; a row committed meanwhile makes it a no-op, which nobody checks.
InsertKey(r) ==
    /\ Goto(r, "insertKey", "commit")
    /\ keyLock[SlotOf(r)] = NoRequest
    /\ keyLock' = IF KeyUnused(r) THEN [keyLock EXCEPT ![SlotOf(r)] = r]
                                  ELSE keyLock
    /\ UNCHANGED <<clock, approvals, records, approvalLock, issuing, body,
                   answer, tickets, audit>>

\* Mutant: the approval stays pending.
ConsumedNever(row) == row

Consumed(row) == [row EXCEPT !.status = "consumed"]

NewRecord(r) ==
    [arguments |-> body[r].arguments, status |-> "in_progress", result |-> NoResult]

\* The commit of authorize publishes the consumed approval and the record.
Commit(r) ==
    /\ Goto(r, "commit", "callTool")
    /\ approvals' = [approvals EXCEPT ![body[r].token] = Consumed(@)]
    /\ records' = [s \in Slots |->
            IF keyLock[s] = r THEN NewRecord(r) ELSE records[s]]
    /\ EndTransaction(r)
    /\ UNCHANGED <<clock, issuing, body, answer, tickets, audit>>

-----------------------------------------------------------------------------
(* Calling the tool (the ticket system is outside the repository).         *)

\* The tool's side effect.
CreateTicket(r) ==
    /\ Goto(r, "callTool", "awaitTool")
    /\ tickets' = tickets \cup {r}
    /\ UNCHANGED <<clock, issuing, body, answer, database>>

ToolReturns(r) ==
    /\ Goto(r, "awaitTool", "complete")
    /\ UNCHANGED <<clock, issuing, body, answer, tickets, database>>

\* Mutant: a raised call is treated like one that returned.
ToolRaisesUnnoticed(r) ==
    /\ \/ Goto(r, "callTool", "complete")
       \/ Goto(r, "awaitTool", "fail")
    /\ UNCHANGED <<clock, issuing, body, answer, tickets, database>>

\* The call raises, before the side effect or after it.
ToolRaises(r) ==
    /\ \/ Goto(r, "callTool", "fail")
       \/ Goto(r, "awaitTool", "fail")
    /\ UNCHANGED <<clock, issuing, body, answer, tickets, database>>

\* Mutant: fail writes its row without committing it.
FailureNotCommitted(r, status, result) ==
    records' = IF status = "completed" /\ records[SlotOf(r)] # NoRow
               THEN [records EXCEPT ![SlotOf(r)].status = status,
                                    ![SlotOf(r)].result = result]
               ELSE records

\* Mutant: a failed call is stored as a completed one.
FailureStoredAsCompleted(r, status, result) ==
    records' = [records EXCEPT ![SlotOf(r)].status = "completed",
                               ![SlotOf(r)].result = result]

\* The UPDATE of complete and fail: by tenant and key only, whatever the
\* status and the arguments of the row.
SetOutcome(r, status, result) ==
    records' = IF records[SlotOf(r)] # NoRow
               THEN [records EXCEPT ![SlotOf(r)].status = status,
                                    ![SlotOf(r)].result = result]
               ELSE records

Complete(r) ==
    /\ Goto(r, "complete", "recordCompleted")
    /\ SetOutcome(r, "completed", body[r].arguments)
    /\ UNCHANGED <<clock, approvals, approvalLock, keyLock, issuing, body,
                   answer, tickets, audit>>

Fail(r) ==
    /\ Goto(r, "fail", "recordFailed")
    /\ SetOutcome(r, "failed", "error")
    /\ UNCHANGED <<clock, approvals, approvalLock, keyLock, issuing, body,
                   answer, tickets, audit>>

\* record_event, then the response: 200 with the tool's result, or 502.
RecordCompleted(r) ==
    /\ Goto(r, "recordCompleted", "completed")
    /\ audit' = audit \cup {<<"completed", r>>}
    /\ answer' = [answer EXCEPT ![r] = body[r].arguments]
    /\ UNCHANGED <<clock, approvals, records, approvalLock, keyLock, issuing,
                   body, tickets>>

RecordFailed(r) ==
    /\ Goto(r, "recordFailed", "failed")
    /\ audit' = audit \cup {<<"failed", r>>}
    /\ UNCHANGED <<clock, approvals, records, approvalLock, keyLock, issuing,
                   body, answer, tickets>>

\* The commit of the event took effect, but raises: the reply was lost.
RecordRaises(r) ==
    /\ \/ /\ Goto(r, "recordCompleted", "abandoned")
          /\ audit' = audit \cup {<<"completed", r>>}
       \/ /\ Goto(r, "recordFailed", "abandoned")
          /\ audit' = audit \cup {<<"failed", r>>}
    /\ UNCHANGED <<clock, approvals, records, approvalLock, keyLock, issuing,
                   body, answer, tickets>>

-----------------------------------------------------------------------------
(* What the environment does.                                              *)

\* A replica crashes, or a statement fails: an open transaction is rolled
\* back, and after the commit of authorize nothing undoes what was done.
Abort(r) ==
    /\ \/ /\ pc[r] \in InTransaction
          /\ pc' = [pc EXCEPT ![r] = "rolledBack"]
       \/ /\ pc[r] \in Authorized \ Finished
          /\ pc' = [pc EXCEPT ![r] = "abandoned"]
    /\ EndTransaction(r)
    /\ UNCHANGED <<clock, approvals, records, issuing, body, answer, tickets, audit>>

Tick ==
    /\ clock < MaxTime
    /\ clock' = clock + 1
    /\ UNCHANGED <<issuing, body, pc, answer, tickets, database>>

-----------------------------------------------------------------------------

Issue(t) ==
    \/ \E p \in Principals, a \in Arguments : RequestApproval(t, p, a)
    \/ RecordApproval(t)
    \/ LoseApproval(t)

\* The steps the handler takes of its own accord once a request has arrived.
Advance(r) ==
    \/ Lookup(r)
    \/ Recheck(r)
    \/ LockApproval(r)
    \/ InsertKey(r)
    \/ Commit(r)
    \/ CreateTicket(r)
    \/ ToolReturns(r)
    \/ ToolRaises(r)
    \/ Complete(r)
    \/ Fail(r)
    \/ RecordCompleted(r)
    \/ RecordFailed(r)

Next ==
    \/ \E t \in Tokens : Issue(t)
    \/ \E r \in Requests, b \in RequestBody : Arrive(r, b)
    \/ \E r \in Requests : Advance(r) \/ RecordRaises(r) \/ Abort(r)
    \/ Tick

Spec == Init /\ [][Next]_vars

\* The event loop keeps running a request that can run, PostgreSQL grants a
\* free lock, and the tool call returns or raises.
Fairness == \A r \in Requests : WF_vars(Advance(r))

FairSpec == Spec /\ Fairness

-----------------------------------------------------------------------------
(* Safety.                                                                 *)

\* An approval authorises one execution: of all the requests that present a
\* token, concurrently and on any replica, at most one gets past authorize.
SingleUse ==
    \A r, q \in Requests :
        /\ pc[r] \in Authorized
        /\ pc[q] \in Authorized
        /\ body[r].token = body[q].token
        => r = q

\* A ticket exists only for a request whose approval was consumed, was granted
\* to the same principal for the same arguments, by someone who may write.
TicketsApproved ==
    \A r \in tickets :
        LET t == body[r].token IN
        /\ approvals[t] # NoRow
        /\ approvals[t].status = "consumed"
        /\ approvals[t].principal = body[r].principal
        /\ approvals[t].arguments = body[r].arguments
        /\ approvals[t].principal \in Writers

\* No approval is consumed before its grant is in the audit log: a token whose
\* audit insert failed was never handed out, so nothing can spend it.
ConsumedIsAudited ==
    \A t \in Tokens :
        approvals[t] # NoRow /\ approvals[t].status = "consumed" =>
            <<"approval_requested", t>> \in audit

\* Once complete or fail has run, the durable record of the key has left
\* in_progress, whatever other requests do with the same key.
OutcomeRecorded ==
    \A r \in Requests :
        pc[r] \in {"recordCompleted", "recordFailed", "completed", "failed"} =>
            /\ records[SlotOf(r)] # NoRow
            /\ records[SlotOf(r)].status # "in_progress"

\* A replayed answer is the result of a ticket created under the same key of
\* the same tenant, never of an attempt that failed or is still running.
ReplaysOnlyTickets ==
    \A r \in Requests : pc[r] = "answered" =>
        \E q \in tickets :
            /\ SlotOf(q) = SlotOf(r)
            /\ body[q].arguments = answer[r]

\* An event in the audit log tells the truth: action.completed is written only
\* for a ticket that exists, and action.failed never for a request that was
\* refused before the tool was called, nor for one that was answered.
AuditTruthful ==
    \A r \in Requests :
        /\ <<"completed", r>> \in audit => r \in tickets
        /\ \A e \in {"completed", "failed"} : <<e, r>> \in audit =>
                /\ pc[r] \in {e, "abandoned"}
                /\ <<"approval_requested", body[r].token>> \in audit

\* A record is never deleted, rebound to other arguments, or reopened.
RecordsKept ==
    [][\A s \in Slots : records[s] # NoRow =>
            /\ records'[s] # NoRow
            /\ records'[s].arguments = records[s].arguments
            /\ records[s].status # "in_progress" => records'[s].status # "in_progress"
      ]_vars

\* A key that has a record, of whatever status, never leads to another tool
\* call by a request that has not yet repeated the check inside authorize.
UsedKeyStaysClosed ==
    \A r \in Requests :
        [](pc[r] \in {"lookup", "recheck"} /\ records[SlotOf(r)] # NoRow
            => [](r \notin tickets))

\* The request has not read its approval yet, and the approval has expired.
Overdue(r) ==
    /\ pc[r] \in {"lookup", "recheck", "lockApproval"}
    /\ approvals[body[r].token] # NoRow
    /\ approvals[body[r].token].expires <= clock

\* An approval that has expired before authorize reads it never leads to a tool
\* call, however long the request has been on its way or has waited for the
\* lock of the row.  Past that read a request may finish after the expiry.
ExpiredNeverUsed ==
    \A r \in Requests :
        [](Overdue(r) => [](r \notin tickets))

\* The gate implements its promise.  A token is spent by the requests that
\* authorize let through with it.
Approved == INSTANCE ApprovedActions WITH
    NoGrant <- NoRow,
    grants <- [t \in Tokens |->
        IF approvals[t] = NoRow THEN NoRow
        ELSE [principal |-> approvals[t].principal,
              arguments |-> approvals[t].arguments]],
    spentBy <- [t \in Tokens |->
        {r \in Requests : pc[r] \in Authorized /\ body[r].token = t}],
    performed <- {[request |-> r, principal |-> body[r].principal,
                   arguments |-> body[r].arguments] : r \in tickets}

\* Every behaviour of the gate is a behaviour of ApprovedActions.
ImplementsApproved == Approved!Spec

-----------------------------------------------------------------------------
(* The inductive invariant behind SingleUse and TicketsApproved.           *)

\* The approval a request presents grants what it asks, in the given status.
GrantedTo(r, status) ==
    LET row == approvals[body[r].token] IN
    /\ row \in ApprovalRow
    /\ row.status = status
    /\ row.principal = body[r].principal
    /\ row.arguments = body[r].arguments

\* request_approval serves only roles the policy allows.
GrantedByWriters ==
    \A t \in Tokens : approvals[t] # NoRow =>
        /\ approvals[t].principal \in Writers
        /\ issuing[t] # "unused"

\* Between the locking read and the commit a request owns its approval row,
\* and the row still says what the read saw.
HoldersMatch ==
    \A r \in Requests : pc[r] \in {"insertKey", "commit"} =>
        /\ approvalLock[body[r].token] = r
        /\ GrantedTo(r, "pending")

\* Past the commit the approval stays consumed and matching for good.
SpendersMatch ==
    \A r \in Requests : pc[r] \in Authorized => GrantedTo(r, "consumed")

\* A request calls the tool after authorize and once.
TicketsAuthorized == \A r \in tickets : pc[r] \in Authorized \ {"callTool"}

\* The row lock carries the proof: a request that holds a pending row excludes
\* every request that has already consumed it.
GateInv ==
    /\ TypeOK
    /\ GrantedByWriters
    /\ HoldersMatch
    /\ SpendersMatch
    /\ TicketsAuthorized
    /\ SingleUse

-----------------------------------------------------------------------------
(* The inductive invariants behind the audit log and the records of keys.  *)

\* A presented token was handed out, or was made up and stays unissued.
PresentedDelivered ==
    \A r \in Requests : pc[r] # "idle" => issuing[body[r].token] \in {"delivered", "unused"}

\* A token is handed out after its audit insert.
DeliveredAudited ==
    \A t \in Tokens : issuing[t] = "delivered" => <<"approval_requested", t>> \in audit

\* A request takes its call for done only when the ticket exists.
CompletersTicketed ==
    \A r \in Requests :
        pc[r] \in {"awaitTool", "complete", "recordCompleted", "completed"} => r \in tickets

\* Only delivered tokens can be spent, so what they paid for is on the log.
AuditInv ==
    /\ PresentedDelivered
    /\ DeliveredAudited
    /\ ConsumedIsAudited
    /\ CompletersTicketed
    /\ AuditTruthful

\* The lock of a slot is an uncommitted insert into a slot that has no record.
KeyHoldersCommit ==
    \A s \in Slots : keyLock[s] # NoRequest =>
        /\ records[s] = NoRow
        /\ pc[keyLock[s]] = "commit"
        /\ SlotOf(keyLock[s]) = s

\* The insert of a request did its part, or found the record of another.
KeysTaken ==
    \A r \in Requests :
        /\ pc[r] = "commit" => records[SlotOf(r)] # NoRow \/ keyLock[SlotOf(r)] = r
        /\ pc[r] \in Authorized => records[SlotOf(r)] # NoRow

\* A stored result is that of a ticket created under the key.
ResultsTicketed ==
    \A s \in Slots : records[s] # NoRow /\ records[s].status = "completed" =>
        \E q \in tickets : SlotOf(q) = s /\ body[q].arguments = records[s].result

\* An authorized request finds a record to write its outcome to, its own or
\* that of the request that took the key.
RecordInv ==
    /\ KeyHoldersCommit
    /\ KeysTaken
    /\ ResultsTicketed
    /\ OutcomeRecorded
    /\ ReplaysOnlyTickets

-----------------------------------------------------------------------------
(* Liveness.                                                               *)

\* Every request that arrives is answered, although requests wait for each
\* other's row locks and any of them may die while it holds one.
EveryRequestEnds ==
    \A r \in Requests : pc[r] = "lookup" ~> pc[r] \in Finished

-----------------------------------------------------------------------------
(* What the documentation says and the code does not do.                   *)

\* docs/interview-questions.md:171: "An idempotency key prevents duplicate
\* side effects."  Two requests with two approvals and one key can both pass
\* the read of authorize before either commits.
KeyExecutesOnce ==
    \A r, q \in tickets : SlotOf(r) = SlotOf(q) => r = q
=============================================================================
