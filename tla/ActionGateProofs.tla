-------------------------- MODULE ActionGateProofs --------------------------
(* Proofs that hold for every number of requests, tokens, keys and payloads. *)
EXTENDS ActionGate, TLAPS

LEMMA InitGate == Init => GateInv
  BY ActionGateAssumption
  DEF Init, GateInv, TypeOK, GrantedByWriters, HoldersMatch, SpendersMatch, TicketsAuthorized,
      SingleUse, Authorized, InTransaction, Finished, Refused

LEMMA ArriveGate ==
  ASSUME GateInv, NEW r \in Requests, NEW b \in RequestBody, Arrive(r, b)
  PROVE  GateInv'
  <1> USE DEF Arrive, Goto, GateInv, database, GrantedByWriters
  <1>1. TypeOK'
    BY DEF TypeOK, InTransaction
  <1>2. HoldersMatch'
    BY DEF HoldersMatch, GrantedTo, TypeOK
  <1>3. SpendersMatch'
    BY DEF SpendersMatch, GrantedTo, TypeOK, Authorized
  <1>4. TicketsAuthorized'
    BY DEF TicketsAuthorized, TypeOK, Authorized
  <1>5. SingleUse'
    BY DEF SingleUse, TypeOK, Authorized
  <1> QED BY <1>1, <1>2, <1>3, <1>4, <1>5

\* Most steps move one request without touching an approval or its lock; all
\* such a step can disturb is the class the request's position is in.
LEMMA QuietGate ==
  ASSUME GateInv, TypeOK', NEW r \in Requests,
         UNCHANGED <<approvals, approvalLock, body>>,
         pc' = [pc EXCEPT ![r] = pc'[r]],
         pc'[r] # "callTool",
         issuing' = issuing,
         pc'[r] \in Authorized <=> pc[r] \in Authorized,
         pc'[r] \in {"insertKey", "commit"} => pc[r] \in {"insertKey", "commit"},
         tickets' = tickets \/ (tickets' = tickets \cup {r} /\ pc[r] \in Authorized)
  PROVE  GateInv'
  <1> USE DEF GateInv, GrantedByWriters
  <1>1. \A q \in Requests : pc'[q] \in Authorized <=> pc[q] \in Authorized
    BY DEF TypeOK
  <1>2. HoldersMatch'
    BY DEF HoldersMatch, GrantedTo, TypeOK
  <1>3. SpendersMatch'
    BY <1>1 DEF SpendersMatch, GrantedTo, TypeOK
  <1>4. TicketsAuthorized'
    BY <1>1 DEF TicketsAuthorized, TypeOK
  <1>5. SingleUse'
    BY <1>1 DEF SingleUse
  <1> QED BY <1>2, <1>3, <1>4, <1>5

LEMMA LookupGate ==
  ASSUME GateInv, NEW r \in Requests, Lookup(r)
  PROVE  GateInv'
  <1> USE DEF Lookup, Goto, database
  <1>1. SlotOf(r) \in Slots
    BY DEF GateInv, TypeOK, SlotOf, Slots, Tenants, RequestBody
  <1>2. answer' \in [Requests -> Arguments \cup {NoResult, "error"}]
    BY <1>1 DEF GateInv, TypeOK, RecordRow
  <1>3. TypeOK'
    BY <1>2 DEF GateInv, TypeOK, InTransaction, Finished, Refused
  <1> QED
    BY <1>3, QuietGate DEF GateInv, TypeOK, Authorized

LEMMA RecheckGate ==
  ASSUME GateInv, NEW r \in Requests, Recheck(r)
  PROVE  GateInv'
  <1> USE DEF Recheck, Goto, database
  <1>1. TypeOK'
    BY DEF GateInv, TypeOK, InTransaction, Authorized, Finished, Refused
  <1> QED
    BY <1>1, QuietGate DEF GateInv, TypeOK, Authorized

LEMMA InsertKeyGate ==
  ASSUME GateInv, NEW r \in Requests, InsertKey(r)
  PROVE  GateInv'
  <1> USE DEF InsertKey, Goto, database
  <1>1. TypeOK'
    BY DEF GateInv, TypeOK, InTransaction, Authorized, Finished, Refused, SlotOf, Slots, Tenants, RequestBody
  <1> QED
    BY <1>1, QuietGate DEF GateInv, TypeOK, Authorized

LEMMA CreateTicketGate ==
  ASSUME GateInv, NEW r \in Requests, CreateTicket(r)
  PROVE  GateInv'
  <1> USE DEF CreateTicket, Goto, database
  <1>1. TypeOK'
    BY DEF GateInv, TypeOK, InTransaction, Authorized, Finished, Refused
  <1> QED
    BY <1>1, QuietGate DEF GateInv, TypeOK, Authorized

LEMMA ToolReturnsGate ==
  ASSUME GateInv, NEW r \in Requests, ToolReturns(r)
  PROVE  GateInv'
  <1> USE DEF ToolReturns, Goto, database
  <1>1. TypeOK'
    BY DEF GateInv, TypeOK, InTransaction, Authorized, Finished, Refused
  <1> QED
    BY <1>1, QuietGate DEF GateInv, TypeOK, Authorized

LEMMA ToolRaisesGate ==
  ASSUME GateInv, NEW r \in Requests, ToolRaises(r)
  PROVE  GateInv'
  <1> USE DEF ToolRaises, Goto, database
  <1>1. TypeOK'
    BY DEF GateInv, TypeOK, InTransaction, Authorized, Finished, Refused
  <1> QED
    BY <1>1, QuietGate DEF GateInv, TypeOK, Authorized

\* complete and fail rewrite a record within its type.
LEMMA SetOutcomeType ==
  ASSUME TypeOK, NEW r \in Requests, body[r] \in RequestBody,
         NEW status \in {"completed", "failed"},
         NEW result \in Arguments \cup {"error"},
         SetOutcome(r, status, result)
  PROVE  records' \in [Slots -> RecordRow \cup {NoRow}]
  <1>1. CASE records' = records
    BY <1>1 DEF TypeOK
  <1>2. CASE records' # records
    <2> DEFINE row == [records[SlotOf(r)] EXCEPT !.status = status, !.result = result]
    <2>1. SlotOf(r) \in Slots /\ records[SlotOf(r)] \in RecordRow
      BY <1>2 DEF SetOutcome, TypeOK, SlotOf, Slots, Tenants, RequestBody
    <2>2. row \in RecordRow
      BY <2>1 DEF RecordRow
    <2>3. records' = [records EXCEPT ![SlotOf(r)] = row]
      BY <1>2, <2>1 DEF SetOutcome, TypeOK, RecordRow
    <2> QED BY <2>1, <2>2, <2>3 DEF TypeOK
  <1> QED BY <1>1, <1>2

LEMMA CompleteGate ==
  ASSUME GateInv, NEW r \in Requests, Complete(r)
  PROVE  GateInv'
  <1> USE DEF Complete, Goto, database
  <1>0. records' \in [Slots -> RecordRow \cup {NoRow}]
    BY SetOutcomeType DEF GateInv, TypeOK, RequestBody
  <1>1. TypeOK'
    BY <1>0 DEF GateInv, TypeOK, InTransaction, Authorized, Finished, Refused
  <1> QED
    BY <1>1, QuietGate DEF GateInv, TypeOK, Authorized

LEMMA FailGate ==
  ASSUME GateInv, NEW r \in Requests, Fail(r)
  PROVE  GateInv'
  <1> USE DEF Fail, Goto, database
  <1>0. records' \in [Slots -> RecordRow \cup {NoRow}]
    BY SetOutcomeType DEF GateInv, TypeOK, RequestBody
  <1>1. TypeOK'
    BY <1>0 DEF GateInv, TypeOK, InTransaction, Authorized, Finished, Refused
  <1> QED
    BY <1>1, QuietGate DEF GateInv, TypeOK, Authorized

LEMMA RecordCompletedGate ==
  ASSUME GateInv, NEW r \in Requests, RecordCompleted(r)
  PROVE  GateInv'
  <1> USE DEF RecordCompleted, Goto, database
  <1>1. TypeOK'
    BY DEF GateInv, TypeOK, InTransaction, Authorized, Finished, Refused, RequestBody
  <1> QED
    BY <1>1, QuietGate DEF GateInv, TypeOK, Authorized

LEMMA RecordFailedGate ==
  ASSUME GateInv, NEW r \in Requests, RecordFailed(r)
  PROVE  GateInv'
  <1> USE DEF RecordFailed, Goto, database
  <1>1. TypeOK'
    BY DEF GateInv, TypeOK, InTransaction, Authorized, Finished, Refused
  <1> QED
    BY <1>1, QuietGate DEF GateInv, TypeOK, Authorized

LEMMA RecordRaisesGate ==
  ASSUME GateInv, NEW r \in Requests, RecordRaises(r)
  PROVE  GateInv'
  <1> USE DEF RecordRaises, Goto, database
  <1>1. TypeOK'
    BY DEF GateInv, TypeOK, InTransaction, Authorized, Finished, Refused
  <1> QED
    BY <1>1, QuietGate DEF GateInv, TypeOK, Authorized

LEMMA LockApprovalGate ==
  ASSUME GateInv, NEW r \in Requests, LockApproval(r)
  PROVE  GateInv'
  <1> USE DEF LockApproval, Goto
  <1>1. TypeOK'
    BY DEF GateInv, TypeOK, RequestBody, InTransaction, Finished, Refused
  <1>2. CASE ~ApprovalMatches(r)
    BY <1>1, <1>2, QuietGate DEF GateInv, TypeOK, Authorized
  <1>3. CASE ApprovalMatches(r)
    <2> USE <1>3 DEF GateInv, GrantedByWriters
    <2>1. GrantedTo(r, "pending")'
      BY DEF GrantedTo, ApprovalMatches, TypeOK, RequestBody
    <2>2. HoldersMatch'
      BY <2>1, ActionGateAssumption
      DEF HoldersMatch, GrantedTo, TypeOK, RequestBody, ApprovalFree
    <2>3. SpendersMatch'
      BY DEF SpendersMatch, GrantedTo, TypeOK, Authorized
    <2>4. TicketsAuthorized'
      BY DEF TicketsAuthorized, TypeOK, Authorized
    <2>5. SingleUse'
      BY DEF SingleUse, TypeOK, Authorized
    <2> QED BY <1>1, <2>2, <2>3, <2>4, <2>5
  <1> QED BY <1>2, <1>3

LEMMA AbortGate ==
  ASSUME GateInv, NEW r \in Requests, Abort(r)
  PROVE  GateInv'
  <1> USE DEF Abort, GateInv, GrantedByWriters, EndTransaction, ReleaseKey, ReleaseApproval
  <1>1. TypeOK'
    BY DEF TypeOK, InTransaction, Authorized, Finished, Refused
  <1>2. HoldersMatch'
    BY DEF HoldersMatch, GrantedTo, TypeOK, RequestBody
  <1>3. \A q \in Requests : pc'[q] \in Authorized <=> pc[q] \in Authorized
    BY DEF TypeOK, InTransaction, Authorized, Finished, Refused
  <1>4. SpendersMatch'
    BY <1>3 DEF SpendersMatch, GrantedTo
  <1>5. TicketsAuthorized'
    BY <1>3 DEF TicketsAuthorized, TypeOK
  <1>6. SingleUse'
    BY <1>3 DEF SingleUse
  <1> QED BY <1>1, <1>2, <1>4, <1>5, <1>6

\* A new token is presented by nobody, so writing its row disturbs nobody.
LEMMA RequestApprovalGate ==
  ASSUME GateInv, NEW t \in Tokens, NEW p \in Principals, NEW a \in Arguments,
         RequestApproval(t, p, a)
  PROVE  GateInv'
  <1> USE DEF RequestApproval, Fresh, GateInv
  <1>1. TypeOK'
    BY ActionGateAssumption DEF TypeOK, ApprovalRow
  <1>2. \A r \in Requests : pc[r] # "idle" =>
            approvals'[body[r].token] = approvals[body[r].token]
    BY DEF TypeOK
  <1>3. HoldersMatch'
    BY <1>2 DEF HoldersMatch, GrantedTo
  <1>4. SpendersMatch'
    BY <1>2 DEF SpendersMatch, GrantedTo, Authorized
  <1>5. TicketsAuthorized' /\ SingleUse'
    BY DEF TicketsAuthorized, SingleUse
  <1>6. GrantedByWriters'
    BY DEF GrantedByWriters, TypeOK
  <1> QED BY <1>1, <1>3, <1>4, <1>5, <1>6

\* Steps that touch neither a request nor an approval row.
LEMMA UnrelatedGate ==
  ASSUME GateInv, TypeOK',
         UNCHANGED <<approvals, approvalLock, body, pc, tickets>>,
         \A t \in Tokens : issuing[t] # "unused" => issuing'[t] # "unused"
  PROVE  GateInv'
  BY DEF GateInv, GrantedByWriters, HoldersMatch, SpendersMatch, GrantedTo,
         TicketsAuthorized, SingleUse

LEMMA CommitGate ==
  ASSUME GateInv, NEW r \in Requests, Commit(r)
  PROVE  GateInv'
  <1> USE DEF Commit, Goto, GateInv, EndTransaction, ReleaseKey, ReleaseApproval
  <1>0. /\ body[r] \in RequestBody
        /\ GrantedTo(r, "pending")
    BY DEF HoldersMatch, TypeOK
  <1>a. Consumed(approvals[body[r].token]) \in ApprovalRow
    BY <1>0 DEF GrantedTo, ApprovalRow, Consumed
  <1>1. TypeOK'
    <2>1. approvals' \in [Tokens -> ApprovalRow \cup {NoRow}]
      BY <1>a DEF TypeOK
    <2>2. records' \in [Slots -> RecordRow \cup {NoRow}]
      BY <1>0 DEF TypeOK, NewRecord, RecordRow, RequestBody
    <2> QED BY <2>1, <2>2 DEF TypeOK, Authorized
  <1>2. HoldersMatch'
    BY <1>0 DEF HoldersMatch, GrantedTo, TypeOK, RequestBody
  <1>3. SpendersMatch'
    BY <1>0, <1>a DEF SpendersMatch, GrantedTo, TypeOK, Authorized, RequestBody, Consumed, ApprovalRow
  <1>4. TicketsAuthorized'
    BY DEF TicketsAuthorized, TypeOK, Authorized
  <1>5. SingleUse'
    BY <1>0 DEF SingleUse, SpendersMatch, GrantedTo, TypeOK, Authorized, ApprovalRow
  <1>6. GrantedByWriters'
    <2> DEFINE row == approvals[body[r].token]
    <2>1. row # NoRow /\ Consumed(row).principal = row.principal
      BY <1>0, ActionGateAssumption DEF GrantedTo, ApprovalRow, Consumed
    <2> QED
      BY <1>0, <2>1 DEF GrantedByWriters, TypeOK, RequestBody
  <1> QED BY <1>1, <1>2, <1>3, <1>4, <1>5, <1>6

LEMMA IssueGate ==
  ASSUME GateInv, NEW t \in Tokens, Issue(t)
  PROVE  GateInv'
  <1>1. CASE \E p \in Principals, a \in Arguments : RequestApproval(t, p, a)
    BY <1>1, RequestApprovalGate
  <1>2. CASE RecordApproval(t)
    <2>1. TypeOK'
      BY <1>2 DEF GateInv, TypeOK, RecordApproval
    <2>2. \A u \in Tokens : issuing[u] # "unused" => issuing'[u] # "unused"
      BY <1>2 DEF GateInv, TypeOK, RecordApproval
    <2> QED BY <1>2, <2>1, <2>2, UnrelatedGate DEF RecordApproval
  <1>3. CASE LoseApproval(t)
    <2>1. TypeOK'
      BY <1>3 DEF GateInv, TypeOK, LoseApproval
    <2>2. \A u \in Tokens : issuing[u] # "unused" => issuing'[u] # "unused"
      BY <1>3 DEF GateInv, TypeOK, LoseApproval
    <2> QED BY <1>3, <2>1, <2>2, UnrelatedGate DEF LoseApproval
  <1> QED BY <1>1, <1>2, <1>3 DEF Issue

LEMMA TickGate ==
  ASSUME GateInv, Tick
  PROVE  GateInv'
  <1>1. TypeOK'
    BY ActionGateAssumption DEF GateInv, TypeOK, Tick, database
  <1> QED BY <1>1, UnrelatedGate DEF Tick, database

LEMMA NextGate ==
  ASSUME GateInv, [Next]_vars
  PROVE  GateInv'
  <1>1. CASE \E t \in Tokens : Issue(t)
    BY <1>1, IssueGate
  <1>2. CASE \E r \in Requests, b \in RequestBody : Arrive(r, b)
    BY <1>2, ArriveGate
  <1>3. CASE \E r \in Requests : Advance(r)
    BY <1>3, LookupGate, RecheckGate, LockApprovalGate, InsertKeyGate, CommitGate,
       CreateTicketGate, ToolReturnsGate, ToolRaisesGate, CompleteGate, FailGate,
       RecordCompletedGate, RecordFailedGate
    DEF Advance
  <1>4. CASE \E r \in Requests : RecordRaises(r) \/ Abort(r)
    BY <1>4, RecordRaisesGate, AbortGate
  <1>5. CASE Tick
    BY <1>5, TickGate
  <1>6. CASE UNCHANGED vars
    BY <1>6, UnrelatedGate DEF vars, GateInv, TypeOK
  <1> QED BY <1>1, <1>2, <1>3, <1>4, <1>5, <1>6 DEF Next

\* The state of the gate keeps its type, the row locks and the committed rows
\* keep agreeing, for every workload.
THEOREM GateInvariant == Spec => []GateInv
  BY InitGate, NextGate, PTL DEF Spec

\* The tables, the row locks, the audit log and the positions of the handlers
\* keep their types, whatever requests, crashes and expiries do.
THEOREM TypeCorrect == Spec => []TypeOK
  BY GateInvariant, PTL DEF GateInv

\* However many requests present a token at once, authorize lets one through.
THEOREM ApprovalUsedOnce == Spec => []SingleUse
  BY GateInvariant, PTL DEF GateInv

\* Nothing is executed without a consumed approval of the same principal for
\* the same arguments.
THEOREM EveryTicketApproved == Spec => []TicketsApproved
  <1>1. ASSUME GateInv PROVE TicketsApproved
    <2> SUFFICES ASSUME NEW r \in tickets
                 PROVE  LET t == body[r].token IN
                        /\ approvals[t] # NoRow
                        /\ approvals[t].status = "consumed"
                        /\ approvals[t].principal = body[r].principal
                        /\ approvals[t].arguments = body[r].arguments
                        /\ approvals[t].principal \in Writers
      BY DEF TicketsApproved
    <2>1. r \in Requests /\ pc[r] \in Authorized /\ pc[r] # "idle"
      BY <1>1 DEF GateInv, TypeOK, TicketsAuthorized, Authorized
    <2>2. body[r].token \in Tokens
      BY <1>1, <2>1 DEF GateInv, TypeOK, RequestBody
    <2>3. GrantedTo(r, "consumed")
      BY <1>1, <2>1 DEF GateInv, SpendersMatch
    <2>4. approvals[body[r].token] # NoRow
      BY <2>3, ActionGateAssumption DEF GrantedTo
    <2>5. approvals[body[r].token].principal \in Writers
      BY <1>1, <2>2, <2>4 DEF GateInv, GrantedByWriters
    <2> QED BY <2>3, <2>4, <2>5 DEF GrantedTo
  <1> QED BY <1>1, GateInvariant, PTL

-----------------------------------------------------------------------------
(* The refinement mapping of ImplementsApproved, and what each step does.  *)

Grants ==
    [t \in Tokens |->
        IF approvals[t] = NoRow THEN NoRow
        ELSE [principal |-> approvals[t].principal,
              arguments |-> approvals[t].arguments]]

Spent ==
    [t \in Tokens |->
        {r \in Requests : pc[r] \in Authorized /\ body[r].token = t}]

Performed ==
    {[request |-> r, principal |-> body[r].principal,
      arguments |-> body[r].arguments] : r \in tickets}

\* A step that authorizes nobody, grants nothing and creates no ticket is not
\* seen by the promise; a request that arrives is not authorized yet.
LEMMA GateStutters ==
  ASSUME GateInv, approvals' = approvals, tickets' = tickets,
         \A q \in Requests : pc'[q] \in Authorized <=> pc[q] \in Authorized,
         \A q \in Requests : pc[q] \in Authorized => body'[q] = body[q]
  PROVE  UNCHANGED <<Grants, Spent, Performed>>
  <1>1. Grants' = Grants
    BY DEF Grants
  <1>2. Spent' = Spent
    BY DEF Spent
  <1>3. \A r \in tickets : body'[r] = body[r]
    BY DEF GateInv, TypeOK, TicketsAuthorized
  <1>4. Performed' = Performed
    BY <1>3 DEF Performed
  <1> QED BY <1>1, <1>2, <1>4

LEMMA RequestApprovalGrants ==
  ASSUME GateInv, NEW t \in Tokens, NEW p \in Principals, NEW a \in Arguments,
         RequestApproval(t, p, a)
  PROVE  /\ Grants[t] = NoRow
         /\ Grants' = [Grants EXCEPT ![t] = [principal |-> p, arguments |-> a]]
         /\ UNCHANGED <<Spent, Performed>>
  <1> USE DEF RequestApproval, Fresh
  <1>1. approvals[t] = NoRow
    BY DEF GateInv, GrantedByWriters
  <1>2. approvals'[t] # NoRow /\ approvals'[t].principal = p /\ approvals'[t].arguments = a
    <2>1. approvals'[t] \in ApprovalRow
      BY ActionGateAssumption DEF GateInv, TypeOK, ApprovalRow
    <2> QED BY <2>1, ActionGateAssumption DEF GateInv, TypeOK
  <1>3. \A u \in Tokens : u # t => approvals'[u] = approvals[u]
    BY DEF GateInv, TypeOK
  <1>4. Grants' = [Grants EXCEPT ![t] = [principal |-> p, arguments |-> a]]
    BY <1>2, <1>3 DEF Grants
  <1> QED BY <1>1, <1>4 DEF Grants, Spent, Performed

LEMMA CommitSpends ==
  ASSUME GateInv, NEW r \in Requests, Commit(r)
  PROVE  \E t \in Tokens :
            /\ Grants[t] # NoRow
            /\ Spent[t] = {}
            /\ Spent' = [Spent EXCEPT ![t] = {r}]
            /\ UNCHANGED <<Grants, Performed>>
  <1> DEFINE t == body[r].token
  <1> USE DEF Commit, Goto
  <1>1. /\ t \in Tokens
        /\ GrantedTo(r, "pending")
        /\ pc[r] \notin Authorized
        /\ pc' = [pc EXCEPT ![r] = "callTool"]
    BY DEF GateInv, HoldersMatch, TypeOK, RequestBody, Authorized
  <1>2. \A q \in Requests : pc[q] \in Authorized => body[q].token # t
    BY <1>1 DEF GateInv, SpendersMatch, GrantedTo
  <1>3. \A q \in Requests : pc'[q] \in Authorized <=> pc[q] \in Authorized \/ q = r
    BY <1>1 DEF GateInv, TypeOK, Authorized
  <1>4. Spent[t] = {}
    BY <1>1, <1>2 DEF Spent
  <1>5. Spent' = [Spent EXCEPT ![t] = {r}]
    <2>1. body' = body
      OBVIOUS
    <2>2. {q \in Requests : pc'[q] \in Authorized /\ body[q].token = t} = {r}
      BY <1>2, <1>3
    <2>3. \A u \in Tokens \ {t} :
            {q \in Requests : pc'[q] \in Authorized /\ body[q].token = u}
              = {q \in Requests : pc[q] \in Authorized /\ body[q].token = u}
      BY <1>3
    <2>4. Spent' = [u \in Tokens |-> {q \in Requests : pc'[q] \in Authorized
                                                      /\ body[q].token = u}]
      BY <2>1 DEF Spent
    <2>5. Spent' = [u \in Tokens |-> IF u = t THEN {r} ELSE Spent[u]]
      <3> HIDE DEF Commit, Goto, t
      <3> QED BY <2>2, <2>3, <2>4 DEF Spent
    <2> QED BY <2>5 DEF Spent
  <1>6. /\ approvals[t] \in ApprovalRow
        /\ approvals[t] # NoRow
        /\ approvals' = [approvals EXCEPT ![t] = Consumed(approvals[t])]
    BY <1>1, ActionGateAssumption DEF GrantedTo
  <1>7. /\ Consumed(approvals[t]) \in ApprovalRow
        /\ Consumed(approvals[t]).principal = approvals[t].principal
        /\ Consumed(approvals[t]).arguments = approvals[t].arguments
    BY <1>6 DEF ApprovalRow, Consumed
  <1>8. Grants' = Grants
    <2>1. \A u \in Tokens : u # t => approvals'[u] = approvals[u]
      BY <1>1, <1>6 DEF GateInv, TypeOK
    <2>2. approvals'[t] = Consumed(approvals[t])
      BY <1>1, <1>6 DEF GateInv, TypeOK
    <2>3. Consumed(approvals[t]) # NoRow
      BY <1>7, ActionGateAssumption
    <2> QED BY <1>6, <1>7, <2>1, <2>2, <2>3 DEF Grants
  <1>9. Grants[t] # NoRow
    <2>1. Grants[t] \in [principal : Principals, arguments : Arguments]
      BY <1>1, <1>6 DEF Grants, ApprovalRow
    <2> QED BY <2>1, ActionGateAssumption
  <1>10. Performed' = Performed
    BY DEF Performed
  <1> QED BY <1>1, <1>4, <1>5, <1>8, <1>9, <1>10

LEMMA CreateTicketPerforms ==
  ASSUME GateInv, NEW r \in Requests, CreateTicket(r)
  PROVE  \E t \in Tokens :
            /\ r \in Spent[t]
            /\ \A e \in Performed : e.request # r
            /\ Performed' = Performed \cup
                    {[request |-> r, principal |-> Grants[t].principal,
                      arguments |-> Grants[t].arguments]}
            /\ UNCHANGED <<Grants, Spent>>
  <1> DEFINE t == body[r].token
  <1> USE DEF CreateTicket, Goto, database
  <1>1. /\ t \in Tokens
        /\ pc[r] \in Authorized
        /\ GrantedTo(r, "consumed")
        /\ r \notin tickets
    BY DEF GateInv, TypeOK, RequestBody, SpendersMatch, TicketsAuthorized, Authorized
  <1>2. /\ Grants[t].principal = body[r].principal
        /\ Grants[t].arguments = body[r].arguments
    BY <1>1, ActionGateAssumption DEF Grants, GrantedTo, ApprovalRow
  <1>3. \A q \in Requests : pc'[q] \in Authorized <=> pc[q] \in Authorized
    BY DEF GateInv, TypeOK, Authorized
  <1>4. Spent' = Spent
    BY <1>3 DEF Spent
  <1>5. Performed' = Performed \cup
            {[request |-> r, principal |-> Grants[t].principal,
              arguments |-> Grants[t].arguments]}
    BY <1>2 DEF Performed
  <1>6. \A e \in Performed : e.request # r
    BY <1>1 DEF Performed
  <1>7. r \in Spent[t]
    BY <1>1 DEF Spent
  <1> QED BY <1>1, <1>4, <1>5, <1>6, <1>7 DEF Grants

LEMMA GateStep ==
  ASSUME GateInv, [Next]_vars
  PROVE  \/ UNCHANGED <<Grants, Spent, Performed>>
         \/ \E t \in Tokens :
            \/ \E g \in [principal : Principals, arguments : Arguments] :
                /\ Grants[t] = NoRow
                /\ Grants' = [Grants EXCEPT ![t] = g]
                /\ UNCHANGED <<Spent, Performed>>
            \/ \E r \in Requests :
                /\ Grants[t] # NoRow
                /\ Spent[t] = {}
                /\ Spent' = [Spent EXCEPT ![t] = {r}]
                /\ UNCHANGED <<Grants, Performed>>
            \/ \E r \in Requests :
                /\ r \in Spent[t]
                /\ \A e \in Performed : e.request # r
                /\ Performed' = Performed \cup
                        {[request |-> r, principal |-> Grants[t].principal,
                          arguments |-> Grants[t].arguments]}
                /\ UNCHANGED <<Grants, Spent>>
  <1>1. ASSUME NEW t \in Tokens, NEW p \in Principals, NEW a \in Arguments,
               RequestApproval(t, p, a)
        PROVE  \E g \in [principal : Principals, arguments : Arguments] :
                /\ Grants[t] = NoRow
                /\ Grants' = [Grants EXCEPT ![t] = g]
                /\ UNCHANGED <<Spent, Performed>>
    <2> DEFINE g == [principal |-> p, arguments |-> a]
    <2>1. g \in [principal : Principals, arguments : Arguments]
      OBVIOUS
    <2>2. /\ Grants[t] = NoRow
          /\ Grants' = [Grants EXCEPT ![t] = g]
          /\ UNCHANGED <<Spent, Performed>>
      BY <1>1, RequestApprovalGrants
    <2> HIDE DEF g
    <2> QED BY <2>1, <2>2
  <1>2. ASSUME NEW t \in Tokens, RecordApproval(t) \/ LoseApproval(t)
        PROVE  UNCHANGED <<Grants, Spent, Performed>>
    BY <1>2, GateStutters DEF RecordApproval, LoseApproval
  <1>3. ASSUME NEW r \in Requests, NEW b \in RequestBody, Arrive(r, b)
        PROVE  UNCHANGED <<Grants, Spent, Performed>>
    BY <1>3, GateStutters DEF Arrive, Goto, database, GateInv, TypeOK, Authorized
  <1>4. ASSUME NEW r \in Requests,
               Lookup(r) \/ Recheck(r) \/ LockApproval(r) \/ InsertKey(r)
        PROVE  UNCHANGED <<Grants, Spent, Performed>>
    <2>1. /\ pc' = [pc EXCEPT ![r] = pc'[r]]
          /\ pc[r] \notin Authorized /\ pc'[r] \notin Authorized
          /\ UNCHANGED <<approvals, tickets, body>>
      BY <1>4 DEF Lookup, Recheck, LockApproval, InsertKey, Goto, database,
                  GateInv, TypeOK, Authorized
    <2> QED BY <2>1, GateStutters DEF GateInv, TypeOK
  <1>5. ASSUME NEW r \in Requests,
               \/ ToolReturns(r) \/ ToolRaises(r) \/ Complete(r) \/ Fail(r)
               \/ RecordCompleted(r) \/ RecordFailed(r) \/ RecordRaises(r)
        PROVE  UNCHANGED <<Grants, Spent, Performed>>
    <2>1. /\ pc' = [pc EXCEPT ![r] = pc'[r]]
          /\ pc[r] \in Authorized /\ pc'[r] \in Authorized
          /\ UNCHANGED <<approvals, tickets, body>>
      BY <1>5 DEF ToolReturns, ToolRaises, Complete, Fail, RecordCompleted,
                  RecordFailed, RecordRaises, Goto, database, GateInv, TypeOK, Authorized
    <2> QED BY <2>1, GateStutters DEF GateInv, TypeOK
  <1>6. ASSUME NEW r \in Requests, Abort(r)
        PROVE  UNCHANGED <<Grants, Spent, Performed>>
    <2>1. \A q \in Requests : pc'[q] \in Authorized <=> pc[q] \in Authorized
      BY <1>6 DEF Abort, GateInv, TypeOK, InTransaction, Authorized, Finished, Refused
    <2> QED BY <1>6, <2>1, GateStutters DEF Abort
  <1>7. CASE Tick
    BY <1>7, GateStutters DEF Tick, database
  <1>8. CASE UNCHANGED vars
    BY <1>8, GateStutters DEF vars
  <1>9. CASE \E t \in Tokens : Issue(t)
    BY <1>1, <1>2, <1>9 DEF Issue
  <1>10. CASE \E r \in Requests : Advance(r) \/ RecordRaises(r) \/ Abort(r)
    BY <1>4, <1>5, <1>6, <1>10, CommitSpends, CreateTicketPerforms DEF Advance
  <1> QED BY <1>3, <1>7, <1>8, <1>9, <1>10 DEF Next

LEMMA InitApproved == Init => Approved!Init
  BY DEF Init, Approved!Init, Authorized

\* The gate implements its promise: every grant, every spending and every
\* ticket is a step of ApprovedActions, and nothing else the gate, its row locks
\* or its crashes do is visible there.
THEOREM GateImplementsApproved == Spec => ImplementsApproved
  <1>1. GateInv /\ [Next]_vars => [Approved!Next]_(Approved!vars)
    BY GateStep
    DEF Grants, Spent, Performed, Approved!Next, Approved!vars, Approved!Grant,
        Approved!Approve, Approved!Spend, Approved!Perform
  <1> QED BY <1>1, InitApproved, GateInvariant, PTL
    DEF Spec, ImplementsApproved, Approved!Spec

-----------------------------------------------------------------------------
(* The audit log.                                                          *)

LEMMA InitAudit == Init => AuditInv
  BY ActionGateAssumption
  DEF Init, AuditInv, PresentedDelivered, DeliveredAudited, ConsumedIsAudited, CompletersTicketed,
      AuditTruthful

\* A request on its way leaves the log as it is; it must not claim a ticket it
\* has not created, nor leave the place its event speaks of.
LEMMA QuietAudit ==
  ASSUME GateInv, AuditInv, NEW r \in Requests,
         UNCHANGED <<issuing, approvals, audit, body>>,
         pc' = [pc EXCEPT ![r] = pc'[r]],
         pc[r] \notin {"idle", "completed", "failed", "abandoned"},
         tickets \subseteq tickets',
         pc'[r] \in {"awaitTool", "complete", "recordCompleted", "completed"} => r \in tickets'
  PROVE  AuditInv'
  <1>1. PresentedDelivered'
    BY DEF AuditInv, PresentedDelivered, GateInv, TypeOK
  <1>2. DeliveredAudited' /\ ConsumedIsAudited'
    BY DEF AuditInv, DeliveredAudited, ConsumedIsAudited
  <1>3. CompletersTicketed'
    BY DEF AuditInv, CompletersTicketed, GateInv, TypeOK
  <1>4. AuditTruthful'
    BY DEF AuditInv, AuditTruthful, GateInv, TypeOK
  <1> QED BY <1>1, <1>2, <1>3, <1>4 DEF AuditInv

\* Steps that leave every request and every approval alone.
LEMMA UnrelatedAudit ==
  ASSUME AuditInv, UNCHANGED <<approvals, audit, body, pc, tickets, issuing>>
  PROVE  AuditInv'
  BY DEF AuditInv, PresentedDelivered, DeliveredAudited, ConsumedIsAudited, CompletersTicketed,
         AuditTruthful

LEMMA ArriveAudit ==
  ASSUME GateInv, AuditInv, NEW r \in Requests, NEW b \in RequestBody, Arrive(r, b)
  PROVE  AuditInv'
  <1> USE DEF Arrive, Goto, database
  <1>1. PresentedDelivered'
    BY DEF AuditInv, PresentedDelivered, GateInv, TypeOK
  <1>2. DeliveredAudited' /\ ConsumedIsAudited'
    BY DEF AuditInv, DeliveredAudited, ConsumedIsAudited
  <1>3. CompletersTicketed'
    BY DEF AuditInv, CompletersTicketed, GateInv, TypeOK
  <1>4. AuditTruthful'
    BY DEF AuditInv, AuditTruthful, GateInv, TypeOK
  <1> QED BY <1>1, <1>2, <1>3, <1>4 DEF AuditInv

\* The one step that consumes an approval: its token was presented, and a
\* presented token that has a row was delivered.
LEMMA CommitAudit ==
  ASSUME GateInv, AuditInv, NEW r \in Requests, Commit(r)
  PROVE  AuditInv'
  <1> DEFINE t == body[r].token
  <1> USE DEF Commit, Goto
  <1>1. /\ t \in Tokens
        /\ approvals[t] \in ApprovalRow
        /\ approvals[t] # NoRow
    BY ActionGateAssumption DEF GateInv, HoldersMatch, GrantedTo, TypeOK, RequestBody
  <1>2. <<"approval_requested", t>> \in audit
    <2>1. issuing[t] # "unused"
      BY <1>1 DEF GateInv, GrantedByWriters
    <2>2. issuing[t] = "delivered"
      BY <2>1 DEF AuditInv, PresentedDelivered
    <2> QED BY <1>1, <2>2 DEF AuditInv, DeliveredAudited
  <1>3. ConsumedIsAudited'
    <2>1. \A u \in Tokens : u # t => approvals'[u] = approvals[u]
      BY DEF GateInv, TypeOK
    <2> QED BY <1>2, <2>1 DEF AuditInv, ConsumedIsAudited
  <1>4. PresentedDelivered' /\ DeliveredAudited'
    BY DEF AuditInv, PresentedDelivered, DeliveredAudited, GateInv, TypeOK
  <1>5. CompletersTicketed'
    BY DEF AuditInv, CompletersTicketed, GateInv, TypeOK
  <1>6. AuditTruthful'
    BY DEF AuditInv, AuditTruthful, GateInv, TypeOK
  <1> QED BY <1>3, <1>4, <1>5, <1>6 DEF AuditInv

\* The two events of a request: it is authorized, so its approval was consumed.
LEMMA RecordAudit ==
  ASSUME GateInv, AuditInv, NEW r \in Requests, RecordCompleted(r) \/ RecordFailed(r) \/ RecordRaises(r)
  PROVE  AuditInv'
  <1> USE DEF RecordCompleted, RecordFailed, RecordRaises, Goto
  <1>1. <<"approval_requested", body[r].token>> \in audit
    <2>1. pc[r] \in Authorized /\ body[r].token \in Tokens
      BY DEF Authorized, GateInv, TypeOK, RequestBody
    <2>2. GrantedTo(r, "consumed")
      BY <2>1 DEF GateInv, SpendersMatch
    <2> QED BY <2>1, <2>2, ActionGateAssumption DEF GrantedTo, AuditInv, ConsumedIsAudited
  <1>2. PresentedDelivered' /\ DeliveredAudited' /\ ConsumedIsAudited'
    BY DEF AuditInv, PresentedDelivered, DeliveredAudited, ConsumedIsAudited, GateInv, TypeOK
  <1>3. CompletersTicketed'
    BY DEF AuditInv, CompletersTicketed, GateInv, TypeOK
  <1>4. AuditTruthful'
    <2>1. CASE RecordCompleted(r)
      BY <1>1, <2>1 DEF AuditInv, AuditTruthful, CompletersTicketed, GateInv, TypeOK
    <2>2. CASE RecordFailed(r)
      BY <1>1, <2>2 DEF AuditInv, AuditTruthful, GateInv, TypeOK
    <2>3. CASE RecordRaises(r)
      <3>1. /\ \A q \in Requests : q # r => pc'[q] = pc[q]
            /\ pc'[r] = "abandoned" /\ body' = body /\ tickets' = tickets
        BY <2>3 DEF GateInv, TypeOK
      <3>2. PICK e \in {"completed", "failed"} :
                /\ audit' = audit \cup {<<e, r>>}
                /\ e = "completed" => r \in tickets
        BY <2>3 DEF AuditInv, CompletersTicketed
      <3> QED BY <1>1, <3>1, <3>2 DEF AuditInv, AuditTruthful
    <2> QED BY <2>1, <2>2, <2>3
  <1> QED BY <1>2, <1>3, <1>4 DEF AuditInv

\* A token that is being issued was presented by nobody and spent by nobody.
LEMMA IssueAudit ==
  ASSUME GateInv, AuditInv, NEW t \in Tokens, Issue(t)
  PROVE  AuditInv'
  <1>1. CASE \E p \in Principals, a \in Arguments : RequestApproval(t, p, a)
    <2> PICK p \in Principals, a \in Arguments : RequestApproval(t, p, a)
      BY <1>1
    <2> USE DEF RequestApproval, Fresh
    <2>1. PresentedDelivered'
      BY DEF AuditInv, PresentedDelivered, GateInv, TypeOK
    <2>2. DeliveredAudited' /\ ConsumedIsAudited'
      BY DEF AuditInv, DeliveredAudited, ConsumedIsAudited, GateInv, TypeOK
    <2>3. CompletersTicketed' /\ AuditTruthful'
      BY DEF AuditInv, CompletersTicketed, AuditTruthful
    <2> QED BY <2>1, <2>2, <2>3 DEF AuditInv
  <1>2. CASE RecordApproval(t)
    <2> USE <1>2 DEF RecordApproval
    <2>1. PresentedDelivered'
      BY DEF AuditInv, PresentedDelivered, GateInv, TypeOK
    <2>2. DeliveredAudited' /\ ConsumedIsAudited'
      BY DEF AuditInv, DeliveredAudited, ConsumedIsAudited, GateInv, TypeOK
    <2>3. CompletersTicketed' /\ AuditTruthful'
      BY DEF AuditInv, CompletersTicketed, AuditTruthful
    <2> QED BY <2>1, <2>2, <2>3 DEF AuditInv
  <1>3. CASE LoseApproval(t)
    <2> USE <1>3 DEF LoseApproval
    <2>1. PresentedDelivered'
      BY DEF AuditInv, PresentedDelivered, GateInv, TypeOK
    <2>2. DeliveredAudited' /\ ConsumedIsAudited'
      BY DEF AuditInv, DeliveredAudited, ConsumedIsAudited, GateInv, TypeOK
    <2>3. CompletersTicketed' /\ AuditTruthful'
      BY DEF AuditInv, CompletersTicketed, AuditTruthful
    <2> QED BY <2>1, <2>2, <2>3 DEF AuditInv
  <1> QED BY <1>1, <1>2, <1>3 DEF Issue

LEMMA NextAudit ==
  ASSUME GateInv, AuditInv, [Next]_vars
  PROVE  AuditInv'
  <1>1. CASE \E t \in Tokens : Issue(t)
    BY <1>1, IssueAudit
  <1>2. CASE \E r \in Requests, b \in RequestBody : Arrive(r, b)
    BY <1>2, ArriveAudit
  <1>3. ASSUME NEW r \in Requests,
               \/ Lookup(r) \/ Recheck(r) \/ LockApproval(r) \/ InsertKey(r) \/ CreateTicket(r)
               \/ ToolReturns(r) \/ ToolRaises(r) \/ Complete(r) \/ Fail(r)
        PROVE  AuditInv'
    <2>1. /\ UNCHANGED <<issuing, approvals, audit, body>>
          /\ pc' = [pc EXCEPT ![r] = pc'[r]]
          /\ pc[r] \notin {"idle", "completed", "failed", "abandoned"}
          /\ tickets \subseteq tickets'
          /\ pc'[r] \in {"awaitTool", "complete", "recordCompleted", "completed"} => r \in tickets'
      BY <1>3
      DEF Lookup, Recheck, LockApproval, InsertKey, CreateTicket, ToolReturns, ToolRaises, Complete,
          Fail, Goto, database, AuditInv, CompletersTicketed, GateInv, TypeOK
    <2> QED BY <2>1, QuietAudit
  <1>4. ASSUME NEW r \in Requests, Abort(r)
        PROVE  AuditInv'
    BY <1>4, QuietAudit DEF Abort, InTransaction, Authorized, Finished, Refused, GateInv, TypeOK
  <1>5. CASE \E r \in Requests : Advance(r) \/ RecordRaises(r)
    BY <1>3, <1>5, CommitAudit, RecordAudit DEF Advance
  <1>6. CASE Tick
    BY <1>6, UnrelatedAudit DEF Tick, database
  <1>7. CASE UNCHANGED vars
    BY <1>7, UnrelatedAudit DEF vars
  <1> QED BY <1>1, <1>2, <1>4, <1>5, <1>6, <1>7 DEF Next

\* The inductive invariant of the audit log.
THEOREM AuditInvariant == Spec => []AuditInv
  BY InitAudit, NextAudit, GateInvariant, PTL DEF Spec

\* Nobody can spend an approval whose grant did not reach the audit log.
THEOREM ConsumptionAudited == Spec => []ConsumedIsAudited
  BY AuditInvariant, PTL DEF AuditInv

\* action.completed is written only for a ticket, action.failed only past
\* authorize, and both after the event of their approval.
THEOREM AuditLogTrue == Spec => []AuditTruthful
  BY AuditInvariant, PTL DEF AuditInv

-----------------------------------------------------------------------------
(* The records of the idempotency keys.                                    *)

\* A request has a slot, and keeps it for as long as it keeps its body.
LEMMA SlotType ==
  ASSUME TypeOK, NEW r \in Requests, pc[r] # "idle"
  PROVE  SlotOf(r) \in Slots
  BY DEF TypeOK, SlotOf, Slots, Tenants, RequestBody

LEMMA SlotKept ==
  ASSUME NEW r \in Requests, body'[r] = body[r]
  PROVE  SlotOf(r)' = SlotOf(r)
  BY DEF SlotOf

LEMMA InitRecords == Init => RecordInv
  BY ActionGateAssumption
  DEF Init, RecordInv, KeyHoldersCommit, KeysTaken, ResultsTicketed, OutcomeRecorded,
      ReplaysOnlyTickets, Authorized

HasOutcome == {"recordCompleted", "recordFailed", "completed", "failed"}

\* A request on its way that touches no record leaves the records' invariant
\* alone, if it does not get past a statement that writes one.
LEMMA QuietRecords ==
  ASSUME GateInv, RecordInv, NEW r \in Requests,
         UNCHANGED <<records, keyLock, body>>,
         pc' = [pc EXCEPT ![r] = pc'[r]],
         pc[r] \notin {"idle", "commit"},
         pc'[r] \notin {"commit", "answered"},
         pc'[r] \in Authorized => pc[r] \in Authorized,
         pc'[r] \in HasOutcome => pc[r] \in HasOutcome,
         \A q \in Requests : q # r => answer'[q] = answer[q],
         tickets \subseteq tickets'
  PROVE  RecordInv'
  <1>1. \A q \in Requests : SlotOf(q)' = SlotOf(q)
    BY SlotKept
  <1>2. \A q \in Requests : q # r => pc'[q] = pc[q]
    BY DEF GateInv, TypeOK
  <1>3. KeyHoldersCommit'
    BY <1>1, <1>2 DEF RecordInv, KeyHoldersCommit, GateInv, TypeOK
  <1>4. KeysTaken'
    BY <1>1, <1>2 DEF RecordInv, KeysTaken
  <1>5. ResultsTicketed'
    BY <1>1 DEF RecordInv, ResultsTicketed, GateInv, TypeOK
  <1>6. OutcomeRecorded'
    BY <1>1, <1>2 DEF RecordInv, OutcomeRecorded, HasOutcome
  <1>7. ReplaysOnlyTickets'
    BY <1>1, <1>2 DEF RecordInv, ReplaysOnlyTickets, GateInv, TypeOK
  <1> QED BY <1>3, <1>4, <1>5, <1>6, <1>7 DEF RecordInv

\* Steps that leave every request alone.
LEMMA UnrelatedRecords ==
  ASSUME RecordInv, UNCHANGED <<records, keyLock, body, pc, answer, tickets>>
  PROVE  RecordInv'
  BY DEF RecordInv, KeyHoldersCommit, KeysTaken, ResultsTicketed, OutcomeRecorded,
         ReplaysOnlyTickets, SlotOf

LEMMA ArriveRecords ==
  ASSUME GateInv, RecordInv, NEW r \in Requests, NEW b \in RequestBody, Arrive(r, b)
  PROVE  RecordInv'
  <1> USE DEF Arrive, Goto, database
  <1>1. \A q \in Requests : q # r => pc'[q] = pc[q] /\ SlotOf(q)' = SlotOf(q)
    BY SlotKept DEF GateInv, TypeOK
  <1>2. pc[r] = "idle" /\ pc'[r] = "lookup" /\ r \notin tickets
    BY DEF GateInv, TypeOK, TicketsAuthorized, Authorized
  <1>3. KeyHoldersCommit'
    BY <1>1, <1>2 DEF RecordInv, KeyHoldersCommit, GateInv, TypeOK
  <1>4. KeysTaken'
    BY <1>1, <1>2 DEF RecordInv, KeysTaken, Authorized
  <1>5. \A q \in tickets : q # r /\ body'[q] = body[q] /\ SlotOf(q)' = SlotOf(q)
    BY <1>1, <1>2 DEF GateInv, TypeOK
  <1>6. ResultsTicketed'
    BY <1>5 DEF RecordInv, ResultsTicketed
  <1>7. OutcomeRecorded'
    BY <1>1, <1>2 DEF RecordInv, OutcomeRecorded
  <1>8. ReplaysOnlyTickets'
    BY <1>1, <1>2, <1>5 DEF RecordInv, ReplaysOnlyTickets
  <1> QED BY <1>3, <1>4, <1>6, <1>7, <1>8 DEF RecordInv

\* A replay reads a stored result, which is that of a ticket.
LEMMA LookupRecords ==
  ASSUME GateInv, RecordInv, NEW r \in Requests, Lookup(r)
  PROVE  RecordInv'
  <1> USE DEF Lookup, Goto, database
  <1>1. CASE pc'[r] # "answered"
    BY <1>1, QuietRecords DEF GateInv, TypeOK, Authorized, HasOutcome
  <1>2. CASE pc'[r] = "answered"
    <2>1. /\ records[SlotOf(r)] # NoRow
          /\ records[SlotOf(r)].status = "completed"
          /\ pc' = [pc EXCEPT ![r] = "answered"]
          /\ answer' = [answer EXCEPT ![r] = records[SlotOf(r)].result]
      BY <1>2 DEF GateInv, TypeOK
    <2>2. SlotOf(r) \in Slots
      BY SlotType DEF GateInv
    <2>3. \A q \in Requests : SlotOf(q)' = SlotOf(q)
      BY SlotKept
    <2>4. \A q \in Requests : q # r => pc'[q] = pc[q] /\ answer'[q] = answer[q]
      BY <2>1 DEF GateInv, TypeOK
    <2>5. \E q \in tickets : SlotOf(q) = SlotOf(r) /\ body[q].arguments = answer'[r]
      BY <2>1, <2>2 DEF RecordInv, ResultsTicketed, GateInv, TypeOK
    <2>6. ReplaysOnlyTickets'
      BY <2>3, <2>4, <2>5 DEF RecordInv, ReplaysOnlyTickets, GateInv, TypeOK
    <2>7. KeyHoldersCommit'
      BY <2>1, <2>3, <2>4 DEF RecordInv, KeyHoldersCommit, GateInv, TypeOK
    <2>8. KeysTaken' /\ OutcomeRecorded'
      BY <1>2, <2>3, <2>4 DEF RecordInv, KeysTaken, OutcomeRecorded, Authorized
    <2>9. ResultsTicketed'
      BY <2>3 DEF RecordInv, ResultsTicketed, GateInv, TypeOK
    <2> QED BY <2>6, <2>7, <2>8, <2>9 DEF RecordInv
  <1> QED BY <1>1, <1>2

LEMMA InsertKeyRecords ==
  ASSUME GateInv, RecordInv, NEW r \in Requests, InsertKey(r)
  PROVE  RecordInv'
  <1> USE DEF InsertKey, Goto
  <1>1. SlotOf(r) \in Slots
    BY SlotType DEF GateInv
  <1>2. \A q \in Requests : SlotOf(q)' = SlotOf(q)
    BY SlotKept
  <1>3. /\ pc[r] = "insertKey" /\ pc'[r] = "commit"
        /\ \A q \in Requests : q # r => pc'[q] = pc[q]
    BY DEF GateInv, TypeOK
  <1>4. KeyHoldersCommit'
    BY <1>1, <1>2, <1>3 DEF RecordInv, KeyHoldersCommit, KeyUnused, GateInv, TypeOK
  <1>5. KeysTaken'
    BY <1>1, <1>2, <1>3, ActionGateAssumption
    DEF RecordInv, KeysTaken, KeyUnused, Authorized, GateInv, TypeOK
  <1>6. ResultsTicketed' /\ OutcomeRecorded' /\ ReplaysOnlyTickets'
    BY <1>2, <1>3 DEF RecordInv, ResultsTicketed, OutcomeRecorded, ReplaysOnlyTickets, GateInv, TypeOK
  <1> QED BY <1>4, <1>5, <1>6 DEF RecordInv

\* What a commit writes to the records goes into an empty slot.
LEMMA CommitRecords ==
  ASSUME GateInv, RecordInv, NEW r \in Requests, Commit(r)
  PROVE  RecordInv'
  <1> USE DEF Commit, Goto, EndTransaction, ReleaseKey
  <1>1. SlotOf(r) \in Slots
    BY SlotType DEF GateInv
  <1>2. \A q \in Requests : SlotOf(q)' = SlotOf(q)
    BY SlotKept
  <1>3. /\ pc[r] = "commit" /\ pc'[r] = "callTool"
        /\ \A q \in Requests : q # r => pc'[q] = pc[q]
    BY DEF GateInv, TypeOK
  <1>4. \A s \in Slots :
            \/ keyLock[s] = r /\ records[s] = NoRow /\ records'[s] = NewRecord(r)
               /\ keyLock'[s] = NoRequest
            \/ keyLock[s] # r /\ records'[s] = records[s] /\ keyLock'[s] = keyLock[s]
    BY ActionGateAssumption DEF RecordInv, KeyHoldersCommit, GateInv, TypeOK
  <1>5. NewRecord(r) # NoRow /\ NewRecord(r).status = "in_progress"
    BY ActionGateAssumption DEF NewRecord, RecordRow, GateInv, TypeOK, RequestBody
  <1> HIDE DEF Commit
  <1>6. KeyHoldersCommit'
    BY <1>2, <1>3, <1>4 DEF RecordInv, KeyHoldersCommit, GateInv, TypeOK
  <1>7. KeysTaken'
    <2> SUFFICES ASSUME NEW q \in Requests, pc'[q] = "commit" \/ pc'[q] \in Authorized
                 PROVE  (/\ pc[q] = "commit" => records[SlotOf(q)] # NoRow \/ keyLock[SlotOf(q)] = q
                         /\ pc[q] \in Authorized => records[SlotOf(q)] # NoRow)'
      BY DEF KeysTaken
    <2>1. pc[q] = "commit" \/ pc[q] \in Authorized
      BY <1>3
    <2>2. SlotOf(q) \in Slots
      BY <2>1, SlotType DEF GateInv, Authorized
    <2>3. records[SlotOf(q)] # NoRow \/ keyLock[SlotOf(q)] = q
      BY <2>1 DEF RecordInv, KeysTaken
    <2> QED BY <1>2, <1>3, <1>4, <1>5, <2>1, <2>2, <2>3 DEF RecordInv, KeysTaken, Authorized
  <1>8. ResultsTicketed'
    BY <1>2, <1>4, <1>5 DEF RecordInv, ResultsTicketed, GateInv, TypeOK, Commit
  <1>9. OutcomeRecorded'
    <2> SUFFICES ASSUME NEW q \in Requests, pc'[q] \in HasOutcome
                 PROVE  (records[SlotOf(q)] # NoRow /\ records[SlotOf(q)].status # "in_progress")'
      BY DEF OutcomeRecorded, HasOutcome
    <2>1. q # r /\ pc[q] \in HasOutcome
      BY <1>3 DEF HasOutcome
    <2>2. SlotOf(q) \in Slots
      BY <2>1, SlotType DEF GateInv, HasOutcome
    <2> QED BY <1>2, <1>4, <2>1, <2>2 DEF RecordInv, OutcomeRecorded, HasOutcome
  <1>10. ReplaysOnlyTickets'
    BY <1>2, <1>3 DEF RecordInv, ReplaysOnlyTickets, GateInv, TypeOK, Commit
  <1> QED BY <1>6, <1>7, <1>8, <1>9, <1>10 DEF RecordInv

\* complete and fail write to the record their slot has, and to no other.
LEMMA OutcomeRecords ==
  ASSUME GateInv, RecordInv, NEW r \in Requests,
         NEW status \in {"completed", "failed"}, NEW result \in Arguments \cup {"error"},
         pc[r] \in {"complete", "fail"}, pc'[r] \in {"recordCompleted", "recordFailed"},
         pc' = [pc EXCEPT ![r] = pc'[r]],
         SetOutcome(r, status, result),
         UNCHANGED <<keyLock, body, answer, tickets>>,
         status = "completed" => r \in tickets /\ result = body[r].arguments
  PROVE  RecordInv'
  <1> DEFINE row == [records[SlotOf(r)] EXCEPT !.status = status, !.result = result]
  <1>1. /\ SlotOf(r) \in Slots
        /\ records[SlotOf(r)] # NoRow
        /\ records[SlotOf(r)] \in RecordRow
    BY SlotType DEF RecordInv, KeysTaken, Authorized, GateInv, TypeOK
  <1>2. \A q \in Requests : SlotOf(q)' = SlotOf(q)
    BY SlotKept
  <1>3. \A q \in Requests : q # r => pc'[q] = pc[q]
    BY DEF GateInv, TypeOK
  <1>4. row \in RecordRow /\ row.status = status /\ row.result = result
    BY <1>1 DEF RecordRow
  <1>5. records' = [records EXCEPT ![SlotOf(r)] = row]
    BY <1>1 DEF SetOutcome, GateInv, TypeOK, RecordRow
  <1>6. /\ records'[SlotOf(r)] # NoRow
        /\ records'[SlotOf(r)].status = status
        /\ records'[SlotOf(r)].result = result
        /\ \A s \in Slots : s # SlotOf(r) => records'[s] = records[s]
    BY <1>1, <1>4, <1>5, ActionGateAssumption DEF GateInv, TypeOK
  <1> HIDE DEF row
  <1>7. KeyHoldersCommit'
    BY <1>1, <1>2, <1>3, <1>6 DEF RecordInv, KeyHoldersCommit, GateInv, TypeOK
  <1>8. \A q \in Requests : pc'[q] # "idle" => SlotOf(q) \in Slots
    BY <1>1, <1>3, SlotType DEF GateInv
  <1>9. KeysTaken'
    BY <1>2, <1>3, <1>6, <1>8 DEF RecordInv, KeysTaken, Authorized
  <1>10. ResultsTicketed'
    BY <1>1, <1>2, <1>6 DEF RecordInv, ResultsTicketed, GateInv, TypeOK
  <1>11. OutcomeRecorded'
    BY <1>2, <1>3, <1>6, <1>8 DEF RecordInv, OutcomeRecorded
  <1>12. ReplaysOnlyTickets'
    BY <1>2, <1>3 DEF RecordInv, ReplaysOnlyTickets, GateInv, TypeOK
  <1> QED BY <1>7, <1>9, <1>10, <1>11, <1>12 DEF RecordInv

LEMMA CompleteRecords ==
  ASSUME GateInv, AuditInv, RecordInv, NEW r \in Requests, Complete(r)
  PROVE  RecordInv'
  <1>1. r \in tickets /\ body[r].arguments \in Arguments
    BY DEF Complete, Goto, AuditInv, CompletersTicketed, GateInv, TypeOK, RequestBody
  <1> QED BY <1>1, OutcomeRecords DEF Complete, Goto, GateInv, TypeOK

LEMMA FailRecords ==
  ASSUME GateInv, RecordInv, NEW r \in Requests, Fail(r)
  PROVE  RecordInv'
  BY OutcomeRecords DEF Fail, Goto, GateInv, TypeOK

\* A rollback gives up the slot its transaction had taken.
LEMMA AbortRecords ==
  ASSUME GateInv, RecordInv, NEW r \in Requests, Abort(r)
  PROVE  RecordInv'
  <1> USE DEF Abort, EndTransaction, ReleaseKey
  <1>1. \A q \in Requests : SlotOf(q)' = SlotOf(q)
    BY SlotKept
  <1>2. \A q \in Requests : q # r => pc'[q] = pc[q]
    BY DEF GateInv, TypeOK
  <1>3. /\ pc[r] # "idle"
        /\ pc'[r] \in {"rolledBack", "abandoned"}
        /\ pc'[r] = "abandoned" => pc[r] \in Authorized
    BY DEF GateInv, TypeOK, InTransaction, Authorized, Finished, Refused
  <1>4. \A s \in Slots : keyLock'[s] = IF keyLock[s] = r THEN NoRequest ELSE keyLock[s]
    BY DEF GateInv, TypeOK
  <1>5. KeyHoldersCommit'
    BY <1>1, <1>2, <1>4 DEF RecordInv, KeyHoldersCommit, GateInv, TypeOK
  <1>6. KeysTaken'
    <2>1. \A q \in Requests : pc[q] # "idle" => SlotOf(q) \in Slots
      BY SlotType DEF GateInv
    <2> QED BY <1>1, <1>2, <1>3, <1>4, <2>1 DEF RecordInv, KeysTaken, Authorized
  <1>7. ResultsTicketed'
    BY <1>1 DEF RecordInv, ResultsTicketed, GateInv, TypeOK
  <1>8. OutcomeRecorded'
    BY <1>1, <1>2, <1>3 DEF RecordInv, OutcomeRecorded
  <1>9. ReplaysOnlyTickets'
    BY <1>1, <1>2, <1>3 DEF RecordInv, ReplaysOnlyTickets, GateInv, TypeOK
  <1> QED BY <1>5, <1>6, <1>7, <1>8, <1>9 DEF RecordInv

LEMMA NextRecords ==
  ASSUME GateInv, AuditInv, RecordInv, [Next]_vars
  PROVE  RecordInv'
  <1>1. CASE \E t \in Tokens : Issue(t)
    BY <1>1, UnrelatedRecords DEF Issue, RequestApproval, RecordApproval, LoseApproval
  <1>2. CASE \E r \in Requests, b \in RequestBody : Arrive(r, b)
    BY <1>2, ArriveRecords
  <1>3. ASSUME NEW r \in Requests,
               \/ Recheck(r) \/ LockApproval(r) \/ CreateTicket(r) \/ ToolReturns(r)
               \/ ToolRaises(r) \/ RecordCompleted(r) \/ RecordFailed(r) \/ RecordRaises(r)
        PROVE  RecordInv'
    <2>1. /\ UNCHANGED <<records, keyLock, body>>
          /\ pc' = [pc EXCEPT ![r] = pc'[r]]
          /\ pc[r] \notin {"idle", "commit"}
          /\ pc'[r] \notin {"commit", "answered"}
          /\ pc'[r] \in Authorized => pc[r] \in Authorized
          /\ pc'[r] \in HasOutcome => pc[r] \in HasOutcome
          /\ \A q \in Requests : q # r => answer'[q] = answer[q]
          /\ tickets \subseteq tickets'
      BY <1>3
      DEF Recheck, LockApproval, CreateTicket, ToolReturns, ToolRaises, RecordCompleted,
          RecordFailed, RecordRaises, Goto, database, GateInv, TypeOK, Authorized, HasOutcome
    <2> QED BY <2>1, QuietRecords
  <1>4. CASE \E r \in Requests : Advance(r) \/ RecordRaises(r)
    BY <1>3, <1>4, LookupRecords, InsertKeyRecords, CommitRecords, CompleteRecords, FailRecords
    DEF Advance
  <1>5. CASE \E r \in Requests : Abort(r)
    BY <1>5, AbortRecords
  <1>6. CASE Tick
    BY <1>6, UnrelatedRecords DEF Tick, database
  <1>7. CASE UNCHANGED vars
    BY <1>7, UnrelatedRecords DEF vars
  <1> QED BY <1>1, <1>2, <1>4, <1>5, <1>6, <1>7 DEF Next

\* The inductive invariant of the idempotency records.
THEOREM RecordInvariant == Spec => []RecordInv
  BY InitRecords, NextRecords, GateInvariant, AuditInvariant, PTL DEF Spec

\* Whatever other requests do with a key, an outcome that was committed is there
\* to be read.
THEOREM OutcomesRecorded == Spec => []OutcomeRecorded
  BY RecordInvariant, PTL DEF RecordInv

\* Whoever is answered from a record gets the result of a ticket of that key.
THEOREM ReplaysTicketed == Spec => []ReplaysOnlyTickets
  BY RecordInvariant, PTL DEF RecordInv

\* What a step does to a record: nothing, fill an empty slot, or set its outcome.
LEMMA RecordsStep ==
  ASSUME GateInv, RecordInv, [Next]_vars, NEW s \in Slots, records[s] # NoRow
  PROVE  /\ records'[s] # NoRow
         /\ records'[s].arguments = records[s].arguments
         /\ records[s].status # "in_progress" => records'[s].status # "in_progress"
  <1>1. CASE records' = records
    BY <1>1
  <1>2. ASSUME NEW r \in Requests, Commit(r)
        PROVE  records'[s] = records[s]
    <2>1. keyLock[s] # r
      BY ActionGateAssumption DEF RecordInv, KeyHoldersCommit
    <2> QED BY <1>2, <2>1 DEF Commit
  <1>3. ASSUME NEW r \in Requests, NEW status \in {"completed", "failed"},
               NEW result \in Arguments \cup {"error"}, SetOutcome(r, status, result)
        PROVE  /\ records'[s] # NoRow
               /\ records'[s].arguments = records[s].arguments
               /\ records[s].status # "in_progress" => records'[s].status # "in_progress"
    <2> DEFINE row == [records[s] EXCEPT !.status = status, !.result = result]
    <2>1. /\ row \in RecordRow
          /\ row.status = status
          /\ row.arguments = records[s].arguments
      BY DEF GateInv, TypeOK, RecordRow
    <2>2. row # NoRow
      BY <2>1, ActionGateAssumption
    <2>3. records'[s] \in {row, records[s]}
      BY <1>3 DEF SetOutcome, GateInv, TypeOK, RecordRow
    <2> HIDE DEF row
    <2> QED BY <2>1, <2>2, <2>3
  <1>4. ASSUME NEW r \in Requests, Complete(r) \/ Fail(r)
        PROVE  \E status \in {"completed", "failed"}, result \in Arguments \cup {"error"} :
                    SetOutcome(r, status, result)
    BY <1>4 DEF Complete, Fail, Goto, GateInv, TypeOK, RequestBody
  <1>5. CASE \E r \in Requests : Complete(r) \/ Fail(r)
    BY <1>3, <1>4, <1>5
  <1>6. CASE \E r \in Requests : Commit(r)
    BY <1>2, <1>6
  <1>7. CASE \E r \in Requests :
                \/ Lookup(r) \/ Recheck(r) \/ LockApproval(r) \/ InsertKey(r) \/ CreateTicket(r)
                \/ ToolReturns(r) \/ ToolRaises(r) \/ RecordCompleted(r) \/ RecordFailed(r)
                \/ RecordRaises(r) \/ Abort(r)
    BY <1>1, <1>7
    DEF Lookup, Recheck, LockApproval, InsertKey, CreateTicket, ToolReturns, ToolRaises,
        RecordCompleted, RecordFailed, RecordRaises, Abort, database
  <1>8. CASE \E t \in Tokens : Issue(t)
    BY <1>1, <1>8 DEF Issue, RequestApproval, RecordApproval, LoseApproval
  <1>9. CASE (\E r \in Requests, b \in RequestBody : Arrive(r, b)) \/ Tick \/ UNCHANGED vars
    BY <1>1, <1>9 DEF Arrive, Tick, vars, database
  <1> QED BY <1>5, <1>6, <1>7, <1>8, <1>9 DEF Next, Advance

\* No step deletes a record, binds it to other arguments or reopens it: an
\* insert that came too late changes nothing, and an UPDATE by tenant and key
\* meets a record that is no longer empty.
THEOREM RecordsNeverLost == Spec => RecordsKept
  <1>1. GateInv /\ RecordInv /\ [Next]_vars =>
            [\A s \in Slots : records[s] # NoRow =>
                /\ records'[s] # NoRow
                /\ records'[s].arguments = records[s].arguments
                /\ records[s].status # "in_progress" => records'[s].status # "in_progress"
            ]_vars
    BY RecordsStep
  <1> QED BY <1>1, GateInvariant, RecordInvariant, PTL DEF Spec, RecordsKept

\* A request keeps the body it came with.
LEMMA BodyKept ==
  ASSUME GateInv, [Next]_vars, NEW r \in Requests, pc[r] # "idle"
  PROVE  body'[r] = body[r]
  <1>1. ASSUME NEW q \in Requests, NEW b \in RequestBody, Arrive(q, b)
        PROVE  body'[r] = body[r]
    BY <1>1 DEF Arrive, Goto, GateInv, TypeOK
  <1>2. CASE \E q \in Requests : Advance(q) \/ RecordRaises(q) \/ Abort(q)
    BY <1>2
    DEF Advance, Lookup, Recheck, LockApproval, InsertKey, Commit, CreateTicket, ToolReturns,
        ToolRaises, Complete, Fail, RecordCompleted, RecordFailed, RecordRaises, Abort, Goto
  <1>3. CASE (\E t \in Tokens : Issue(t)) \/ Tick \/ UNCHANGED vars
    BY <1>3 DEF Issue, RequestApproval, RecordApproval, LoseApproval, Tick, vars
  <1> QED BY <1>1, <1>2, <1>3 DEF Next

\* A request that has not passed the check of authorize, in a slot that has a
\* record: it can only end without a ticket.
Shut(r) ==
    /\ pc[r] \in {"lookup", "recheck"} \cup Refused \cup {"answered"}
    /\ records[SlotOf(r)] # NoRow

LEMMA ShutStep ==
  ASSUME GateInv, RecordInv, [Next]_vars, NEW r \in Requests, Shut(r)
  PROVE  Shut(r)'
  <1>1. SlotOf(r) \in Slots
    BY SlotType DEF Shut, Refused, GateInv
  <1>2. records'[SlotOf(r)] # NoRow
    BY <1>1, RecordsStep DEF Shut
  <1>3. body'[r] = body[r]
    BY BodyKept DEF Shut, Refused
  <1>4. pc'[r] \in {"lookup", "recheck"} \cup Refused \cup {"answered"}
    <2> USE DEF Shut, Refused, GateInv, TypeOK
    <2>1. ASSUME NEW q \in Requests, Advance(q) \/ RecordRaises(q) \/ Abort(q), q # r
          PROVE  pc'[r] = pc[r]
      BY <2>1
      DEF Advance, Lookup, Recheck, LockApproval, InsertKey, Commit, CreateTicket, ToolReturns,
          ToolRaises, Complete, Fail, RecordCompleted, RecordFailed, RecordRaises, Abort, Goto
    <2>2. CASE Advance(r)
      BY <2>2
      DEF Advance, Lookup, Recheck, LockApproval, InsertKey, Commit, CreateTicket, ToolReturns,
          ToolRaises, Complete, Fail, RecordCompleted, RecordFailed, KeyUnused, Goto
    <2>3. CASE RecordRaises(r) \/ Abort(r)
      BY <2>3 DEF RecordRaises, Abort, Goto, InTransaction, Authorized, Finished
    <2>4. ASSUME NEW q \in Requests, NEW b \in RequestBody, Arrive(q, b)
          PROVE  pc'[r] = pc[r]
      BY <2>4 DEF Arrive, Goto
    <2>5. CASE (\E t \in Tokens : Issue(t)) \/ Tick \/ UNCHANGED vars
      BY <2>5 DEF Issue, RequestApproval, RecordApproval, LoseApproval, Tick, vars
    <2> QED BY <2>1, <2>2, <2>3, <2>4, <2>5 DEF Next
  <1>5. SlotOf(r)' = SlotOf(r)
    BY <1>3, SlotKept
  <1> QED BY <1>2, <1>4, <1>5 DEF Shut

\* A key with a record never leads to another tool call by a request that has
\* the check of authorize still before it.
THEOREM UsedKeysStayClosed == Spec => UsedKeyStaysClosed
  <1>1. ASSUME NEW r \in Requests
        PROVE  Spec => [](pc[r] \in {"lookup", "recheck"} /\ records[SlotOf(r)] # NoRow
                            => [](r \notin tickets))
    <2>1. pc[r] \in {"lookup", "recheck"} /\ records[SlotOf(r)] # NoRow => Shut(r)
      BY DEF Shut
    <2>2. GateInv /\ Shut(r) => r \notin tickets
      BY DEF GateInv, TicketsAuthorized, Shut, Authorized, Refused
    <2>3. GateInv /\ RecordInv /\ [Next]_vars /\ Shut(r) => Shut(r)'
      BY ShutStep
    <2> QED BY <2>1, <2>2, <2>3, GateInvariant, RecordInvariant, PTL DEF Spec
  <1> QED BY <1>1 DEF UsedKeyStaysClosed

\* The approval a request presents keeps its row and its expiry, and time does
\* not run back.
LEMMA ExpiryKept ==
  ASSUME GateInv, [Next]_vars, NEW r \in Requests, pc[r] # "idle",
         approvals[body[r].token] # NoRow
  PROVE  /\ approvals'[body[r].token] # NoRow
         /\ approvals'[body[r].token].expires = approvals[body[r].token].expires
         /\ clock \in Nat /\ clock' \in Nat /\ clock <= clock'
  <1> DEFINE t == body[r].token
  <1>1. t \in Tokens /\ approvals[t] \in ApprovalRow
    BY DEF GateInv, TypeOK, RequestBody
  <1>2. clock \in Nat /\ clock' \in Nat /\ clock <= clock'
    <2>1. clock' = clock \/ clock' = clock + 1
      BY DEF Next, Issue, RequestApproval, RecordApproval, LoseApproval, Arrive, Advance, Lookup,
             Recheck, LockApproval, InsertKey, Commit, CreateTicket, ToolReturns, ToolRaises,
             Complete, Fail, RecordCompleted, RecordFailed, RecordRaises, Abort, Tick, vars
    <2> QED BY <2>1, ActionGateAssumption DEF GateInv, TypeOK
  <1>3. CASE approvals'[t] = approvals[t]
    BY <1>2, <1>3
  <1>4. ASSUME NEW q \in Requests, Commit(q)
        PROVE  approvals'[t] # NoRow /\ approvals'[t].expires = approvals[t].expires
    <2>1. Consumed(approvals[t]) \in ApprovalRow
      BY <1>1 DEF Consumed, ApprovalRow
    <2>2. Consumed(approvals[t]).expires = approvals[t].expires
      BY <1>1 DEF Consumed, ApprovalRow
    <2>3. approvals'[t] \in {approvals[t], Consumed(approvals[t])}
      BY <1>1, <1>4 DEF Commit, GateInv, TypeOK
    <2> QED BY <2>1, <2>2, <2>3, ActionGateAssumption
  <1>5. ASSUME NEW u \in Tokens, Issue(u)
        PROVE  approvals'[t] = approvals[t]
    BY <1>1, <1>5
    DEF Issue, RequestApproval, Fresh, RecordApproval, LoseApproval, GateInv, TypeOK
  <1>6. CASE \E q \in Requests :
                \/ Lookup(q) \/ Recheck(q) \/ LockApproval(q) \/ InsertKey(q) \/ CreateTicket(q)
                \/ ToolReturns(q) \/ ToolRaises(q) \/ Complete(q) \/ Fail(q)
                \/ RecordCompleted(q) \/ RecordFailed(q) \/ RecordRaises(q) \/ Abort(q)
    BY <1>3, <1>6
    DEF Lookup, Recheck, LockApproval, InsertKey, CreateTicket, ToolReturns, ToolRaises, Complete,
        Fail, RecordCompleted, RecordFailed, RecordRaises, Abort, database
  <1>7. CASE (\E q \in Requests, b \in RequestBody : Arrive(q, b)) \/ Tick \/ UNCHANGED vars
    BY <1>3, <1>7 DEF Arrive, Tick, vars, database
  <1> QED BY <1>2, <1>3, <1>4, <1>5, <1>6, <1>7 DEF Next, Advance

\* A request that has not passed the locking read, with an approval that is
\* over: it can only end without a ticket.
Late(r) ==
    /\ pc[r] \in {"lookup", "recheck", "lockApproval"} \cup Refused \cup {"answered"}
    /\ approvals[body[r].token] # NoRow
    /\ approvals[body[r].token].expires <= clock

LEMMA LateStep ==
  ASSUME GateInv, [Next]_vars, NEW r \in Requests, Late(r)
  PROVE  Late(r)'
  <1>1. body'[r] = body[r]
    BY BodyKept DEF Late, Refused
  <1>2. /\ approvals'[body[r].token] # NoRow
        /\ approvals'[body[r].token].expires <= clock'
    <2>1. pc[r] # "idle" /\ approvals[body[r].token] # NoRow
      BY DEF Late, Refused
    <2>2. approvals[body[r].token].expires \in Nat
      BY <2>1 DEF GateInv, TypeOK, RequestBody, ApprovalRow
    <2> QED BY <2>1, <2>2, ExpiryKept DEF Late
  <1>3. pc'[r] \in {"lookup", "recheck", "lockApproval"} \cup Refused \cup {"answered"}
    <2> USE DEF Late, Refused, GateInv, TypeOK
    <2>1. ASSUME NEW q \in Requests, Advance(q) \/ RecordRaises(q) \/ Abort(q), q # r
          PROVE  pc'[r] = pc[r]
      BY <2>1
      DEF Advance, Lookup, Recheck, LockApproval, InsertKey, Commit, CreateTicket, ToolReturns,
          ToolRaises, Complete, Fail, RecordCompleted, RecordFailed, RecordRaises, Abort, Goto
    <2>2. CASE LockApproval(r)
      <3>1. ~ApprovalMatches(r)
        BY DEF ApprovalMatches, RequestBody, ApprovalRow
      <3> QED BY <2>2, <3>1 DEF LockApproval, Goto
    <2>3. CASE Advance(r)
      BY <2>2, <2>3
      DEF Advance, Lookup, Recheck, InsertKey, Commit, CreateTicket, ToolReturns,
          ToolRaises, Complete, Fail, RecordCompleted, RecordFailed, Goto
    <2>4. CASE RecordRaises(r) \/ Abort(r)
      BY <2>4 DEF RecordRaises, Abort, Goto, InTransaction, Authorized, Finished
    <2>5. ASSUME NEW q \in Requests, NEW b \in RequestBody, Arrive(q, b)
          PROVE  pc'[r] = pc[r]
      BY <2>5 DEF Arrive, Goto
    <2>6. CASE (\E t \in Tokens : Issue(t)) \/ Tick \/ UNCHANGED vars
      BY <2>6 DEF Issue, RequestApproval, RecordApproval, LoseApproval, Tick, vars
    <2> QED BY <2>1, <2>3, <2>4, <2>5, <2>6 DEF Next
  <1> QED BY <1>1, <1>2, <1>3 DEF Late

\* An approval that is over when authorize comes to read it never leads to a
\* tool call, whatever the request has waited for before.
THEOREM ExpiredStayUnused == Spec => ExpiredNeverUsed
  <1>1. ASSUME NEW r \in Requests
        PROVE  Spec => [](Overdue(r) => [](r \notin tickets))
    <2>1. Overdue(r) => Late(r)
      BY DEF Overdue, Late
    <2>2. GateInv /\ Late(r) => r \notin tickets
      BY DEF GateInv, TicketsAuthorized, Late, Authorized, Refused
    <2>3. GateInv /\ [Next]_vars /\ Late(r) => Late(r)'
      BY LateStep
    <2> QED BY <2>1, <2>2, <2>3, GateInvariant, PTL DEF Spec
  <1> QED BY <1>1 DEF ExpiredNeverUsed
=============================================================================
