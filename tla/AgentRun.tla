------------------------------ MODULE AgentRun ------------------------------
(***************************************************************************)
(* POST /v1/agent/run.  A request first passes the controls, which are     *)
(* dependencies of its handler: the rate limit, and then a unit of its     *)
(* tenant's daily budget.  The handler blocks a query that looks like an   *)
(* injection, or runs the graph: retrieve, perhaps ask the status tool,    *)
(* compose, perhaps with the answer model.  Each step is an await, so      *)
(* requests interleave anywhere.                                           *)
(*                                                                         *)
(* Abstractions.  Whether a query matches a guardrail rule, whether it     *)
(* asks for a live status, and whether evidence is found are inputs, drawn *)
(* where the code looks at them.  Texts are left out: an answer is known   *)
(* by where it comes from.                                                 *)
(***************************************************************************)
EXTENDS RedisControls

CONSTANT Requests   \* requests to the route

RateCall(r) == <<"rate", r>>

BudgetCall(r) == <<"budget", r>>

\* get_redis_controls: every request of the route shares the counters.
ASSUME AgentRunAssumption ==
    /\ Calls = {RateCall(r) : r \in Requests} \cup {BudgetCall(r) : r \in Requests}
    /\ \A r \in Requests : ScopeOf[BudgetCall(r)] \in Budgets

VARIABLES
    pc,             \* where each request is
    evidence,       \* what its search found
    status,         \* what the status tool told it
    asked,          \* requests whose prompt was sent to the answer model
    answer,         \* where its answer comes from
    events          \* table audit_events: the event of each request

request == <<pc, evidence, status, asked, answer, events>>

vars == <<controls, request>>

NoEvent == [type |-> "none", cited |-> FALSE, live |-> FALSE]

Event == [type : {"none", "completed", "blocked"}, cited : BOOLEAN, live : BOOLEAN]

\* Past the controls, in the handler.
Handling == {"guard", "blocking", "retrieve", "investigate", "compose", "record"}

\* 200, 400, 429 of the rate limit or of the budget, 503, 500.
Ended == {"answered", "blocked", "limited", "overBudget", "unavailable", "error"}

\* The requests, what they have gathered, and their audit events keep their
\* types, and so do the controls.
TypeOK ==
    /\ ControlsTypeOK
    /\ pc \in [Requests -> {"idle", "rate", "budget"} \cup Handling \cup Ended]
    /\ evidence \in [Requests -> {"unread", "empty", "found"}]
    /\ status \in [Requests -> {"unasked", "known"}]
    /\ asked \subseteq Requests
    /\ answer \in [Requests -> {"none", "abstained", "model", "evidence"}]
    /\ events \in [Requests -> Event]

Init ==
    /\ ControlsInit
    /\ pc = [r \in Requests |-> "idle"]
    /\ evidence = [r \in Requests |-> "unread"]
    /\ status = [r \in Requests |-> "unasked"]
    /\ asked = {}
    /\ answer = [r \in Requests |-> "none"]
    /\ events = [r \in Requests |-> NoEvent]

Goto(r, from, to) ==
    /\ pc[r] = from
    /\ pc' = [pc EXCEPT ![r] = to]

gathered == <<evidence, status, asked, answer, events>>

-----------------------------------------------------------------------------
(* The controls, as the dependencies of the handlers.                      *)

\* The session is open and the first dependency runs.
Arrive(r) ==
    /\ Goto(r, "idle", "rate")
    /\ UNCHANGED <<controls, gathered>>

AskRate(r) ==
    /\ pc[r] = "rate"
    /\ Format(RateCall(r))
    /\ UNCHANGED request

RateAdmits(r) ==
    /\ Goto(r, "rate", "budget")
    /\ Reply(RateCall(r))
    /\ calls'[RateCall(r)].state = "admitted"
    /\ UNCHANGED gathered

\* Mutant: a refused request waits instead of being told.
RateWaits(r) ==
    /\ Goto(r, "rate", "rate")
    /\ Reply(RateCall(r))
    /\ calls'[RateCall(r)].state = "refused"
    /\ UNCHANGED gathered

RateRefuses(r) ==
    /\ Goto(r, "rate", "limited")
    /\ Reply(RateCall(r))
    /\ calls'[RateCall(r)].state = "refused"
    /\ UNCHANGED gathered

AskBudget(r) ==
    /\ pc[r] = "budget"
    /\ Format(BudgetCall(r))
    /\ UNCHANGED request

BudgetAdmits(r) ==
    /\ Goto(r, "budget", "guard")
    /\ Reply(BudgetCall(r))
    /\ calls'[BudgetCall(r)].state = "admitted"
    /\ UNCHANGED gathered

BudgetRefuses(r) ==
    /\ Goto(r, "budget", "overBudget")
    /\ Reply(BudgetCall(r))
    /\ calls'[BudgetCall(r)].state = "refused"
    /\ UNCHANGED gathered

Raised(c) == LoseReply(c) \/ Unreachable(c)

\* Mutant: bypassing the budget when its store is down.
BudgetFailsOpen(r) ==
    /\ Goto(r, "budget", "guard")
    /\ Raised(BudgetCall(r))
    /\ UNCHANGED gathered

\* Mutant: the rate limit is skipped when its store is down.
RateFailsOpen(r) ==
    /\ Goto(r, "rate", "budget")
    /\ Raised(RateCall(r))
    /\ UNCHANGED gathered

\* The store is down, or its reply is lost: 503.
RateFails(r) ==
    /\ Goto(r, "rate", "unavailable")
    /\ Raised(RateCall(r))
    /\ UNCHANGED gathered

BudgetFails(r) ==
    /\ Goto(r, "budget", "unavailable")
    /\ Raised(BudgetCall(r))
    /\ UNCHANGED gathered

-----------------------------------------------------------------------------
(* The handlers, and the graph.                                            *)

\* detect_prompt_injection, before the graph runs.
Guard(r) ==
    /\ Goto(r, "guard", "blocking") \/ Goto(r, "guard", "retrieve")
    /\ UNCHANGED <<controls, gathered>>

\* record_event: insert and commit.
Record(r, type) ==
    events' = [events EXCEPT ![r] =
        [type |-> type, cited |-> evidence[r] = "found", live |-> status[r] = "known"]]

RecordBlocked(r) ==
    /\ Goto(r, "blocking", "blocked")
    /\ Record(r, "blocked")
    /\ UNCHANGED <<controls, evidence, status, asked, answer>>

\* decide_investigation is part of it: the status tool is always there, so the
\* query alone decides.
Retrieve(r) ==
    /\ Goto(r, "retrieve", "investigate") \/ Goto(r, "retrieve", "compose")
    /\ \E found \in {"empty", "found"} : evidence' = [evidence EXCEPT ![r] = found]
    /\ UNCHANGED <<controls, status, asked, answer, events>>

Investigate(r) ==
    /\ Goto(r, "investigate", "compose")
    /\ status' = [status EXCEPT ![r] = "known"]
    /\ UNCHANGED <<controls, evidence, asked, answer, events>>

Abstain(r) ==
    /\ Goto(r, "compose", "record")
    /\ evidence[r] = "empty"
    /\ answer' = [answer EXCEPT ![r] = "abstained"]
    /\ UNCHANGED <<controls, evidence, status, asked, events>>

\* Mutant: the check for evidence is dropped.
AskAnyway(r, outcome) ==
    /\ Goto(r, "compose", "record")
    /\ asked' = asked \cup {r}
    /\ answer' = [answer EXCEPT ![r] = outcome]
    /\ UNCHANGED <<controls, evidence, status, events>>

\* The model answers, or fails in a way compose expects: then the evidence is
\* the answer and the response is marked degraded.
AskModel(r, outcome) ==
    /\ Goto(r, "compose", "record")
    /\ evidence[r] = "found"
    /\ asked' = asked \cup {r}
    /\ answer' = [answer EXCEPT ![r] = outcome]
    /\ UNCHANGED <<controls, evidence, status, events>>

\* The model raises anything else.
ModelRaises(r) ==
    /\ Goto(r, "compose", "error")
    /\ evidence[r] = "found"
    /\ asked' = asked \cup {r}
    /\ UNCHANGED <<controls, evidence, status, answer, events>>

\* Mutant: the event is written in the background, after the response.
AnswerFirst(r) ==
    /\ Goto(r, "record", "answered")
    /\ UNCHANGED <<controls, gathered>>

RecordAnswer(r) ==
    /\ Goto(r, "record", "answered")
    /\ Record(r, "completed")
    /\ UNCHANGED <<controls, evidence, status, asked, answer>>

\* The insert's commit took effect and raised.
RecordRaises(r) ==
    /\ \/ Goto(r, "record", "error") /\ Record(r, "completed")
       \/ Goto(r, "blocking", "error") /\ Record(r, "blocked")
    /\ UNCHANGED <<controls, evidence, status, asked, answer>>

\* A statement, a search or the status tool raises, or the process dies.
Raise(r) ==
    /\ pc[r] \in {"rate", "budget"} \cup Handling
    /\ pc' = [pc EXCEPT ![r] = "error"]
    /\ UNCHANGED <<controls, gathered>>

-----------------------------------------------------------------------------

\* What a request does when nothing raises outside the controls.
Advance(r) ==
    \/ AskRate(r) \/ RateAdmits(r) \/ RateRefuses(r)
    \/ AskBudget(r) \/ BudgetAdmits(r) \/ BudgetRefuses(r)
    \/ Guard(r)
    \/ RecordBlocked(r)
    \/ Retrieve(r)
    \/ Investigate(r)
    \/ Abstain(r)
    \/ \E outcome \in {"model", "evidence"} : AskModel(r, outcome)
    \/ RecordAnswer(r)

\* A script that was sent before its request ended still runs, or never does.
Orphan(r) ==
    /\ pc[r] = "error"
    /\ LoseReply(RateCall(r)) \/ LoseReply(BudgetCall(r))
    /\ UNCHANGED request

Next ==
    \/ \E r \in Requests :
        \/ Arrive(r) \/ Advance(r) \/ RateFails(r) \/ BudgetFails(r)
        \/ ModelRaises(r) \/ RecordRaises(r) \/ Raise(r) \/ Orphan(r)
    \/ Tick /\ UNCHANGED request

Spec == Init /\ [][Next]_vars

\* The event loop keeps running a request that can run, and every call ends:
\* the model has a timeout, the status tool is a subprocess that replies or
\* exits, Redis and PostgreSQL reply or the connection breaks.
Fairness == \A r \in Requests : WF_vars(Advance(r))

FairSpec == Spec /\ Fairness

-----------------------------------------------------------------------------
(* Safety.                                                                 *)

\* The handler is reached only through the controls: a request that has got to
\* it, even one that failed there, was admitted by the rate limit and by the
\* budget, so nothing is read, asked or recorded when their store is down; and a
\* request that the rate limit refused, or that found its store down, has
\* reserved nothing of the budget.
RunsPaid ==
    \A r \in Requests :
        /\ pc[r] \in Handling \cup {"answered", "blocked"}
                \/ evidence[r] # "unread" \/ r \in asked \/ events[r] # NoEvent =>
            /\ calls[RateCall(r)].state = "admitted"
            /\ calls[BudgetCall(r)].state = "admitted"
        /\ calls[RateCall(r)].state # "admitted" => calls[BudgetCall(r)].state = "idle"

\* The requests of budget k that have read documents, whether a unit was taken
\* for them or not.
Ran(k) ==
    {r \in Requests : /\ evidence[r] # "unread"
                      /\ Key(BudgetCall(r)) = k
                      /\ calls[BudgetCall(r)].taken # "late"}

\* A day sees at most its budget of agent runs, whoever makes them, and however
\* many are blocked, fail or lose replies.
RunsWithinBudget ==
    \A k \in CounterKey : k[1] \in Budgets => Cardinality(Ran(k)) <= LimitOf[k[1]]

\* The model sees only prompts with evidence, of requests the guardrail let
\* through, and text of the model is returned only for these.
PromptsGrounded ==
    /\ \A r \in asked : /\ evidence[r] = "found"
                        /\ events[r].type # "blocked"
                        /\ pc[r] \in {"record", "answered", "error"}
    /\ \A r \in Requests :
        /\ answer[r] \in {"model", "evidence"} <=> r \in asked /\ answer[r] # "none"
        /\ answer[r] = "abstained" => evidence[r] = "empty"

\* The audit log agrees with what was done.  An answer has its event, with the
\* citations and the live status it was given; a blocked request has one and
\* nothing was read or asked for it.
AuditTruthful ==
    \A r \in Requests :
        /\ pc[r] = "answered" => events[r] =
            [type |-> "completed", cited |-> evidence[r] = "found",
             live |-> status[r] = "known"]
        /\ pc[r] = "blocked" => events[r].type = "blocked"
        /\ events[r].type = "blocked" =>
            evidence[r] = "unread" /\ status[r] = "unasked" /\ r \notin asked
        /\ events[r].type = "completed" => answer[r] # "none"

\* The inductive invariant: a request asks for a unit of the budget only once
\* the rate limit has admitted it.
RunInv ==
    /\ TypeOK
    /\ ControlsInv
    /\ RunsPaid
    /\ \A r \in Requests : pc[r] = "budget" => calls[RateCall(r)].state = "admitted"

\* Where a request is tells what it has gathered.
Untouched(r) ==
    /\ evidence[r] = "unread" /\ status[r] = "unasked" /\ r \notin asked
    /\ answer[r] = "none" /\ events[r] = NoEvent

GatheredInOrder(r) ==
    /\ pc[r] \notin {"investigate", "compose", "record", "answered", "blocked", "error"}
            => Untouched(r)
    /\ pc[r] \in {"investigate", "compose"} =>
            r \notin asked /\ answer[r] = "none" /\ events[r] = NoEvent
    /\ pc[r] = "record" => answer[r] # "none" /\ events[r] = NoEvent

\* The inductive invariant of what the handlers gather: PromptsGrounded and
\* AuditTruthful, and the order in which they become true.
GatherInv ==
    /\ \A r \in Requests : GatheredInOrder(r)
    /\ PromptsGrounded
    /\ AuditTruthful

-----------------------------------------------------------------------------
(* Liveness.                                                               *)

\* Every request ends: with an answer, a refusal or an error.
EveryRequestEnds == \A r \in Requests : pc[r] = "rate" ~> pc[r] \in Ended
=============================================================================
