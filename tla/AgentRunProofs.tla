--------------------------- MODULE AgentRunProofs ---------------------------
(* Proofs that hold for every number of requests, and for all limits.        *)
EXTENDS AgentRun, RedisControlsProofs

\* The calls of two requests, and of the two controls, are different calls.
LEMMA OwnCalls ==
  ASSUME NEW r \in Requests
  PROVE  /\ RateCall(r) \in Calls /\ BudgetCall(r) \in Calls
         /\ \A q \in Requests : /\ RateCall(q) # BudgetCall(r)
                                /\ q # r => RateCall(q) # RateCall(r)
                                /\ q # r => BudgetCall(q) # BudgetCall(r)
  BY AgentRunAssumption DEF RateCall, BudgetCall

\* Every step of the route is a step of the controls, or none.
LEMMA StepsAreControls == [Next]_vars => [ControlsNext]_controls
  <1> SUFFICES ASSUME [Next]_vars PROVE [ControlsNext]_controls
    OBVIOUS
  <1> USE OwnCalls DEF ControlsNext
  <1>1. ASSUME NEW r \in Requests, Arrive(r) PROVE UNCHANGED controls
    BY <1>1 DEF Arrive
  <1>2. ASSUME NEW r \in Requests, Advance(r) PROVE [ControlsNext]_controls
    BY <1>2 DEF Advance, AskRate, RateAdmits, RateRefuses, AskBudget, BudgetAdmits,
        BudgetRefuses, Guard, RecordBlocked, Retrieve, Investigate, Abstain,
        AskModel, RecordAnswer
  <1>3. ASSUME NEW r \in Requests, RateFails(r) \/ BudgetFails(r) \/ Orphan(r)
        PROVE  ControlsNext
    BY <1>3 DEF RateFails, BudgetFails, Orphan, Raised
  <1>4. ASSUME NEW r \in Requests, ModelRaises(r) \/ RecordRaises(r) \/ Raise(r)
        PROVE  UNCHANGED controls
    BY <1>4 DEF ModelRaises, RecordRaises, Raise
  <1>5. ASSUME UNCHANGED vars PROVE UNCHANGED controls
    BY <1>5 DEF vars
  <1> QED BY <1>1, <1>2, <1>3, <1>4, <1>5 DEF Next

\* What the controls promise they keep when the route uses them.
THEOREM RouteKeepsControls == Spec => ControlsSpec
  <1>1. Init => ControlsInit
    BY DEF Init
  <1> QED BY <1>1, StepsAreControls, PTL DEF Spec, ControlsSpec

LEMMA InitRun == Init => RunInv
  <1> SUFFICES ASSUME Init PROVE RunInv
    OBVIOUS
  <1>1. ControlsInv
    BY InitControls DEF Init
  <1>2. TypeOK
    BY <1>1 DEF Init, TypeOK, ControlsInv, NoEvent, Event
  <1>3. \A r \in Requests : calls[RateCall(r)].state = "idle"
                            /\ calls[BudgetCall(r)].state = "idle"
    BY OwnCalls DEF Init, ControlsInit
  <1>4. RunsPaid
    BY <1>3 DEF Init, RunsPaid, Handling
  <1> QED BY <1>1, <1>2, <1>4 DEF RunInv, Init

\* A step of the handler of r, which is past the controls, keeps the invariant.
LEMMA HandlerRun ==
  ASSUME RunInv, NEW r \in Requests, UNCHANGED controls,
         pc[r] \in Handling,
         NEW to \in Handling \cup Ended, pc' = [pc EXCEPT ![r] = to],
         TypeOK',
         \A q \in Requests : q # r =>
            /\ evidence'[q] = evidence[q] /\ events'[q] = events[q]
            /\ q \in asked' <=> q \in asked
  PROVE  RunInv'
  <1> USE DEF RunInv
  <1>1. ControlsInv'
    BY StepControls
  <1>2. calls' = calls
    BY DEF controls
  <1>3. RunsPaid'
    BY <1>2 DEF RunsPaid, TypeOK
  <1>4. \A q \in Requests : pc'[q] = "budget" => calls'[RateCall(q)].state = "admitted"
    BY <1>2 DEF TypeOK, Handling, Ended
  <1> QED BY <1>1, <1>3, <1>4

\* A step of r that is not in the handler, and gathers nothing.
LEMMA ControlsRun ==
  ASSUME RunInv, NEW r \in Requests, [ControlsNext]_controls, UNCHANGED gathered,
         NEW to \in {"rate", "budget", "guard", "limited", "overBudget", "unavailable",
                    "error"},
         pc[r] \in {"idle", "rate", "budget", "error"} \/ to = "error",
         pc' = [pc EXCEPT ![r] = to],
         NEW c \in {RateCall(r), BudgetCall(r)},
         \A d \in Calls : d # c => calls'[d] = calls[d],
         calls[c].state = "admitted" => calls'[c].state = "admitted",
         c = BudgetCall(r) /\ calls[c].state = "idle" =>
            calls'[c].state = "idle" \/ calls[RateCall(r)].state = "admitted",
         to = "budget" => calls'[RateCall(r)].state = "admitted",
         to = "guard" => calls'[RateCall(r)].state = "admitted"
                         /\ calls'[BudgetCall(r)].state = "admitted"
  PROVE  RunInv'
  <1> USE DEF RunInv
  <1>1. ControlsInv'
    BY StepControls
  <1>2. TypeOK'
    BY <1>1 DEF TypeOK, ControlsInv, gathered, Handling, Ended
  <1>0. /\ \A d \in Calls : d # c => calls'[d] = calls[d]
        /\ calls[RateCall(r)].state = "admitted" =>
                calls'[RateCall(r)].state = "admitted"
        /\ calls[BudgetCall(r)].state = "admitted" =>
                calls'[BudgetCall(r)].state = "admitted"
        /\ calls[BudgetCall(r)].state = "idle" =>
                \/ calls'[BudgetCall(r)].state = "idle"
                \/ calls'[RateCall(r)].state = "admitted"
    BY OwnCalls DEF TypeOK, ControlsTypeOK
  <1>3. \A q \in Requests : q # r =>
            /\ pc'[q] = pc[q]
            /\ calls'[RateCall(q)] = calls[RateCall(q)]
            /\ calls'[BudgetCall(q)] = calls[BudgetCall(q)]
    BY <1>0, OwnCalls DEF TypeOK
  <1>4. pc'[r] = to
    BY DEF TypeOK
  <1>5. RunsPaid'
    <2> SUFFICES ASSUME NEW q \in Requests
                 PROVE  /\ \/ pc'[q] \in Handling \cup {"answered", "blocked"}
                           \/ evidence[q] # "unread" \/ q \in asked \/ events[q] # NoEvent
                           => /\ calls'[RateCall(q)].state = "admitted"
                              /\ calls'[BudgetCall(q)].state = "admitted"
                        /\ calls'[RateCall(q)].state # "admitted" =>
                              calls'[BudgetCall(q)].state = "idle"
      BY DEF RunsPaid, gathered
    <2>1. CASE q # r
      BY <1>3, <2>1 DEF RunsPaid
    <2>2. CASE q = r
      BY <1>0, <1>4, <2>2 DEF RunsPaid, Handling, Ended
    <2> QED BY <2>1, <2>2
  <1>6. \A q \in Requests : pc'[q] = "budget" => calls'[RateCall(q)].state = "admitted"
    BY <1>3, <1>4
  <1> QED BY <1>1, <1>2, <1>5, <1>6

\* The dependencies of the handler.
LEMMA DependencyRun ==
  ASSUME RunInv, [ControlsNext]_controls, NEW r \in Requests
  PROVE  \/ AskRate(r) \/ RateAdmits(r) \/ RateRefuses(r) \/ RateFails(r)
         \/ AskBudget(r) \/ BudgetAdmits(r) \/ BudgetRefuses(r) \/ BudgetFails(r)
         \/ Orphan(r)
         => RunInv'
  <1>1. /\ pc \in [Requests -> {"idle", "rate", "budget"} \cup Handling \cup Ended]
        /\ ControlsTypeOK
        /\ RateCall(r) \in Calls /\ BudgetCall(r) \in Calls
        /\ pc[r] = "budget" => calls[RateCall(r)].state = "admitted"
        /\ RateCall(r) # BudgetCall(r)
    BY OwnCalls DEF RunInv, TypeOK
  <1>2. ASSUME AskRate(r) PROVE RunInv'
    <2>1. /\ pc[r] = "rate" /\ pc' = [pc EXCEPT ![r] = "rate"]
          /\ UNCHANGED gathered
          /\ calls[RateCall(r)].state = "idle"
      BY <1>1, <1>2 DEF AskRate, Goto, request, gathered, Format
    <2>2. calls'[RateCall(r)].state = "sent"
      BY <1>1, <1>2 DEF AskRate, Format, ControlsTypeOK
    <2>3. \A d \in Calls : d # RateCall(r) => calls'[d] = calls[d]
      BY <1>1, <1>2 DEF AskRate, Format, ControlsTypeOK
    <2> QED BY <1>1, <2>1, <2>2, <2>3, ControlsRun
  <1>3. ASSUME RateAdmits(r) PROVE RunInv'
    <2>1. /\ pc[r] = "rate" /\ pc' = [pc EXCEPT ![r] = "budget"]
          /\ UNCHANGED gathered
          /\ calls[RateCall(r)].state = "sent"
      BY <1>1, <1>3 DEF RateAdmits, Goto, request, gathered, Reply
    <2>2. calls'[RateCall(r)].state = "admitted"
      BY <1>1, <1>3 DEF RateAdmits, Reply, ControlsTypeOK
    <2>3. \A d \in Calls : d # RateCall(r) => calls'[d] = calls[d]
      BY <1>1, <1>3 DEF RateAdmits, Reply, ControlsTypeOK
    <2> QED BY <1>1, <2>1, <2>2, <2>3, ControlsRun
  <1>4. ASSUME RateRefuses(r) PROVE RunInv'
    <2>1. /\ pc[r] = "rate" /\ pc' = [pc EXCEPT ![r] = "limited"]
          /\ UNCHANGED gathered
          /\ calls[RateCall(r)].state = "sent"
      BY <1>1, <1>4 DEF RateRefuses, Goto, request, gathered, Reply
    <2>2. calls'[RateCall(r)].state = "refused"
      BY <1>1, <1>4 DEF RateRefuses, Reply, ControlsTypeOK
    <2>3. \A d \in Calls : d # RateCall(r) => calls'[d] = calls[d]
      BY <1>1, <1>4 DEF RateRefuses, Reply, ControlsTypeOK
    <2> QED BY <1>1, <2>1, <2>2, <2>3, ControlsRun
  <1>5. ASSUME RateFails(r) PROVE RunInv'
    <2>1. /\ pc[r] = "rate" /\ pc' = [pc EXCEPT ![r] = "unavailable"]
          /\ UNCHANGED gathered
          /\ calls[RateCall(r)].state = "sent"
      BY <1>1, <1>5 DEF RateFails, Goto, request, gathered, Raised, LoseReply, Unreachable
    <2>2. calls'[RateCall(r)].state = "unavailable"
      BY <1>1, <1>5 DEF RateFails, Raised, LoseReply, Unreachable, ControlsTypeOK
    <2>3. \A d \in Calls : d # RateCall(r) => calls'[d] = calls[d]
      BY <1>1, <1>5 DEF RateFails, Raised, LoseReply, Unreachable, ControlsTypeOK
    <2> QED BY <1>1, <2>1, <2>2, <2>3, ControlsRun
  <1>6. ASSUME AskBudget(r) PROVE RunInv'
    <2>1. /\ pc[r] = "budget" /\ pc' = [pc EXCEPT ![r] = "budget"]
          /\ UNCHANGED gathered
          /\ calls[BudgetCall(r)].state = "idle"
      BY <1>1, <1>6 DEF AskBudget, Goto, request, gathered, Format
    <2>2. calls'[BudgetCall(r)].state = "sent"
      BY <1>1, <1>6 DEF AskBudget, Format, ControlsTypeOK
    <2>3. \A d \in Calls : d # BudgetCall(r) => calls'[d] = calls[d]
      BY <1>1, <1>6 DEF AskBudget, Format, ControlsTypeOK
    <2> QED BY <1>1, <2>1, <2>2, <2>3, ControlsRun
  <1>7. ASSUME BudgetAdmits(r) PROVE RunInv'
    <2>1. /\ pc[r] = "budget" /\ pc' = [pc EXCEPT ![r] = "guard"]
          /\ UNCHANGED gathered
          /\ calls[BudgetCall(r)].state = "sent"
      BY <1>1, <1>7 DEF BudgetAdmits, Goto, request, gathered, Reply
    <2>2. calls'[BudgetCall(r)].state = "admitted"
      BY <1>1, <1>7 DEF BudgetAdmits, Reply, ControlsTypeOK
    <2>3. \A d \in Calls : d # BudgetCall(r) => calls'[d] = calls[d]
      BY <1>1, <1>7 DEF BudgetAdmits, Reply, ControlsTypeOK
    <2> QED BY <1>1, <2>1, <2>2, <2>3, ControlsRun
  <1>8. ASSUME BudgetRefuses(r) PROVE RunInv'
    <2>1. /\ pc[r] = "budget" /\ pc' = [pc EXCEPT ![r] = "overBudget"]
          /\ UNCHANGED gathered
          /\ calls[BudgetCall(r)].state = "sent"
      BY <1>1, <1>8 DEF BudgetRefuses, Goto, request, gathered, Reply
    <2>2. calls'[BudgetCall(r)].state = "refused"
      BY <1>1, <1>8 DEF BudgetRefuses, Reply, ControlsTypeOK
    <2>3. \A d \in Calls : d # BudgetCall(r) => calls'[d] = calls[d]
      BY <1>1, <1>8 DEF BudgetRefuses, Reply, ControlsTypeOK
    <2> QED BY <1>1, <2>1, <2>2, <2>3, ControlsRun
  <1>9. ASSUME BudgetFails(r) PROVE RunInv'
    <2>1. /\ pc[r] = "budget" /\ pc' = [pc EXCEPT ![r] = "unavailable"]
          /\ UNCHANGED gathered
          /\ calls[BudgetCall(r)].state = "sent"
      BY <1>1, <1>9 DEF BudgetFails, Goto, request, gathered, Raised, LoseReply, Unreachable
    <2>2. calls'[BudgetCall(r)].state = "unavailable"
      BY <1>1, <1>9 DEF BudgetFails, Raised, LoseReply, Unreachable, ControlsTypeOK
    <2>3. \A d \in Calls : d # BudgetCall(r) => calls'[d] = calls[d]
      BY <1>1, <1>9 DEF BudgetFails, Raised, LoseReply, Unreachable, ControlsTypeOK
    <2> QED BY <1>1, <2>1, <2>2, <2>3, ControlsRun
  <1>10. ASSUME Orphan(r) PROVE RunInv'
    <2>1. PICK c \in {RateCall(r), BudgetCall(r)} : LoseReply(c)
      BY <1>10 DEF Orphan
    <2>2. /\ pc[r] = "error" /\ pc' = [pc EXCEPT ![r] = "error"]
          /\ UNCHANGED gathered
      BY <1>1, <1>10 DEF Orphan, request, gathered
    <2>3. calls[c].state = "sent" /\ calls'[c].state = "unavailable"
      BY <1>1, <2>1 DEF LoseReply, ControlsTypeOK
    <2>4. \A d \in Calls : d # c => calls'[d] = calls[d]
      BY <1>1, <2>1 DEF LoseReply, ControlsTypeOK
    <2> QED BY <1>1, <2>2, <2>3, <2>4, ControlsRun
  <1> QED BY <1>2, <1>3, <1>4, <1>5, <1>6, <1>7, <1>8, <1>9, <1>10

LEMMA StepRun == RunInv /\ [Next]_vars => RunInv'
  <1> SUFFICES ASSUME RunInv, [Next]_vars PROVE RunInv'
    OBVIOUS
  <1>0. [ControlsNext]_controls
    BY StepsAreControls
  <1>c. ControlsTypeOK'
    BY <1>0, StepControls DEF RunInv, ControlsInv
  <1>1. ASSUME NEW r \in Requests, Arrive(r) PROVE RunInv'
    <2>1. pc[r] = "idle" /\ pc' = [pc EXCEPT ![r] = "rate"] /\ calls' = calls
          /\ UNCHANGED gathered
      BY <1>1 DEF Arrive, Goto, controls
    <2> QED BY <1>0, <2>1, ControlsRun, OwnCalls
  <1>2. ASSUME NEW r \in Requests,
               Guard(r) \/ RecordBlocked(r) \/ Retrieve(r) \/ Investigate(r)
        PROVE  RunInv'
    <2>1. UNCHANGED controls /\ pc[r] \in Handling
      BY <1>2 DEF Guard, RecordBlocked, Retrieve, Investigate, Goto, Handling
    <2>2. PICK to \in Handling \cup Ended : pc' = [pc EXCEPT ![r] = to]
      BY <1>2 DEF Guard, RecordBlocked, Retrieve, Investigate, Goto, Handling, Ended
    <2>3. TypeOK'
      <3>1. pc' \in [Requests -> {"idle", "rate", "budget"} \cup Handling \cup Ended]
        BY <2>2 DEF RunInv, TypeOK
      <3>2. CASE Guard(r)
        BY <1>c, <3>1, <3>2 DEF Guard, gathered, RunInv, TypeOK
      <3>3. CASE RecordBlocked(r)
        BY <1>c, <3>1, <3>3 DEF RecordBlocked, Record, Event, RunInv, TypeOK
      <3>4. CASE Retrieve(r)
        BY <1>c, <3>1, <3>4 DEF Retrieve, RunInv, TypeOK
      <3>5. CASE Investigate(r)
        BY <1>c, <3>1, <3>5 DEF Investigate, RunInv, TypeOK
      <3> QED BY <1>2, <3>2, <3>3, <3>4, <3>5
    <2>4. \A q \in Requests : q # r =>
            /\ evidence'[q] = evidence[q] /\ events'[q] = events[q]
            /\ q \in asked' <=> q \in asked
      BY <1>2 DEF Guard, RecordBlocked, Retrieve, Investigate, gathered, Record,
          RunInv, TypeOK
    <2> QED BY <2>1, <2>2, <2>3, <2>4, HandlerRun
  <1>3. ASSUME NEW r \in Requests,
               \/ Abstain(r) \/ ModelRaises(r) \/ RecordAnswer(r) \/ RecordRaises(r)
               \/ \E outcome \in {"model", "evidence"} : AskModel(r, outcome)
        PROVE  RunInv'
    <2>1. UNCHANGED controls /\ pc[r] \in Handling
      BY <1>3 DEF Abstain, AskModel, ModelRaises, RecordAnswer, RecordRaises, Goto,
          Handling
    <2>2. PICK to \in Handling \cup Ended : pc' = [pc EXCEPT ![r] = to]
      BY <1>3 DEF Abstain, AskModel, ModelRaises, RecordAnswer, RecordRaises, Goto,
          Handling, Ended
    <2>3. TypeOK'
      <3>1. pc' \in [Requests -> {"idle", "rate", "budget"} \cup Handling \cup Ended]
        BY <2>2 DEF RunInv, TypeOK
      <3>2. CASE Abstain(r)
        BY <1>c, <3>1, <3>2 DEF Abstain, RunInv, TypeOK
      <3>3. CASE ModelRaises(r)
        BY <1>c, <3>1, <3>3 DEF ModelRaises, RunInv, TypeOK
      <3>4. CASE RecordAnswer(r)
        BY <1>c, <3>1, <3>4 DEF RecordAnswer, Record, Event, RunInv, TypeOK
      <3>5. CASE RecordRaises(r)
        <4>1. events' \in [Requests -> Event]
          <5>1. PICK type \in {"completed", "blocked"} : Record(r, type)
            BY <3>5 DEF RecordRaises
          <5> QED BY <5>1 DEF Record, Event, RunInv, TypeOK
        <4>2. UNCHANGED <<evidence, status, asked, answer>>
          BY <3>5 DEF RecordRaises
        <4> QED BY <1>c, <3>1, <4>1, <4>2 DEF RunInv, TypeOK
      <3>6. CASE \E outcome \in {"model", "evidence"} : AskModel(r, outcome)
        BY <1>c, <3>1, <3>6 DEF AskModel, RunInv, TypeOK
      <3> QED BY <1>3, <3>2, <3>3, <3>4, <3>5, <3>6
    <2>4. \A q \in Requests : q # r =>
            /\ evidence'[q] = evidence[q] /\ events'[q] = events[q]
            /\ q \in asked' <=> q \in asked
      BY <1>3 DEF Abstain, AskModel, ModelRaises, RecordAnswer, RecordRaises, Record,
          RunInv, TypeOK
    <2> QED BY <2>1, <2>2, <2>3, <2>4, HandlerRun
  <1>4. ASSUME NEW r \in Requests, Raise(r) PROVE RunInv'
    <2>1. pc' = [pc EXCEPT ![r] = "error"] /\ calls' = calls /\ UNCHANGED gathered
      BY <1>4 DEF Raise, controls
    <2> QED BY <1>0, <2>1, ControlsRun, OwnCalls
  <1>5. ASSUME UNCHANGED <<calls, request>> PROVE RunInv'
    <2>1. ControlsInv'
      BY <1>0, StepControls DEF RunInv
    <2>2. TypeOK'
      BY <1>5, <2>1 DEF RunInv, TypeOK, ControlsInv, request
    <2> QED BY <1>5, <2>1, <2>2 DEF RunInv, RunsPaid, request
  <1> QED BY <1>0, <1>1, <1>2, <1>3, <1>4, <1>5, DependencyRun
      DEF Next, Advance, Tick, vars, controls

\* The inductive invariant of the route and the controls together.
THEOREM RunInvariant == Spec => []RunInv
  BY InitRun, StepRun, PTL DEF Spec

\* Requests, gathered results, events, calls and counters keep their types.
THEOREM TypeCorrect == Spec => []TypeOK
  <1>1. RunInv => TypeOK
    BY DEF RunInv
  <1> QED BY <1>1, RunInvariant, PTL

\* Nothing is read, asked or recorded for a request that is not paid for, and the
\* rate limit comes before the budget.
THEOREM EveryRunPaid == Spec => []RunsPaid
  <1>1. RunInv => RunsPaid
    BY DEF RunInv
  <1> QED BY <1>1, RunInvariant, PTL

\* The limits hold for the route's calls.
THEOREM RouteWithinLimits == Spec => [](WithinLimit /\ RefusedWhenSpent)
  BY LimitsExact, RouteKeepsControls, PTL

LEMMA RanWithin == RunInv => RunsWithinBudget
  <1> SUFFICES ASSUME RunInv, NEW k \in CounterKey
               PROVE  Cardinality(Ran(k)) <= LimitOf[k[1]]
    BY DEF RunsWithinBudget
  <1> DEFINE call == [r \in Ran(k) |-> BudgetCall(r)]
  <1>1. \A r \in Ran(k) : r \in Requests /\ BudgetCall(r) \in Timely(k)
    BY OwnCalls DEF RunInv, RunsPaid, TypeOK, ControlsTypeOK, Ran, Timely
  <1>2. call \in Injection(Ran(k), Timely(k))
    <2>1. call \in [Ran(k) -> Timely(k)]
      BY <1>1
    <2>2. \A q, r \in Ran(k) : call[q] = call[r] => q = r
      BY <1>1, OwnCalls
    <2> QED BY <2>1, <2>2 DEF Injection, IsInjective
  <1>3. Cardinality(Ran(k)) <= Cardinality(Timely(k)) /\ IsFiniteSet(Ran(k))
    BY <1>2, CountType, FS_Injection
  <1>4. Cardinality(Timely(k)) <= LimitOf[k[1]]
    BY DEF RunInv, ControlsInv, WithinLimit
  <1>5. Cardinality(Ran(k)) \in Nat
    BY <1>3, FS_CardinalityType
  <1> QED BY <1>3, <1>4, <1>5, CountType, KeyType

\* The agent runs at most as often a day as the budget of its tenant says, for
\* any number of concurrent requests.
THEOREM BudgetBoundsRuns == Spec => []RunsWithinBudget
  BY RanWithin, RunInvariant, PTL

\* What the invariant of the handlers says of one request.
Gathered(r) ==
    /\ GatheredInOrder(r)
    /\ r \in asked => /\ evidence[r] = "found"
                      /\ events[r].type # "blocked"
                      /\ pc[r] \in {"record", "answered", "error"}
    /\ answer[r] \in {"model", "evidence"} <=> r \in asked /\ answer[r] # "none"
    /\ answer[r] = "abstained" => evidence[r] = "empty"
    /\ pc[r] = "answered" => events[r] =
            [type |-> "completed", cited |-> evidence[r] = "found",
             live |-> status[r] = "known"]
    /\ pc[r] = "blocked" => events[r].type = "blocked"
    /\ events[r].type = "blocked" =>
            evidence[r] = "unread" /\ status[r] = "unasked" /\ r \notin asked
    /\ events[r].type = "completed" => answer[r] # "none"

LEMMA GatheredAll ==
  /\ TypeOK /\ GatherInv => \A r \in Requests : Gathered(r)
  /\ TypeOK' /\ (\A r \in Requests : Gathered(r)') => GatherInv'
  BY DEF GatherInv, PromptsGrounded, AuditTruthful, Gathered, TypeOK

\* A step that gathers nothing, and moves the request between places where
\* nothing is gathered yet, or to an error.
LEMMA MovesOn ==
  ASSUME NEW r, Gathered(r),
         evidence'[r] = evidence[r], status'[r] = status[r], answer'[r] = answer[r],
         events'[r] = events[r], r \in asked' <=> r \in asked,
         \/ pc'[r] = pc[r] \/ pc'[r] = "error"
         \/ /\ pc[r] \in {"idle", "rate", "budget", "guard"}
            /\ pc'[r] \in {"rate", "budget", "guard", "blocking", "retrieve",
                            "limited", "overBudget", "unavailable"}
  PROVE  Gathered(r)'
  BY DEF Gathered, GatheredInOrder, Untouched, NoEvent

\* The steps of the controls, of the guardrail, and of exceptions.
LEMMA OutsideGather ==
  ASSUME TypeOK, NEW r \in Requests, NEW q \in Requests, Gathered(q), UNCHANGED gathered,
         NEW to, pc' = pc \/ pc' = [pc EXCEPT ![r] = to],
         \/ to = "error"
         \/ /\ pc[r] \in {"idle", "rate", "budget", "guard"}
            /\ to \in {"rate", "budget", "guard", "blocking", "retrieve",
                       "limited", "overBudget", "unavailable"}
  PROVE  Gathered(q)'
  <1>1. pc'[q] = pc[q] \/ (q = r /\ pc'[q] = to)
    BY DEF TypeOK
  <1>2. /\ evidence'[q] = evidence[q] /\ status'[q] = status[q]
        /\ answer'[q] = answer[q] /\ events'[q] = events[q]
        /\ q \in asked' <=> q \in asked
    BY DEF gathered
  <1>3. \/ pc'[q] = pc[q] \/ pc'[q] = "error"
        \/ /\ pc[q] \in {"idle", "rate", "budget", "guard"}
           /\ pc'[q] \in {"rate", "budget", "guard", "blocking", "retrieve",
                           "limited", "overBudget", "unavailable"}
    BY <1>1
  <1> QED BY <1>2, <1>3, MovesOn

\* The steps that gather.
LEMMA HandlerGather ==
  ASSUME TypeOK, NEW r \in Requests, NEW q \in Requests, Gathered(q),
         \/ RecordBlocked(r) \/ Retrieve(r) \/ Investigate(r) \/ Abstain(r)
         \/ (\E outcome \in {"model", "evidence"} : AskModel(r, outcome))
         \/ ModelRaises(r) \/ RecordAnswer(r) \/ RecordRaises(r)
  PROVE  Gathered(q)'
  <1>1. CASE q # r
    <2>1. /\ pc'[q] = pc[q] /\ evidence'[q] = evidence[q] /\ status'[q] = status[q]
          /\ answer'[q] = answer[q] /\ events'[q] = events[q]
          /\ q \in asked' <=> q \in asked
      BY <1>1 DEF RecordBlocked, Retrieve, Investigate, Abstain, AskModel, ModelRaises,
          RecordAnswer, RecordRaises, Record, Goto, TypeOK
    <2> QED BY <2>1, MovesOn
  <1>2. CASE q = r
    <2> USE <1>2 DEF Gathered, GatheredInOrder, Untouched, NoEvent, Goto, TypeOK
    <2>1. CASE RecordBlocked(r)
      BY <2>1 DEF RecordBlocked, Record
    <2>2. CASE Retrieve(r)
      BY <2>2 DEF Retrieve
    <2>3. CASE Investigate(r)
      BY <2>3 DEF Investigate
    <2>4. CASE Abstain(r)
      BY <2>4 DEF Abstain
    <2>5. CASE ModelRaises(r)
      BY <2>5 DEF ModelRaises
    <2>6. CASE RecordAnswer(r)
      BY <2>6 DEF RecordAnswer, Record
    <2>7. CASE RecordRaises(r)
      BY <2>7 DEF RecordRaises, Record
    <2>8. CASE \E outcome \in {"model", "evidence"} : AskModel(r, outcome)
      BY <2>8 DEF AskModel
    <2> QED BY <2>1, <2>2, <2>3, <2>4, <2>5, <2>6, <2>7, <2>8
  <1> QED BY <1>1, <1>2

LEMMA StepGather == RunInv /\ RunInv' /\ GatherInv /\ [Next]_vars => GatherInv'
  <1> SUFFICES ASSUME RunInv, RunInv', GatherInv, [Next]_vars,
                      NEW q \in Requests
               PROVE  Gathered(q)'
    BY GatheredAll DEF RunInv
  <1>0. TypeOK /\ Gathered(q)
    BY GatheredAll DEF RunInv
  <1>1. ASSUME NEW r \in Requests,
               \/ Arrive(r) \/ RateAdmits(r) \/ RateRefuses(r) \/ RateFails(r)
               \/ BudgetAdmits(r) \/ BudgetRefuses(r) \/ BudgetFails(r) \/ Guard(r)
        PROVE  Gathered(q)'
    <2>1. PICK to \in {"rate", "budget", "guard", "blocking", "retrieve",
                       "limited", "overBudget", "unavailable"} :
                pc' = [pc EXCEPT ![r] = to]
      BY <1>1 DEF Arrive, RateAdmits, RateRefuses, RateFails, BudgetAdmits,
          BudgetRefuses, BudgetFails, Guard, Goto
    <2>2. UNCHANGED gathered /\ pc[r] \in {"idle", "rate", "budget", "guard"}
      BY <1>1 DEF Arrive, RateAdmits, RateRefuses, RateFails, BudgetAdmits,
          BudgetRefuses, BudgetFails, Guard, Goto
    <2> QED BY <1>0, <2>1, <2>2, OutsideGather
  <1>2. ASSUME NEW r \in Requests, Raise(r) PROVE Gathered(q)'
    <2>1. UNCHANGED gathered /\ pc' = [pc EXCEPT ![r] = "error"]
      BY <1>2 DEF Raise
    <2> QED BY <1>0, <2>1, OutsideGather
  <1>3. ASSUME UNCHANGED request PROVE Gathered(q)'
    <2>1. /\ pc'[q] = pc[q] /\ evidence'[q] = evidence[q] /\ status'[q] = status[q]
          /\ answer'[q] = answer[q] /\ events'[q] = events[q]
          /\ q \in asked' <=> q \in asked
      BY <1>3 DEF request
    <2> QED BY <1>0, <2>1, MovesOn
  <1>4. ASSUME NEW r \in Requests,
               \/ RecordBlocked(r) \/ Retrieve(r) \/ Investigate(r) \/ Abstain(r)
               \/ (\E outcome \in {"model", "evidence"} : AskModel(r, outcome))
               \/ ModelRaises(r) \/ RecordAnswer(r) \/ RecordRaises(r)
        PROVE  Gathered(q)'
    BY <1>0, <1>4, HandlerGather
  <1>5. ASSUME NEW r \in Requests, AskRate(r) \/ AskBudget(r) \/ Orphan(r)
        PROVE  UNCHANGED request
    BY <1>5 DEF AskRate, AskBudget, Orphan
  <1> QED BY <1>1, <1>2, <1>3, <1>4, <1>5 DEF Next, Advance, vars

\* What each request has gathered agrees with where it is.
THEOREM GatherInvariant == Spec => []GatherInv
  <1>1. Init => GatherInv
    BY DEF Init, GatherInv, GatheredInOrder, Untouched, PromptsGrounded, AuditTruthful,
        NoEvent
  <1> QED BY <1>1, StepGather, RunInvariant, PTL DEF Spec

\* The model sees only evidence, of requests that were let through.
THEOREM PromptsAreGrounded == Spec => []PromptsGrounded
  <1>1. GatherInv => PromptsGrounded
    BY DEF GatherInv
  <1> QED BY <1>1, GatherInvariant, PTL

\* The audit log of the agent agrees with what was done for each request.
THEOREM EventsAreTrue == Spec => []AuditTruthful
  <1>1. GatherInv => AuditTruthful
    BY DEF GatherInv
  <1> QED BY <1>1, GatherInvariant, PTL
=============================================================================
