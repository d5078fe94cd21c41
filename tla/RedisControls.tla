---------------------------- MODULE RedisControls ----------------------------
(***************************************************************************)
(* Rate limits and the daily budget.  A call of RedisControls reads the    *)
(* clock and makes the counter's name from it, and then sends a Lua script *)
(* that Redis runs atomically: it increments the counter, lets a new one   *)
(* expire, and compares it with the limit.  Any number of calls, from any  *)
(* replica, do this at the same time, and time passes between the two      *)
(* steps.  The budget's script gives back what it may not take.            *)
(*                                                                         *)
(* Abstractions.  API replicas and Redis share one clock, which moves from *)
(* one moment at which something happens to the next.  A call takes one    *)
(* unit, as every caller does.                                             *)
(***************************************************************************)
EXTENDS Naturals, FiniteSets

CONSTANTS
    Calls,          \* calls of enforce_rate_limit and reserve_agent_budget
    Scopes,         \* what is limited: a tenant, subject and route, or a tenant
    ScopeOf,        \* the scope of each call
    Budgets,        \* the scopes with the script of reserve_agent_budget
    LimitOf,        \* requests_per_minute or agent_budget_per_day
    PeriodOf,       \* the expiry of a counter: 60 or 86400 seconds
    Second,         \* the clock's units in a second: 1000 in Redis
    Times,          \* the moments at which something may happen
    WindowEnd       \* when the UTC minute or day of a moment ends

\* EXPIRE takes whole seconds.
Life(s) == Second * PeriodOf[s]

\* A minute lasts 60 seconds and a UTC day 86400: the expiry of a counter is
\* never shorter than what is left of its window.
ASSUME ControlsAssumption ==
    /\ IsFiniteSet(Calls)
    /\ ScopeOf \in [Calls -> Scopes]
    /\ Budgets \subseteq Scopes
    /\ LimitOf \in [Scopes -> Nat]
    /\ PeriodOf \in [Scopes -> Nat \ {0}]
    /\ Second \in Nat \ {0}
    /\ Times \subseteq Nat
    /\ 0 \in Times
    /\ WindowEnd \in [Scopes -> [Times -> Nat]]
    /\ \A s \in Scopes, t \in Times : WindowEnd[s][t] \in t + 1 .. t + Life(s)

\* The name of a counter: its scope and the window it counts.
CounterKey == UNION {{<<s, WindowEnd[s][t]>> : t \in Times} : s \in Scopes}

Counter == [value : Nat, expires : Nat]

VARIABLES
    now,            \* the clock
    calls,          \* each call: its state, its window, and the unit it took
    counters        \* Redis; expires = 0 for a counter that never was

controls == <<now, calls, counters>>

CallState == {"idle", "sent", "admitted", "refused", "unavailable"}

\* The controls keep their types.  A call took no unit within the limit, one
\* before the end of its window, or one after it ("late").
ControlsTypeOK ==
    /\ now \in Times
    /\ calls \in [Calls -> [state : CallState, window : Nat,
                            taken : {"none", "timely", "late"}]]
    /\ counters \in [CounterKey -> Counter]
    /\ \A c \in Calls :
        /\ calls[c].state # "idle" => <<ScopeOf[c], calls[c].window>> \in CounterKey
        /\ calls[c].state \in {"idle", "sent", "refused"} => calls[c].taken = "none"
        /\ calls[c].state = "admitted" => calls[c].taken # "none"

ControlsInit ==
    /\ now = 0
    /\ calls = [c \in Calls |-> [state |-> "idle", window |-> 0, taken |-> "none"]]
    /\ counters = [k \in CounterKey |-> [value |-> 0, expires |-> 0]]

Key(c) == <<ScopeOf[c], calls[c].window>>

-----------------------------------------------------------------------------

\* datetime.now, and the key made from it.
Format(c) ==
    /\ calls[c].state = "idle"
    /\ calls' = [calls EXCEPT ![c] =
            [@ EXCEPT !.state = "sent", !.window = WindowEnd[ScopeOf[c]][now]]]
    /\ UNCHANGED <<now, counters>>

Alive(k) == counters[k].expires > now

\* INCRBY: a counter that is gone starts again.
Current(k) == IF Alive(k) THEN counters[k].value + 1 ELSE 1

\* Mutant: count >= limit is refused.
AdmitsOneLess(k) == Current(k) < LimitOf[k[1]]

Admits(k) == Current(k) <= LimitOf[k[1]]

\* What the script leaves: only a refused budget is given back.
Left(k) == IF k[1] \in Budgets /\ ~Admits(k) THEN Current(k) - 1 ELSE Current(k)

\* Mutant: a counter expires too early.
ExpiryTooEarly(k) ==
    IF Current(k) = 1 THEN now + Life(k[1]) - 1 ELSE counters[k].expires

\* EXPIRE, when the count is the first one.
Expiry(k) == IF Current(k) = 1 THEN now + Life(k[1]) ELSE counters[k].expires

Script(k) ==
    counters' = [counters EXCEPT ![k] = [value |-> Left(k), expires |-> Expiry(k)]]

Unit(c) ==
    IF ~Admits(Key(c)) THEN "none"
    ELSE IF now < calls[c].window THEN "timely" ELSE "late"

\* The script runs and its reply arrives.
Reply(c) ==
    /\ calls[c].state = "sent"
    /\ Script(Key(c))
    /\ calls' = [calls EXCEPT ![c] =
            [@ EXCEPT !.state = IF Admits(Key(c)) THEN "admitted" ELSE "refused",
                      !.taken = Unit(c)]]
    /\ UNCHANGED now

\* The script runs, its reply is lost, and eval raises.
LoseReply(c) ==
    /\ calls[c].state = "sent"
    /\ Script(Key(c))
    /\ calls' = [calls EXCEPT ![c] =
            [@ EXCEPT !.state = "unavailable", !.taken = Unit(c)]]
    /\ UNCHANGED now

\* Redis is not reached, and eval raises.
Unreachable(c) ==
    /\ calls[c].state = "sent"
    /\ calls' = [calls EXCEPT ![c].state = "unavailable"]
    /\ UNCHANGED <<now, counters>>

Tick ==
    /\ \E later \in Times : later > now /\ now' = later
    /\ UNCHANGED <<calls, counters>>

ControlsNext ==
    \/ \E c \in Calls : Format(c) \/ Reply(c) \/ LoseReply(c) \/ Unreachable(c)
    \/ Tick

ControlsSpec == ControlsInit /\ [][ControlsNext]_controls

\* Redis tells the remaining life of a counter in seconds, to the nearest one.
TTL(k) == (counters[k].expires - now + Second \div 2) \div Second

\* Mutant: the first item of the script's reply is taken for the second.
RetryAfterCount(k) == counters[k].value

\* The retry_after of a refusal, in seconds: at least 1.
RetryAfter(k) == IF TTL(k) > 1 THEN TTL(k) ELSE 1

-----------------------------------------------------------------------------

Timely(k) == {c \in Calls : Key(c) = k /\ calls[c].taken = "timely"}

Taken(k) == {c \in Calls : Key(c) = k /\ calls[c].taken # "none"}

\* In one minute, or one day, no more calls than the limit get through, however
\* they interleave and whichever replies are lost.  A call that reaches Redis
\* after its window has ended is not counted: its counter may be gone.
WithinLimit == \A k \in CounterKey : Cardinality(Timely(k)) <= LimitOf[k[1]]

\* A caller is refused only when the whole limit of its window is used up, by
\* calls that got through or whose replies were lost: refused calls, which the
\* rate script counts too, do not shut out others.
RefusedWhenSpent ==
    \A c \in Calls : calls[c].state = "refused" =>
        LimitOf[ScopeOf[c]] <= Cardinality(Taken(Key(c)))

\* A refused caller who waits as long as Retry-After says comes back in a later
\* window, or less than half a second before its end: the life of the counter
\* outlasts the window it counts, but TTL rounds it, and may round it down.
RetryHelps ==
    [][\A c \in Calls : calls[c].state = "sent" /\ calls'[c].state = "refused" =>
            2 * calls[c].window < 2 * (now + Second * RetryAfter(Key(c))') + Second]_controls

-----------------------------------------------------------------------------
(* The inductive invariant.                                                *)

\* No call counts in a window that is further away than its counter will live.
WindowsNear == \A c \in Calls : calls[c].window <= now + Life(ScopeOf[c])

\* Until its window ends a counter lives, and has counted every unit taken.
CountersCount ==
    \A k \in CounterKey : now < k[2] =>
        \/ counters[k].expires = 0 /\ Timely(k) = {}
        \/ counters[k].expires >= k[2] /\ Cardinality(Timely(k)) <= counters[k].value

\* A counter below its limit counts only units that were taken, a counter above
\* it has let through as many as the limit.
CountersEarned ==
    \A k \in CounterKey : Alive(k) =>
        \/ counters[k].value <= Cardinality(Taken(k))
        \/ LimitOf[k[1]] <= Cardinality(Taken(k))

\* The budget's counter is never above its limit.
BudgetsGivenBack ==
    \A k \in CounterKey : k[1] \in Budgets => counters[k].value <= LimitOf[k[1]]

\* What a counter has counted, against the calls that took a unit: the limits
\* follow from it.
ControlsInv ==
    /\ ControlsTypeOK
    /\ WindowsNear
    /\ CountersCount
    /\ CountersEarned
    /\ BudgetsGivenBack
    /\ WithinLimit
    /\ RefusedWhenSpent
=============================================================================
