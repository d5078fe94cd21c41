----------------------------- MODULE MCAgentRun -----------------------------
(* Small instances of the controls and the agent's route for TLC.          *)
EXTENDS AgentRun

CONSTANTS a1, a2

AllCalls == {RateCall(r) : r \in Requests} \cup {BudgetCall(r) : r \in Requests}

\* One subject makes all requests.
ScopesOfOne == [c \in AllCalls |-> IF c[1] = "budget" THEN "tenant" ELSE "subject"]

\* A minute of two seconds and a day of four, in thirds of a second: TTL rounds
\* up as well as down.
Period == [s \in Scopes |-> IF s \in Budgets THEN 4 ELSE 2]

\* In the first minute, at its end, which is midnight, and a minute later.
Moments == {0, 2, 5, 6, 12}

Midnight ==
    [s \in Scopes |-> [t \in Moments |->
        IF s \notin Budgets THEN 6 * (t \div 6 + 1)
        ELSE IF t < 6 THEN 6 ELSE 18]]

OneEach == [s \in Scopes |-> 1]
=============================================================================
