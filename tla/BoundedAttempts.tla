-------------------------- MODULE BoundedAttempts --------------------------
(***************************************************************************)
(* What the ingestion pipeline promises about processing a job: attempts   *)
(* at one job never overlap, there are at most MaxAttempts of them, and a  *)
(* job's document is stored only by an attempt at that job.                *)
(***************************************************************************)
EXTENDS Naturals

CONSTANTS Jobs, MaxAttempts

VARIABLES
    tries,      \* attempts begun
    active,     \* jobs being attempted
    stored      \* jobs whose document has been committed

vars == <<tries, active, stored>>

\* Attempts are counted within their limit.
TypeOK ==
    /\ tries \in [Jobs -> 0 .. MaxAttempts]
    /\ active \subseteq Jobs
    /\ stored \subseteq Jobs

Init ==
    /\ tries = [j \in Jobs |-> 0]
    /\ active = {}
    /\ stored = {}

Begin(j) ==
    /\ j \notin active
    /\ tries[j] < MaxAttempts
    /\ tries' = [tries EXCEPT ![j] = @ + 1]
    /\ active' = active \cup {j}
    /\ UNCHANGED stored

Store(j) ==
    /\ j \in active
    /\ stored' = stored \cup {j}
    /\ UNCHANGED <<tries, active>>

End(j) ==
    /\ j \in active
    /\ active' = active \ {j}
    /\ UNCHANGED <<tries, stored>>

Next == \E j \in Jobs : Begin(j) \/ Store(j) \/ End(j)

Spec == Init /\ [][Next]_vars
=============================================================================
