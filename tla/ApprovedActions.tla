-------------------------- MODULE ApprovedActions --------------------------
(***************************************************************************)
(* What the approval gate promises, without keys, locks, clocks or tables: *)
(* an approval is granted for one principal and one payload, at most one   *)
(* request ever spends it, and only the request that spent it performs an  *)
(* action, at most once, exactly the one that was approved.                *)
(***************************************************************************)
EXTENDS Naturals

CONSTANTS Requests, Tokens, Principals, Arguments, NoGrant

VARIABLES
    grants,     \* what each token approves
    spentBy,    \* the requests that spent each token
    performed   \* the side effects: who did what, on whose behalf

vars == <<grants, spentBy, performed>>

Grant == [principal : Principals, arguments : Arguments]

Effect == [request : Requests, principal : Principals, arguments : Arguments]

\* Grants, spenders and effects keep their types.
TypeOK ==
    /\ grants \in [Tokens -> Grant \cup {NoGrant}]
    /\ spentBy \in [Tokens -> SUBSET Requests]
    /\ performed \subseteq Effect

Init ==
    /\ grants = [t \in Tokens |-> NoGrant]
    /\ spentBy = [t \in Tokens |-> {}]
    /\ performed = {}

Approve(t, g) ==
    /\ grants[t] = NoGrant
    /\ grants' = [grants EXCEPT ![t] = g]
    /\ UNCHANGED <<spentBy, performed>>

Spend(t, r) ==
    /\ grants[t] # NoGrant
    /\ spentBy[t] = {}
    /\ spentBy' = [spentBy EXCEPT ![t] = {r}]
    /\ UNCHANGED <<grants, performed>>

Perform(t, r) ==
    /\ r \in spentBy[t]
    /\ \A e \in performed : e.request # r
    /\ performed' = performed \cup
            {[request |-> r, principal |-> grants[t].principal,
              arguments |-> grants[t].arguments]}
    /\ UNCHANGED <<grants, spentBy>>

Next ==
    \E t \in Tokens :
        \/ \E g \in Grant : Approve(t, g)
        \/ \E r \in Requests : Spend(t, r) \/ Perform(t, r)

Spec == Init /\ [][Next]_vars
=============================================================================
