---------------------------- MODULE MCActionGate ----------------------------
(* Small instances of the approval gate for TLC. *)
EXTENDS ActionGate, TLC

CONSTANTS r1, r2, r3, t1, t2, k1, a1, a2, ana, bob

\* One tenant with two subjects.
OneTenant == [p \in Principals |-> "acme"]

Interchangeable ==
    Permutations(Requests) \cup Permutations(Tokens) \cup Permutations(Arguments)
=============================================================================
