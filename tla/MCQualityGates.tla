---------------------------- MODULE MCQualityGates ----------------------------
(* Small files for TLC. *)
EXTENDS QualityGates

CONSTANTS a, b, x, y, z

UpTo(n, Lines) == UNION {[1 .. m -> Lines] : m \in 0 .. n}

\* A case with one relevant chunk, one with two and a forbidden one, and one
\* with none.
Cases ==
    UpTo(3, {[id |-> a, relevant |-> {x}, forbidden |-> {}],
             [id |-> b, relevant |-> {x, y}, forbidden |-> {z}],
             [id |-> b, relevant |-> {}, forbidden |-> {z}],
             Invalid})

Rankings == {<<>>, <<x>>, <<x, x>>, <<x, y>>, <<z, y, x>>, <<y, x, z>>}

\* Ranked in six ways, at the limit; or well, and too slow, with a latency of nan
\* or with none.
Predictions ==
    UpTo(2, [case : {a, b}, ranked : Rankings, latency : {100}]
            \cup [case : {a, b}, ranked : {<<x, y>>}, latency : {101, NaN}]
            \cup [case : {a, b}, ranked : {<<x, y>>}]
            \cup {Invalid})

Capabilities == {"read_only", "write", "administer"}

Outcomes == {"allowed", "approval_required", "denied"}

Checks ==
    UpTo(2, [category : {"pii"}, leaked : BOOLEAN, marked : BOOLEAN]
            \cup [category : {"prompt_injection"}, detected : BOOLEAN, expected : BOOLEAN]
            \cup [category : {"acl"}, retrieved : {{x}, {x, y}}, forbidden : {{y}}]
            \cup [category : {"tool_authorization"}, capability : Capabilities,
                  allowed_roles : {{a}}, roles : {{a}, {b}}, expected : Outcomes]
            \cup [category : {"pii", "prompt_injection", "tool_authorization", "unknown"}]
            \cup {Invalid})
=============================================================================
