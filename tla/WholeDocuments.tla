--------------------------- MODULE WholeDocuments ---------------------------
(***************************************************************************)
(* What the document store promises: the searchable chunks of a document   *)
(* change all at once, to all the chunks of one upload for that document,  *)
(* and an upload takes effect at most once.                                *)
(***************************************************************************)
EXTENDS Naturals

CONSTANTS Documents, Ingests, MaxChunks, NoUpload

VARIABLES
    proposed,       \* the document and the size of each upload under way
    searchable,     \* the chunks of each document: <<upload, index>>
    installed       \* uploads that took effect

vars == <<proposed, searchable, installed>>

Proposal == [document : Documents, size : 0 .. MaxChunks]

\* Proposals and searchable chunks keep their types.
TypeOK ==
    /\ proposed \in [Ingests -> Proposal \cup {NoUpload}]
    /\ searchable \in [Documents -> SUBSET (Ingests \X (0 .. MaxChunks - 1))]
    /\ installed \subseteq Ingests

Init ==
    /\ proposed = [i \in Ingests |-> NoUpload]
    /\ searchable = [d \in Documents |-> {}]
    /\ installed = {}

Propose(i, p) ==
    /\ proposed[i] = NoUpload
    /\ proposed' = [proposed EXCEPT ![i] = p]
    /\ UNCHANGED <<searchable, installed>>

Replace(i) ==
    /\ proposed[i] # NoUpload
    /\ i \notin installed
    /\ installed' = installed \cup {i}
    /\ searchable' = [searchable EXCEPT ![proposed[i].document] =
            {i} \X (0 .. proposed[i].size - 1)]
    /\ UNCHANGED proposed

Next == \E i \in Ingests : Replace(i) \/ \E p \in Proposal : Propose(i, p)

Spec == Init /\ [][Next]_vars
=============================================================================
