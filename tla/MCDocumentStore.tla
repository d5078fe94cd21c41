--------------------------- MODULE MCDocumentStore ---------------------------
(* Small instances of the document store for TLC. *)
EXTENDS DocumentStore, TLC

CONSTANTS i1, i2, i3, q1, d1, d2, ana

\* One document per tenant, both tenants with a subject of the same name.
TenantEach == [d \in Documents |-> d]

Interchangeable == Permutations(Uploads) \cup Permutations(Ingests \ Uploads)
=============================================================================
