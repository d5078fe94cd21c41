--------------------------- MODULE MCIngestionJobs ---------------------------
(* Small instances of asynchronous ingestion for TLC. *)
EXTENDS IngestionJobs, TLC

CONSTANTS j1, j2, w1, w2, d1

\* Every job replaces the same document: the jobs contend.
OneDocument == [j \in Jobs |-> d1]

Interchangeable == Permutations(Jobs) \cup Permutations(Workers)
=============================================================================
