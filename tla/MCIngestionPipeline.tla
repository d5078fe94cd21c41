------------------------- MODULE MCIngestionPipeline -------------------------
(* A small instance of the pipeline for TLC. *)
EXTENDS IngestionPipeline

CONSTANTS j1, w1, w2, u1, d1, ana

\* Jobs and uploads replace one document, the uploads with less text.
Contending ==
    [c \in Jobs \cup Uploads |->
        [document |-> d1, readers |-> {ana}, size |-> IF c \in Jobs THEN 2 ELSE 1]]

OwnTenant == [d \in Documents |-> d]
=============================================================================
