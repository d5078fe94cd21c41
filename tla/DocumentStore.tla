---------------------------- MODULE DocumentStore ----------------------------
(***************************************************************************)
(* Replacing a document and searching.  IngestionService.ingest, called by *)
(* POST /v1/documents and by the ingestion workers, runs one transaction:  *)
(* it upserts the document's row, deletes its chunks, and embeds and       *)
(* inserts the new ones one by one, awaiting the embedding model in        *)
(* between.  Any number of such transactions overlap with each other and   *)
(* with searches, which read in one SQL statement.                         *)
(*                                                                         *)
(* Abstractions.  A chunk is known by the upload it comes from and its     *)
(* index; embeddings and scores are left out, so a search returns any      *)
(* chunks it may, up to its limit.  Statements of one document's           *)
(* transaction wait for another's on the row of the document only.         *)
(***************************************************************************)
EXTENDS Naturals, FiniteSets

CONSTANTS
    Ingests,        \* calls of IngestionService.ingest, each its own session
    Uploads,        \* those made by POST /v1/documents; a worker makes others
    Searches,       \* calls of PgVectorRetriever.search
    Documents,      \* (tenant, external_id) pairs
    Tenants,
    TenantOf,       \* the tenant of each document
    Subjects,       \* subject ids, which tenants may share
    MaxChunks,      \* bound on the chunks of a document
    Limit,          \* limit of a search
    NoIngest        \* no row, a free row lock, a search or upload to come

Indexes == 0 .. MaxChunks - 1

\* What ingest is given; chunk_text has split the content already.
Upload ==
    [document : Documents, readers : SUBSET Subjects, size : 0 .. MaxChunks]

Hit == [document : Documents, index : Indexes, from : Ingests]

Answer == [tenant : Tenants, subject : Subjects, hits : SUBSET Hit]

ASSUME DocumentStoreAssumption ==
    /\ Uploads \subseteq Ingests
    /\ TenantOf \in [Documents -> Tenants]
    /\ MaxChunks \in Nat
    /\ Limit \in Nat
    /\ NoIngest \notin Ingests
    /\ NoIngest \notin Upload
    /\ NoIngest \notin [document : Documents, size : 0 .. MaxChunks]
    /\ NoIngest \notin Answer

VARIABLES
    rows,           \* table documents: the upload each row describes
    chunks,         \* table document_chunks, UNIQUE (document_id, chunk_index)
    lock,           \* the open transaction that wrote each document's row
    upload,         \* what each call of ingest replaces, and with what
    pc,             \* where each call is
    deleted,        \* chunks each open transaction has deleted
    inserted,       \* how many chunks each open transaction has inserted
    stored,         \* calls whose transaction was committed
    audit,          \* uploads with a document.ingested event
    answer          \* what each search returned

vars == <<rows, chunks, lock, upload, pc, deleted, inserted, stored, audit, answer>>

database == <<rows, chunks, stored, audit>>

InTransaction == {"upsert", "delete", "chunks"}

Ended == {"done", "answered", "failed"}

\* The tables, the row locks, the uploads under way and the answers of searches
\* keep their types.
TypeOK ==
    /\ rows \in [Documents -> Ingests \cup {NoIngest}]
    /\ chunks \in [Documents -> [Indexes -> Ingests \cup {NoIngest}]]
    /\ lock \in [Documents -> Ingests \cup {NoIngest}]
    /\ upload \in [Ingests -> Upload \cup {NoIngest}]
    /\ pc \in [Ingests -> {"idle", "record"} \cup InTransaction \cup Ended]
    /\ \A i \in Ingests : pc[i] # "idle" => upload[i] \in Upload
    /\ deleted \in [Ingests -> SUBSET Indexes]
    /\ inserted \in [Ingests -> 0 .. MaxChunks]
    /\ stored \subseteq Ingests
    /\ audit \subseteq Ingests
    /\ answer \in [Searches -> Answer \cup {NoIngest}]

Init ==
    /\ rows = [d \in Documents |-> NoIngest]
    /\ chunks = [d \in Documents |-> [n \in Indexes |-> NoIngest]]
    /\ lock = [d \in Documents |-> NoIngest]
    /\ upload = [i \in Ingests |-> NoIngest]
    /\ pc = [i \in Ingests |-> "idle"]
    /\ deleted = [i \in Ingests |-> {}]
    /\ inserted = [i \in Ingests |-> 0]
    /\ stored = {}
    /\ audit = {}
    /\ answer = [q \in Searches |-> NoIngest]

Goto(i, from, to) ==
    /\ pc[i] = from
    /\ pc' = [pc EXCEPT ![i] = to]

Document(i) == upload[i].document

Size(i) == upload[i].size

-----------------------------------------------------------------------------
(* Replacing a document.                                                   *)

Begin(i, u) ==
    /\ Goto(i, "idle", "upsert")
    /\ upload' = [upload EXCEPT ![i] = u]
    /\ UNCHANGED <<lock, deleted, inserted, answer, database>>

\* Mutant: the upsert is committed on its own.
UpsertAutocommitted(i) ==
    /\ Goto(i, "upsert", "delete")
    /\ lock[Document(i)] = NoIngest
    /\ lock' = [lock EXCEPT ![Document(i)] = i]
    /\ rows' = [rows EXCEPT ![Document(i)] = i]
    /\ UNCHANGED <<chunks, upload, deleted, inserted, stored, audit, answer>>

\* Mutant: ON CONFLICT DO NOTHING, which does not lock a row that exists.
UpsertWithoutLock(i) ==
    /\ Goto(i, "upsert", "delete")
    /\ UNCHANGED <<lock, upload, deleted, inserted, answer, database>>

\* INSERT .. ON CONFLICT DO UPDATE waits for any open transaction that has
\* inserted or updated the row, and then owns it until it ends itself.
Upsert(i) ==
    /\ Goto(i, "upsert", "delete")
    /\ lock[Document(i)] = NoIngest
    /\ lock' = [lock EXCEPT ![Document(i)] = i]
    /\ UNCHANGED <<upload, deleted, inserted, answer, database>>

\* Mutant: re-ingestion only adds and overwrites chunks.
DeleteNothing(i) ==
    /\ Goto(i, "delete", "chunks")
    /\ UNCHANGED <<lock, upload, deleted, inserted, answer, database>>

\* DELETE sees the chunks committed when it starts.
DeleteChunks(i) ==
    /\ Goto(i, "delete", "chunks")
    /\ deleted' = [deleted EXCEPT ![i] =
            {n \in Indexes : chunks[Document(i)][n] # NoIngest}]
    /\ UNCHANGED <<lock, upload, inserted, answer, database>>

\* Embed the next chunk and insert it.
InsertChunk(i) ==
    /\ pc[i] = "chunks"
    /\ inserted[i] < Size(i)
    /\ inserted' = [inserted EXCEPT ![i] = @ + 1]
    /\ UNCHANGED <<lock, upload, pc, deleted, answer, database>>

\* Mutant: a transaction that ends keeps its row lock.
LockKept(i) ==
    /\ lock' = lock
    /\ deleted' = [deleted EXCEPT ![i] = {}]
    /\ inserted' = [inserted EXCEPT ![i] = 0]

EndTransaction(i) ==
    /\ lock' = [d \in Documents |-> IF lock[d] = i THEN NoIngest ELSE lock[d]]
    /\ deleted' = [deleted EXCEPT ![i] = {}]
    /\ inserted' = [inserted EXCEPT ![i] = 0]

\* The chunks of a document once transaction i has committed: an insert that
\* met a committed row of the same index has overwritten it.
Published(i) ==
    [n \in Indexes |->
        IF n < inserted[i] THEN i
        ELSE IF n \in deleted[i] THEN NoIngest
        ELSE chunks[Document(i)][n]]

Commit(i) ==
    /\ Goto(i, "chunks", IF i \in Uploads THEN "record" ELSE "done")
    /\ inserted[i] = Size(i)
    /\ rows' = [rows EXCEPT ![Document(i)] = i]
    /\ chunks' = [chunks EXCEPT ![Document(i)] = Published(i)]
    /\ stored' = stored \cup {i}
    /\ EndTransaction(i)
    /\ UNCHANGED <<upload, audit, answer>>

\* record_event, in a second transaction of POST /v1/documents, then 201.
RecordIngested(i) ==
    /\ Goto(i, "record", "answered")
    /\ audit' = audit \cup {i}
    /\ UNCHANGED <<rows, chunks, lock, upload, deleted, inserted, stored, answer>>

\* Mutant: a failed embedding ends the loop, not the transaction.
RaiseCommits(i) ==
    /\ Goto(i, "chunks", "failed")
    /\ rows' = [rows EXCEPT ![Document(i)] = i]
    /\ chunks' = [chunks EXCEPT ![Document(i)] = Published(i)]
    /\ stored' = stored \cup {i}
    /\ EndTransaction(i)
    /\ UNCHANGED <<upload, audit, answer>>

\* The model, a statement or the process fails: an open transaction is rolled
\* back; after the commit the caller gets an error for a document it stored.
Raise(i) ==
    /\ pc[i] \in InTransaction \cup {"record"}
    /\ pc' = [pc EXCEPT ![i] = "failed"]
    /\ EndTransaction(i)
    /\ UNCHANGED <<upload, answer, database>>

-----------------------------------------------------------------------------
(* Searching.                                                              *)

\* The WHERE clauses of search: the tenant and the readers of the document's
\* row, joined with the chunks of one snapshot.  The candidates come from an
\* approximate index with a limit of its own, so a search may miss some.
Readable(tenant, subject) ==
    {h \in Hit :
        /\ chunks[h.document][h.index] = h.from
        /\ TenantOf[h.document] = tenant
        /\ subject \in upload[rows[h.document]].readers}

Search(q, tenant, subject) ==
    /\ answer[q] = NoIngest
    /\ \E hits \in SUBSET Readable(tenant, subject) :
        /\ Cardinality(hits) <= Limit
        /\ answer' = [answer EXCEPT ![q] =
                [tenant |-> tenant, subject |-> subject, hits |-> hits]]
    /\ UNCHANGED <<lock, upload, pc, deleted, inserted, database>>

-----------------------------------------------------------------------------

Advance(i) ==
    \/ Upsert(i)
    \/ DeleteChunks(i)
    \/ InsertChunk(i)
    \/ Commit(i)
    \/ RecordIngested(i)

Next ==
    \/ \E i \in Ingests, u \in Upload : Begin(i, u)
    \/ \E i \in Ingests : Advance(i) \/ Raise(i)
    \/ \E q \in Searches, tenant \in Tenants, subject \in Subjects :
            Search(q, tenant, subject)

Spec == Init /\ [][Next]_vars

-----------------------------------------------------------------------------
(* Safety.                                                                 *)

\* The committed chunks of a document are exactly those of the upload its row
\* describes: no chunk of an older upload survives a shorter one, and two
\* overlapping uploads never leave a mixture.
WholeVersions ==
    \A d \in Documents, n \in Indexes :
        chunks[d][n] =
            IF rows[d] # NoIngest /\ n < Size(rows[d]) THEN rows[d] ELSE NoIngest

\* A chunk is returned only to a subject of the document's tenant whom the
\* very upload the text comes from has named as a reader, and a search never
\* mixes two versions of a document.
SearchesAuthorized ==
    \A q \in Searches : answer[q] # NoIngest =>
        \A h \in answer[q].hits :
            /\ TenantOf[h.document] = answer[q].tenant
            /\ Document(h.from) = h.document
            /\ answer[q].subject \in upload[h.from].readers
            /\ \A g \in answer[q].hits : g.document = h.document => g.from = h.from

\* A search finds what the last commit left: once an upload has been replaced
\* its text is not found any more, by any search that starts later.
SearchesReadCurrent ==
    [][\A q \in Searches : answer'[q] # answer[q] =>
            \A h \in answer'[q].hits : h.from = rows[h.document]]_vars

-----------------------------------------------------------------------------
(* The abstract specification, and the inductive invariant.                *)

Whole == INSTANCE WholeDocuments WITH
    NoUpload <- NoIngest,
    proposed <- [i \in Ingests |->
        IF pc[i] = "idle" THEN NoIngest
        ELSE [document |-> Document(i), size |-> Size(i)]],
    searchable <- [d \in Documents |->
        {<<chunks[d][n], n>> : n \in {m \in Indexes : chunks[d][m] # NoIngest}}],
    installed <- stored

\* Every behaviour of the store is a behaviour of WholeDocuments.
ImplementsWhole == Whole!Spec

\* Between the upsert and the commit a transaction owns its document's row.
WritersHoldRow ==
    \A i \in Ingests : pc[i] \in {"delete", "chunks"} => lock[Document(i)] = i

\* Nothing committed is left that a transaction past its DELETE did not see.
DeletedAll ==
    \A i \in Ingests :
        /\ pc[i] = "chunks" =>
            /\ \A n \in Indexes : chunks[Document(i)][n] # NoIngest => n \in deleted[i]
            /\ inserted[i] <= Size(i)
        /\ pc[i] \in {"idle", "upsert", "delete"} => inserted[i] = 0

\* What is in the tables, or was found there, was committed.
StoredHasEnded ==
    /\ \A i \in stored : pc[i] \in {"record"} \cup Ended
    /\ \A d \in Documents : rows[d] # NoIngest =>
            rows[d] \in stored /\ Document(rows[d]) = d
    /\ \A q \in Searches : answer[q] # NoIngest =>
            \A h \in answer[q].hits : h.from \in stored

\* The row lock of the upsert carries the proof: while a transaction is between
\* its DELETE and its commit no other one changes the chunks it has seen.
StoreInv ==
    /\ TypeOK
    /\ WritersHoldRow
    /\ DeletedAll
    /\ StoredHasEnded
    /\ WholeVersions
    /\ SearchesAuthorized
=============================================================================
