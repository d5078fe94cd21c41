------------------------- MODULE DocumentStoreProofs -------------------------
(* Proofs that hold for every number of uploads, documents and searches, and *)
(* for documents of any length.                                              *)
EXTENDS DocumentStore, TLAPS

LEMMA InitStore == Init => StoreInv
  BY DocumentStoreAssumption
  DEF Init, StoreInv, TypeOK, WritersHoldRow, DeletedAll, StoredHasEnded,
      WholeVersions, SearchesAuthorized, InTransaction, Ended

\* A step of an open or unborn call that leaves the tables alone disturbs
\* neither what is committed nor what was found.
LEMMA QuietStore ==
  ASSUME StoreInv, NEW i \in Ingests, i \notin stored,
         UNCHANGED <<rows, chunks, stored, answer>>,
         upload' = [upload EXCEPT ![i] = upload'[i]],
         pc' = [pc EXCEPT ![i] = pc'[i]]
  PROVE  StoredHasEnded' /\ WholeVersions' /\ SearchesAuthorized'
  <1> USE DEF StoreInv
  <1>1. \A j \in stored : upload'[j] = upload[j] /\ pc'[j] = pc[j]
    BY DEF TypeOK
  <1>2. StoredHasEnded'
    BY <1>1 DEF StoredHasEnded, Document, TypeOK
  <1>3. WholeVersions'
    BY <1>1 DEF WholeVersions, StoredHasEnded, Size
  <1>4. SearchesAuthorized'
    BY <1>1 DEF SearchesAuthorized, StoredHasEnded, Document
  <1> QED BY <1>2, <1>3, <1>4

LEMMA BeginStore ==
  ASSUME StoreInv, NEW i \in Ingests, NEW u \in Upload, Begin(i, u)
  PROVE  StoreInv'
  <1> USE DEF Begin, Goto, database, StoreInv
  <1>1. TypeOK'
    BY DEF TypeOK, InTransaction
  <1>2. i \notin stored
    BY DEF StoredHasEnded, Ended
  <1>3. StoredHasEnded' /\ WholeVersions' /\ SearchesAuthorized'
    BY <1>2, QuietStore DEF TypeOK
  <1>4. WritersHoldRow' /\ DeletedAll'
    BY DEF WritersHoldRow, DeletedAll, Document, Size, TypeOK
  <1> QED BY <1>1, <1>3, <1>4

LEMMA UpsertStore ==
  ASSUME StoreInv, NEW i \in Ingests, Upsert(i)
  PROVE  StoreInv'
  <1> USE DEF Upsert, Goto, database, StoreInv
  <1>1. TypeOK'
    BY DEF TypeOK, InTransaction
  <1>2. i \notin stored
    BY DEF StoredHasEnded, Ended
  <1>3. StoredHasEnded' /\ WholeVersions' /\ SearchesAuthorized'
    BY <1>2, QuietStore DEF TypeOK
  <1>4. Document(i) \in Documents
    BY DEF TypeOK, Document, Upload
  <1>5. WritersHoldRow'
    BY <1>4, DocumentStoreAssumption DEF WritersHoldRow, Document, TypeOK
  <1>6. DeletedAll'
    BY DEF DeletedAll, Document, Size, TypeOK
  <1> QED BY <1>1, <1>3, <1>5, <1>6

LEMMA DeleteChunksStore ==
  ASSUME StoreInv, NEW i \in Ingests, DeleteChunks(i)
  PROVE  StoreInv'
  <1> USE DEF DeleteChunks, Goto, database, StoreInv
  <1>1. TypeOK'
    BY DEF TypeOK, InTransaction
  <1>2. i \notin stored
    BY DEF StoredHasEnded, Ended
  <1>3. StoredHasEnded' /\ WholeVersions' /\ SearchesAuthorized'
    BY <1>2, QuietStore DEF TypeOK
  <1>4. WritersHoldRow'
    BY DEF WritersHoldRow, Document, TypeOK
  <1>5. Size(i) >= 0
    BY DEF TypeOK, Size, Upload
  <1>6. DeletedAll'
    BY <1>5 DEF DeletedAll, Document, Size, TypeOK
  <1> QED BY <1>1, <1>3, <1>4, <1>6

LEMMA InsertChunkStore ==
  ASSUME StoreInv, NEW i \in Ingests, InsertChunk(i)
  PROVE  StoreInv'
  <1> USE DEF InsertChunk, database, StoreInv
  <1>0. upload[i] \in Upload /\ Size(i) \in 0 .. MaxChunks
    BY DEF TypeOK, Size, Upload
  <1>1. TypeOK'
    <2>1. inserted[i] + 1 \in 0 .. MaxChunks
      BY <1>0, DocumentStoreAssumption DEF TypeOK
    <2>2. inserted' \in [Ingests -> 0 .. MaxChunks]
      BY <2>1 DEF TypeOK
    <2> QED BY <2>2 DEF TypeOK
  <1>2. i \notin stored
    BY DEF StoredHasEnded, Ended
  <1>3. StoredHasEnded' /\ WholeVersions' /\ SearchesAuthorized'
    BY <1>2, QuietStore DEF TypeOK
  <1>4. WritersHoldRow'
    BY DEF WritersHoldRow, Document
  <1>5. DeletedAll'
    BY <1>0, DocumentStoreAssumption DEF DeletedAll, Document, Size, TypeOK
  <1> QED BY <1>1, <1>3, <1>4, <1>5

\* The commit replaces exactly the chunks the row described before.
LEMMA PublishedWhole ==
  ASSUME StoreInv, NEW i \in Ingests, pc[i] = "chunks", inserted[i] = Size(i)
  PROVE  Published(i) = [n \in Indexes |-> IF n < Size(i) THEN i ELSE NoIngest]
  BY DEF StoreInv, DeletedAll, Published

LEMMA CommitStore ==
  ASSUME StoreInv, NEW i \in Ingests, Commit(i)
  PROVE  StoreInv'
  <1> DEFINE d == Document(i)
  <1> USE DEF Commit, Goto, StoreInv
  <1>1. d \in Documents /\ i \notin stored /\ lock[d] = i
    BY DEF TypeOK, Document, Upload, StoredHasEnded, Ended, WritersHoldRow
  <1>2. chunks' = [chunks EXCEPT ![d] = [n \in Indexes |-> IF n < Size(i) THEN i ELSE NoIngest]]
    BY PublishedWhole
  <1>3. \A j \in stored : j # i
    BY <1>1
  <1>4. TypeOK'
    <2>1. chunks' \in [Documents -> [Indexes -> Ingests \cup {NoIngest}]]
      <3>1. [n \in Indexes |-> IF n < Size(i) THEN i ELSE NoIngest]
                \in [Indexes -> Ingests \cup {NoIngest}]
        OBVIOUS
      <3> HIDE DEF d
      <3> QED BY <1>2, <3>1 DEF TypeOK
    <2>2. /\ lock' \in [Documents -> Ingests \cup {NoIngest}]
          /\ deleted' \in [Ingests -> SUBSET Indexes]
          /\ inserted' \in [Ingests -> 0 .. MaxChunks]
      BY DocumentStoreAssumption DEF EndTransaction, TypeOK
    <2> QED BY <2>1, <2>2 DEF TypeOK, Ended, InTransaction
  <1>5. WritersHoldRow'
    BY <1>1 DEF WritersHoldRow, EndTransaction, Document, TypeOK, Upload
  <1>6. \A j \in Ingests : j # i /\ pc[j] = "chunks" => Document(j) # d
    BY <1>1 DEF WritersHoldRow
  <1>7. DeletedAll'
    <2>0. \A j \in Ingests : pc'[j] \in {"idle", "upsert", "delete"} => inserted'[j] = 0
      BY DEF DeletedAll, TypeOK, EndTransaction
    <2>4. \A j \in Ingests : j # i => deleted'[j] = deleted[j] /\ inserted'[j] = inserted[j]
      BY DEF TypeOK, EndTransaction
    <2> SUFFICES ASSUME NEW j \in Ingests, pc'[j] = "chunks"
                 PROVE  /\ \A n \in Indexes : chunks'[Document(j)][n] # NoIngest => n \in deleted[j]
                        /\ inserted[j] <= Size(j)
      <3>1. \A j \in Ingests : pc'[j] = "chunks" => j # i
        BY DEF TypeOK
      <3> QED BY <2>0, <2>4, <3>1 DEF DeletedAll, Document, Size
    <2>1. j # i /\ pc[j] = "chunks" /\ Document(j) # d
      BY <1>6 DEF TypeOK
    <2>2. Document(j) \in Documents
      BY <2>1 DEF TypeOK, Document, Upload
    <2>3. chunks'[Document(j)] = chunks[Document(j)]
      BY <1>2, <2>1, <2>2 DEF TypeOK
    <2> QED BY <2>1, <2>3 DEF DeletedAll
  <1>8. StoredHasEnded'
    BY <1>1, <1>3 DEF StoredHasEnded, TypeOK, Ended, Document
  <1>9. WholeVersions'
    <2> SUFFICES ASSUME NEW e \in Documents, NEW n \in Indexes
                 PROVE  chunks'[e][n] =
                            IF rows'[e] # NoIngest /\ n < Size(rows'[e])
                            THEN rows'[e] ELSE NoIngest
      BY DEF WholeVersions, Size
    <2>1. CASE e = d
      BY <1>1, <1>2, <2>1, DocumentStoreAssumption DEF TypeOK
    <2>2. CASE e # d
      BY <1>1, <1>2, <2>2 DEF TypeOK, WholeVersions
    <2> QED BY <2>1, <2>2
  <1>10. SearchesAuthorized'
    BY DEF SearchesAuthorized, Document
  <1> QED BY <1>4, <1>5, <1>7, <1>8, <1>9, <1>10

LEMMA RecordIngestedStore ==
  ASSUME StoreInv, NEW i \in Ingests, RecordIngested(i)
  PROVE  StoreInv'
  <1> USE DEF RecordIngested, Goto, StoreInv
  <1>1. TypeOK'
    BY DEF TypeOK, Ended, InTransaction
  <1>2. WritersHoldRow' /\ DeletedAll'
    BY DEF WritersHoldRow, DeletedAll, Document, Size, TypeOK
  <1>3. StoredHasEnded' /\ WholeVersions' /\ SearchesAuthorized'
    BY DEF StoredHasEnded, WholeVersions, SearchesAuthorized, Document, Size, TypeOK, Ended
  <1> QED BY <1>1, <1>2, <1>3

LEMMA RaiseStore ==
  ASSUME StoreInv, NEW i \in Ingests, Raise(i)
  PROVE  StoreInv'
  <1> USE DEF Raise, database, StoreInv, EndTransaction
  <1>1. TypeOK'
    BY DocumentStoreAssumption DEF TypeOK, Ended, InTransaction
  <1>2. WritersHoldRow'
    BY DEF WritersHoldRow, Document, TypeOK, Upload
  <1>3. DeletedAll'
    BY DEF DeletedAll, Document, Size, TypeOK
  <1>4. StoredHasEnded' /\ WholeVersions' /\ SearchesAuthorized'
    BY DEF StoredHasEnded, WholeVersions, SearchesAuthorized, Document, Size, TypeOK, Ended
  <1> QED BY <1>1, <1>2, <1>3, <1>4

LEMMA SearchStore ==
  ASSUME StoreInv, NEW q \in Searches, NEW tenant \in Tenants,
         NEW subject \in Subjects, Search(q, tenant, subject)
  PROVE  StoreInv'
  <1> USE DEF StoreInv, database
  <1>1. PICK hits \in SUBSET Readable(tenant, subject) :
            answer' = [answer EXCEPT ![q] =
                [tenant |-> tenant, subject |-> subject, hits |-> hits]]
    BY DEF Search
  <1>2. UNCHANGED <<rows, chunks, lock, upload, pc, deleted, inserted, stored, audit>>
    BY DEF Search
  <1>3. hits \subseteq Hit
    BY DEF Readable
  <1>4. \A h \in hits :
            /\ h.document \in Documents
            /\ h.from = rows[h.document]
            /\ TenantOf[h.document] = tenant
            /\ subject \in upload[h.from].readers
            /\ h.from \in stored
            /\ Document(h.from) = h.document
    <2> TAKE h \in hits
    <2>1. /\ h.document \in Documents /\ h.index \in Indexes
          /\ h.from \in Ingests /\ chunks[h.document][h.index] = h.from
          /\ TenantOf[h.document] = tenant
          /\ subject \in upload[rows[h.document]].readers
      BY DEF Readable, Hit
    <2>2. h.from = rows[h.document] /\ rows[h.document] # NoIngest
      BY <2>1, DocumentStoreAssumption DEF WholeVersions
    <2> QED BY <2>1, <2>2 DEF StoredHasEnded
  <1>5. TypeOK'
    <2>1. [tenant |-> tenant, subject |-> subject, hits |-> hits] \in Answer
      BY <1>3 DEF Answer
    <2> QED BY <1>1, <1>2, <2>1 DEF TypeOK
  <1>6. WritersHoldRow' /\ DeletedAll' /\ WholeVersions'
    BY <1>2 DEF WritersHoldRow, DeletedAll, WholeVersions, Document, Size
  <1>7. \A p \in Searches : p # q => answer'[p] = answer[p]
    BY <1>1 DEF TypeOK
  <1>8. answer'[q].hits = hits /\ answer'[q].tenant = tenant /\ answer'[q].subject = subject
    BY <1>1 DEF TypeOK
  <1>9. StoredHasEnded'
    BY <1>2, <1>4, <1>7, <1>8 DEF StoredHasEnded, Document
  <1>10. SearchesAuthorized'
    BY <1>2, <1>4, <1>7, <1>8 DEF SearchesAuthorized, Document
  <1> QED BY <1>5, <1>6, <1>9, <1>10

LEMMA NextStore ==
  ASSUME StoreInv, [Next]_vars
  PROVE  StoreInv'
  <1>1. CASE \E i \in Ingests, u \in Upload : Begin(i, u)
    BY <1>1, BeginStore
  <1>2. ASSUME NEW i \in Ingests, Advance(i) PROVE StoreInv'
    BY <1>2, UpsertStore, DeleteChunksStore, InsertChunkStore, CommitStore,
       RecordIngestedStore
    DEF Advance
  <1>3. CASE \E i \in Ingests : Raise(i)
    BY <1>3, RaiseStore
  <1>4. CASE \E q \in Searches, tenant \in Tenants, subject \in Subjects :
                Search(q, tenant, subject)
    BY <1>4, SearchStore
  <1>5. CASE UNCHANGED vars
    BY <1>5 DEF vars, StoreInv, TypeOK, WritersHoldRow, DeletedAll, StoredHasEnded,
                WholeVersions, SearchesAuthorized, Document, Size
  <1> QED BY <1>1, <1>2, <1>3, <1>4, <1>5 DEF Next

\* The tables of the store stay consistent with each other and with the open
\* transactions, for every workload.
THEOREM StoreInvariant == Spec => []StoreInv
  BY InitStore, NextStore, PTL DEF Spec

\* The tables of the store, its row locks and the positions of the uploads keep
\* their types.
THEOREM TypeCorrect == Spec => []TypeOK
  BY StoreInvariant, PTL DEF StoreInv

\* However uploads of one document overlap and fail, its committed chunks are
\* those of one upload, all of them.
THEOREM DocumentsWhole == Spec => []WholeVersions
  BY StoreInvariant, PTL DEF StoreInv

\* Text is found only by readers whom its own upload has named, in its tenant.
THEOREM OnlyReadersFind == Spec => []SearchesAuthorized
  BY StoreInvariant, PTL DEF StoreInv

\* Replaced text is not found by a search that starts after the commit.
THEOREM SearchesCurrent == Spec => SearchesReadCurrent
  <1>1. StoreInv /\ [Next]_vars =>
            [\A q \in Searches : answer'[q] # answer[q] =>
                \A h \in answer'[q].hits : h.from = rows[h.document]]_vars
    <2> SUFFICES ASSUME StoreInv, Next, NEW q \in Searches, answer'[q] # answer[q],
                        NEW h \in answer'[q].hits
                 PROVE  h.from = rows[h.document]
      OBVIOUS
    <2>1. PICK p \in Searches, tenant \in Tenants, subject \in Subjects :
                Search(p, tenant, subject)
      BY DEF Next, Begin, Advance, Upsert, DeleteChunks, InsertChunk, Commit,
             RecordIngested, Raise
    <2>2. PICK hits \in SUBSET Readable(tenant, subject) :
                answer' = [answer EXCEPT ![p] =
                    [tenant |-> tenant, subject |-> subject, hits |-> hits]]
      BY <2>1 DEF Search
    <2>3. q = p /\ answer'[q].hits = hits
      BY <2>2 DEF StoreInv, TypeOK
    <2>4. h \in Hit /\ chunks[h.document][h.index] = h.from
      BY <2>2, <2>3 DEF Readable
    <2> QED BY <2>4, DocumentStoreAssumption DEF StoreInv, WholeVersions, Hit
  <1> QED BY <1>1, StoreInvariant, PTL DEF Spec, SearchesReadCurrent

-----------------------------------------------------------------------------
(* The refinement mapping of ImplementsWhole, and what each step does.     *)

Proposed ==
    [i \in Ingests |->
        IF pc[i] = "idle" THEN NoIngest
        ELSE [document |-> Document(i), size |-> Size(i)]]

ChunkSet(c) == {<<c[n], n>> : n \in {m \in Indexes : c[m] # NoIngest}}

Searchable == [d \in Documents |-> ChunkSet(chunks[d])]

LEMMA InitWhole == Init => Whole!Init
  BY DEF Init, Whole!Init

LEMMA BeginProposes ==
  ASSUME StoreInv, NEW i \in Ingests, NEW u \in Upload, Begin(i, u)
  PROVE  \E p \in [document : Documents, size : 0 .. MaxChunks] :
            /\ Proposed[i] = NoIngest
            /\ Proposed' = [Proposed EXCEPT ![i] = p]
            /\ UNCHANGED <<Searchable, stored>>
  <1> DEFINE p == [document |-> u.document, size |-> u.size]
  <1> USE DEF Begin, Goto, database
  <1>1. p \in [document : Documents, size : 0 .. MaxChunks]
    BY DEF Upload
  <1>2. /\ upload'[i] = u /\ pc'[i] = "upsert"
        /\ \A j \in Ingests : j # i => upload'[j] = upload[j] /\ pc'[j] = pc[j]
    BY DEF StoreInv, TypeOK
  <1>3. Proposed' = [Proposed EXCEPT ![i] = p]
    BY <1>2 DEF Proposed, Document, Size
  <1>4. Proposed[i] = NoIngest
    BY DEF Proposed
  <1> QED BY <1>1, <1>3, <1>4 DEF Searchable, ChunkSet

LEMMA CommitReplaces ==
  ASSUME StoreInv, NEW i \in Ingests, Commit(i)
  PROVE  /\ Proposed[i] # NoIngest
         /\ i \notin stored
         /\ stored' = stored \cup {i}
         /\ Searchable' = [Searchable EXCEPT ![Proposed[i].document] =
                {i} \X (0 .. Proposed[i].size - 1)]
         /\ Proposed' = Proposed
  <1> DEFINE d == Document(i)
             new == [n \in Indexes |-> IF n < Size(i) THEN i ELSE NoIngest]
  <1> USE DEF Commit, Goto
  <1>1. d \in Documents /\ Size(i) \in 0 .. MaxChunks
    BY DEF StoreInv, TypeOK, Document, Size, Upload
  <1>2. i \notin stored
    BY DEF StoreInv, StoredHasEnded, Ended
  <1>3. Proposed[i] = [document |-> d, size |-> Size(i)] /\ Proposed[i] # NoIngest
    BY <1>1, DocumentStoreAssumption DEF Proposed
  <1>4. Proposed' = Proposed
    BY DEF Proposed, StoreInv, TypeOK, Document, Size
  <1>5. chunks' = [chunks EXCEPT ![d] = new]
    BY PublishedWhole
  <1>6. \A e \in Documents : e # d => chunks'[e] = chunks[e]
    BY <1>5 DEF StoreInv, TypeOK
  <1>7. chunks'[d] = new
    BY <1>1, <1>5 DEF StoreInv, TypeOK
  <1>8. ChunkSet(new) = {i} \X (0 .. Size(i) - 1)
    <2>1. {m \in Indexes : new[m] # NoIngest} = 0 .. Size(i) - 1
      BY <1>1, DocumentStoreAssumption DEF Indexes
    <2>2. \A n \in 0 .. Size(i) - 1 : new[n] = i
      BY <1>1, DocumentStoreAssumption DEF Indexes
    <2> HIDE DEF new
    <2> DEFINE S == 0 .. Size(i) - 1
    <2>3. ChunkSet(new) = {<<new[n], n>> : n \in S}
      BY <2>1 DEF ChunkSet
    <2> HIDE DEF S
    <2>4. \A n \in S : new[n] = i
      BY <2>2 DEF S
    <2>5. {<<new[n], n>> : n \in S} \subseteq {i} \X S
      BY <2>4
    <2>6. {i} \X S \subseteq {<<new[n], n>> : n \in S}
      BY <2>4
    <2> QED BY <2>3, <2>5, <2>6 DEF S
  <1>9. Searchable' = [Searchable EXCEPT ![d] = {i} \X (0 .. Size(i) - 1)]
    <2> HIDE DEF d, new
    <2>1. \A e \in Documents : e # d => ChunkSet(chunks'[e]) = ChunkSet(chunks[e])
      BY <1>6
    <2>2. ChunkSet(chunks'[d]) = {i} \X (0 .. Size(i) - 1)
      BY <1>7, <1>8
    <2>3. Searchable' = [e \in Documents |-> ChunkSet(chunks'[e])]
      BY DEF Searchable, ChunkSet
    <2> QED BY <1>1, <2>1, <2>2, <2>3 DEF Searchable
  <1> QED BY <1>2, <1>3, <1>4, <1>9

LEMMA WholeStep ==
  ASSUME StoreInv, [Next]_vars
  PROVE  \/ UNCHANGED <<Proposed, Searchable, stored>>
         \/ \E i \in Ingests :
            \/ \E p \in [document : Documents, size : 0 .. MaxChunks] :
                /\ Proposed[i] = NoIngest
                /\ Proposed' = [Proposed EXCEPT ![i] = p]
                /\ UNCHANGED <<Searchable, stored>>
            \/ /\ Proposed[i] # NoIngest
               /\ i \notin stored
               /\ stored' = stored \cup {i}
               /\ Searchable' = [Searchable EXCEPT ![Proposed[i].document] =
                      {i} \X (0 .. Proposed[i].size - 1)]
               /\ Proposed' = Proposed
  <1>1. ASSUME NEW i \in Ingests,
               Upsert(i) \/ DeleteChunks(i) \/ InsertChunk(i) \/ RecordIngested(i) \/ Raise(i)
        PROVE  UNCHANGED <<Proposed, Searchable, stored>>
    <2>1. /\ \A j \in Ingests : pc'[j] = "idle" <=> pc[j] = "idle"
          /\ UNCHANGED <<upload, chunks, stored>>
      BY <1>1 DEF Upsert, DeleteChunks, InsertChunk, RecordIngested, Raise, Goto,
                  database, StoreInv, TypeOK, InTransaction
    <2> QED BY <2>1 DEF Proposed, Searchable, ChunkSet, Document, Size
  <1>2. ASSUME NEW q \in Searches, NEW tenant \in Tenants, NEW subject \in Subjects,
               Search(q, tenant, subject)
        PROVE  UNCHANGED <<Proposed, Searchable, stored>>
    BY <1>2 DEF Search, database, Proposed, Searchable, ChunkSet, Document, Size
  <1>3. CASE UNCHANGED vars
    BY <1>3 DEF vars, Proposed, Searchable, ChunkSet, Document, Size
  <1> QED BY <1>1, <1>2, <1>3, BeginProposes, CommitReplaces DEF Next, Advance

\* The store implements its promise: a document changes in one step, whole.
THEOREM StoreImplementsWhole == Spec => ImplementsWhole
  <1>1. StoreInv /\ [Next]_vars => [Whole!Next]_(Whole!vars)
    BY WholeStep
    DEF Proposed, Searchable, ChunkSet, Whole!Next, Whole!vars, Whole!Proposal, Whole!Propose,
        Whole!Replace
  <1> QED BY <1>1, InitWhole, StoreInvariant, PTL
    DEF Spec, ImplementsWhole, Whole!Spec
=============================================================================
