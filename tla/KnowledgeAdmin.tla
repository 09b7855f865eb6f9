--------------------------- MODULE KnowledgeAdmin ---------------------------
(***************************************************************************)
(* The knowledge administration of the back office (internal/chat/         *)
(* service.go, mysql_store.go): create, update, publish, roll back and     *)
(* synchronise.  Each operation writes the knowledge row, its version      *)
(* history, the chunk table (one transaction), the vector index, the       *)
(* vector ids, and the keyword index, one external call after the other,   *)
(* and gives up at the first error.                                        *)
(*                                                                         *)
(* A step is one external call.  Several operators work at once; a call    *)
(* may fail, with or without its effect, which is also what a crash of the *)
(* process between two calls looks like.                                   *)
(*                                                                         *)
(* The AI service in front of the indexes is outside the repository.  Its  *)
(* answer may cover any part of a batch: the code takes what the answer    *)
(* lists and goes on.  What is assumed of it: it lists chunks of the batch *)
(* only, and only those it has put in the vector store.                    *)
(***************************************************************************)
EXTENDS Naturals, FiniteSets

CONSTANTS
    Admins,         \* requests of the back office, each running one operation at a time
    RowIds,         \* ids of cs_knowledge
    Docs,           \* what an operator may write: KnowledgeRecord without its id
    Pieces,         \* number of chunks of a content: 500 runes with an overlap of 80
    VectorBatch,    \* 10: chunks per UpsertVectors
    KeywordBatch,   \* 50: chunks per UpsertKeywords
    MaxOperations,  \* bound on the operations
    MaxFailures     \* bound on the calls that fail, or are answered for a part of the batch

Statuses == {"draft", "published"}
Kids == { d.kid : d \in Docs }
Contents == { d.content : d \in Docs }
VersionLabels == { d.version : d \in Docs }

\* KnowledgeRecord without its id and without what only decorates it.
Doc == [kid : Kids, content : Contents, version : VersionLabels, status : Statuses]

ASSUME DocsAssumption ==
    \A d \in Docs :
        /\ d = [kid |-> d.kid, content |-> d.content, version |-> d.version, status |-> d.status]
        /\ d.status \in Statuses
ASSUME InstanceAssumption == RowIds # {} /\ Docs # {}
ASSUME PiecesAssumption == Pieces \in [Contents -> Nat \ {0}]
ASSUME BatchAssumption == VectorBatch \in Nat \ {0} /\ KeywordBatch \in Nat \ {0}
ASSUME BoundsAssumption == MaxOperations \in Nat /\ MaxFailures \in Nat

VARIABLES
    rows,        \* cs_knowledge
    versions,    \* cs_knowledge_version: what a row has been
    chunks,      \* cs_knowledge_chunk
    vectors,     \* Milvus, by chunk id
    keywords,    \* OpenSearch, by chunk id
    pc,          \* per operator: the call the operation is about to make
    op,          \* per operator: the operation
    operations,  \* operations begun
    failures,    \* calls that failed or were answered in part
    settled,     \* ghost: rows whose last operation succeeded and was not interfered with
    covered,     \* ghost: those of them for which every answer covered its batch
    recorded     \* ghost: the same for the last operation that wrote the row

indexVars == <<chunks, vectors, keywords>>
adminVars == <<pc, op, operations, failures, settled, covered, recorded>>
vars == <<rows, versions, indexVars, adminVars>>

Kinds == {"create", "update", "publish", "rollback", "sync"}
Stages == {"idle", "read", "list_versions", "write_row", "write_version", "list_knowledge",
           "replace_chunks", "upsert_vectors", "backfill", "upsert_keywords", "clear_cache"}

ChunkId == [kid : Kids, version : VersionLabels, index : Nat]
Text == [content : Contents, index : Nat]
Item == [id : ChunkId, text : Text]
Chunk == [id : ChunkId, text : Text, vector : BOOLEAN]
Row == [id : RowIds, doc : Doc]
\* An operation: its chunks, those not sent yet, those the vector answers listed (vectorIDs),
\* and two ghosts: nothing interfered, and every answer covered its batch.
Operation == [kind : Kinds, id : RowIds, doc : Doc, items : SUBSET Item, todo : SUBSET Item,
              listed : SUBSET Item, alone : BOOLEAN, covered : BOOLEAN]

-----------------------------------------------------------------------------
(* The records. *)

\* buildKnowledgeChunks: the chunk id carries knowledge id, version and position.  The code
\* joins them with underscores (service.go:1534), so this takes knowledge ids and version
\* labels for which no two joins are the same.
BuildChunks(doc) ==
    { [id |-> [kid |-> doc.kid, version |-> doc.version, index |-> i],
       text |-> [content |-> doc.content, index |-> i]] : i \in 1..Pieces[doc.content] }

\* What rebuildKnowledgeChunks and SyncKnowledgeChunks make chunks of.
ChunksOf(doc) == IF doc.status = "published" THEN BuildChunks(doc) ELSE {}

\* Mutant: the vector id column is left out.
Fresh_NoVectorId(items) == items

\* A chunk is inserted without a vector id.
Fresh(items) == { [id |-> i.id, text |-> i.text, vector |-> FALSE] : i \in items }

ItemOf(chunk) == [id |-> chunk.id, text |-> chunk.text]

ChunksFor(kid) == { c \in chunks : c.id.kid = kid }

\* An upsert by chunk id.
Upsert(index, items) == { v \in index : \A i \in items : i.id # v.id } \cup items

\* The next batch of a slice: any Size of the items that are left, or all of them.
IsBatch(items, todo, size) ==
    /\ items # {}
    /\ Cardinality(items) = IF Cardinality(todo) <= size THEN Cardinality(todo) ELSE size

\* knowledge_id identifies a row (schema not in src/).
Available(kid, id) == \A r \in rows : r.doc.kid = kid => r.id = id

RowsWith(doc, id) == { r \in rows : r.id # id } \cup { [id |-> id, doc |-> doc] }

-----------------------------------------------------------------------------
(* The course of an operation. *)

Active == { a \in Admins : pc[a] # "idle" }

\* Two operations that may touch the same rows.
Clash(o, p) == o.kind = "sync" \/ p.kind = "sync" \/ o.id = p.id \/ o.doc.kid = p.doc.kid

Touched(o) == IF o.kind = "sync" THEN RowIds ELSE {o.id}
RowsTouched(o) == { r.id : r \in { q \in rows : q.id \in Touched(o) } }

NoOperation ==
    [kind |-> "create", id |-> CHOOSE id \in RowIds : TRUE, doc |-> CHOOSE d \in Docs : TRUE,
     items |-> {}, todo |-> {}, listed |-> {}, alone |-> FALSE, covered |-> FALSE]

\* Ghost: an operation and those it may clash with take note of each other, when it begins
\* and when it learns the knowledge id it works on.
Noticed(a, new) ==
    LET rivals == { b \in Active \ {a} : Clash(op[b], new) }
    IN  [b \in Admins |-> IF b = a THEN [new EXCEPT !.alone = new.alone /\ rivals = {}]
                          ELSE IF b \in rivals THEN [op[b] EXCEPT !.alone = FALSE]
                          ELSE op[b]]

\* A handler is called.
Begin(a, kind, id, doc, stage) ==
    LET new == [kind |-> kind, id |-> id, doc |-> doc, items |-> {}, todo |-> {},
                listed |-> {}, alone |-> TRUE, covered |-> TRUE]
    IN  /\ pc[a] = "idle"
        /\ operations < MaxOperations
        /\ operations' = operations + 1
        /\ pc' = [pc EXCEPT ![a] = stage]
        /\ op' = Noticed(a, new)
        /\ settled' = settled \ Touched(new)
        /\ covered' = covered \ Touched(new)
        /\ recorded' = IF kind = "sync" THEN recorded ELSE recorded \ {id}
        /\ UNCHANGED <<rows, versions, indexVars, failures>>

\* The next call.
Continue(a, stage) ==
    /\ pc' = [pc EXCEPT ![a] = stage]
    /\ UNCHANGED <<operations, failures, settled, covered, recorded>>

\* The next call after an answer for a part of the batch: the code does not notice.
ContinueShort(a, stage) ==
    /\ failures < MaxFailures
    /\ failures' = failures + 1
    /\ pc' = [pc EXCEPT ![a] = stage]
    /\ UNCHANGED <<operations, settled, covered, recorded>>

\* The early return of an error; nothing is undone.
Abandon(a) ==
    /\ failures < MaxFailures
    /\ failures' = failures + 1
    /\ pc' = [pc EXCEPT ![a] = "idle"]
    /\ op' = [op EXCEPT ![a] = NoOperation]
    /\ UNCHANGED <<operations, settled, covered, recorded>>

\* The operation returns to the handler.
Finish(a) ==
    /\ pc' = [pc EXCEPT ![a] = "idle"]
    /\ settled' = IF op[a].alone THEN settled \cup RowsTouched(op[a]) ELSE settled
    /\ covered' = IF op[a].alone /\ op[a].covered THEN covered \cup RowsTouched(op[a]) ELSE covered
    /\ recorded' = IF op[a].alone /\ op[a].kind # "sync" THEN recorded \cup {op[a].id} ELSE recorded
    /\ op' = [op EXCEPT ![a] = NoOperation]
    /\ UNCHANGED <<operations, failures>>

\* CreateKnowledge, UpdateKnowledge, PublishKnowledge, RollbackKnowledge, SyncKnowledgeChunks
Create(a) ==
    \E id \in RowIds, doc \in Docs :
        /\ \A r \in rows : r.id # id
        /\ \A b \in Active : op[b].id # id
        /\ Begin(a, "create", id, doc, "write_row")

Update(a) ==
    \E r \in rows, doc \in Docs : Begin(a, "update", r.id, doc, "write_row")

Publish(a) == \E r \in rows : Begin(a, "publish", r.id, r.doc, "read")

Rollback(a) == \E r \in rows : Begin(a, "rollback", r.id, r.doc, "read")

Sync(a) == \E r \in rows : Begin(a, "sync", r.id, r.doc, "list_knowledge")

\* Mutant: the record that was read keeps its old status.
Read_OldStatus(a) ==
    /\ pc[a] = "read"
    /\ \/ \E r \in rows :
            /\ r.id = op[a].id
            /\ op' = Noticed(a, [op[a] EXCEPT !.doc = r.doc])
            /\ Continue(a, IF op[a].kind = "publish" THEN "write_row" ELSE "list_versions")
       \/ Abandon(a)
    /\ UNCHANGED <<rows, versions, indexVars>>

\* Publishing changes the status of what it read.
AsRead(a, doc) == IF op[a].kind = "publish" THEN [doc EXCEPT !.status = "published"] ELSE doc

\* GetKnowledgeByID.
Read(a) ==
    /\ pc[a] = "read"
    /\ \/ \E r \in rows :
            /\ r.id = op[a].id
            /\ op' = Noticed(a, [op[a] EXCEPT !.doc = AsRead(a, r.doc)])
            /\ Continue(a, IF op[a].kind = "publish" THEN "write_row" ELSE "list_versions")
       \/ Abandon(a)
    /\ UNCHANGED <<rows, versions, indexVars>>

\* ListKnowledgeVersions of the knowledge_id that was read, and the version asked for.
ListVersions(a) ==
    /\ pc[a] = "list_versions"
    /\ \/ \E v \in versions :
            /\ v.kid = op[a].doc.kid
            /\ op' = [op EXCEPT ![a].doc = v]
            /\ Continue(a, "write_row")
       \/ Abandon(a)
    /\ UNCHANGED <<rows, versions, indexVars>>

\* What the row becomes: INSERT and UPDATE write the whole record, publishing the status only.
Written(a) ==
    IF op[a].kind = "publish"
    THEN { IF r.id = op[a].id THEN [r EXCEPT !.doc.status = "published"] ELSE r : r \in rows }
    ELSE RowsWith(op[a].doc, op[a].id)

\* CreateKnowledge, UpdateKnowledge, UpdateKnowledgeStatus: the row.
WriteRow(a) ==
    /\ pc[a] = "write_row"
    /\ \/ /\ op[a].kind # "publish" => Available(op[a].doc.kid, op[a].id)
          /\ rows' = Written(a)
          /\ \/ Continue(a, "write_version") /\ UNCHANGED op
             \/ Abandon(a)
       \/ /\ op[a].kind # "publish"
          /\ ~Available(op[a].doc.kid, op[a].id)
          /\ pc' = [pc EXCEPT ![a] = "idle"]
          /\ op' = [op EXCEPT ![a] = NoOperation]
          /\ UNCHANGED <<rows, operations, failures, settled, covered, recorded>>
       \/ UNCHANGED rows /\ Abandon(a)
    /\ UNCHANGED <<versions, indexVars>>

\* SaveKnowledgeVersion, then buildKnowledgeChunks.
WriteVersion(a) ==
    /\ pc[a] = "write_version"
    /\ \/ /\ versions' = versions \cup {op[a].doc}
          /\ \/ /\ op' = [op EXCEPT ![a].items = ChunksOf(op[a].doc)]
                /\ Continue(a, "replace_chunks")
             \/ Abandon(a)
       \/ UNCHANGED versions /\ Abandon(a)
    /\ UNCHANGED <<rows, indexVars>>

\* Mutant: drafts are synchronised too.
ListKnowledge_Drafts(a) ==
    /\ pc[a] = "list_knowledge"
    /\ \/ /\ op' = [op EXCEPT ![a].items = UNION { BuildChunks(r.doc) : r \in rows }]
          /\ Continue(a, "replace_chunks")
       \/ Abandon(a)
    /\ UNCHANGED <<rows, versions, indexVars>>

\* ListKnowledge, and the chunks of everything published.
ListKnowledge(a) ==
    /\ pc[a] = "list_knowledge"
    /\ \/ /\ op' = [op EXCEPT ![a].items = UNION { ChunksOf(r.doc) : r \in rows }]
          /\ Continue(a, "replace_chunks")
       \/ Abandon(a)
    /\ UNCHANGED <<rows, versions, indexVars>>

\* Mutant: the old chunks are not deleted first.
Replaced_InsertOnly(a) ==
    { c \in chunks : \A i \in op[a].items : c.id # i.id } \cup Fresh(op[a].items)

\* replaceKnowledgeChunks: delete, then insert.  An empty knowledge_id deletes everything, which
\* only the synchronisation asks for: the handlers bind the field as required (service.go:95).
Replaced(a) ==
    (IF op[a].kind = "sync" THEN {} ELSE chunks \ ChunksFor(op[a].doc.kid)) \cup Fresh(op[a].items)

\* The transaction commits as a whole or not at all; without chunks there is nothing to index.
ReplaceChunks(a) ==
    /\ pc[a] = "replace_chunks"
    /\ \/ /\ chunks' = Replaced(a)
          /\ \/ /\ op' = [op EXCEPT ![a].todo = op[a].items]
                /\ Continue(a, IF op[a].items = {} THEN "clear_cache" ELSE "upsert_vectors")
             \/ Abandon(a)
       \/ UNCHANGED chunks /\ Abandon(a)
    /\ UNCHANGED <<rows, versions, vectors, keywords>>

\* An answer of the vector service: what it lists goes into vectorIDs.
VectorsAnswered(o, batch, listed) ==
    [o EXCEPT !.todo = o.todo \ batch, !.listed = o.listed \cup listed,
              !.covered = o.covered /\ listed = batch]

\* An answer of the keyword service: nobody looks at what it lists.
KeywordsAnswered(o, batch, taken) ==
    [o EXCEPT !.todo = o.todo \ batch, !.covered = o.covered /\ taken = batch]

\* UpsertVectors, batch by batch: the service has taken some of the batch, whether it answers or
\* not, and its answer lists some of what it has taken.
UpsertVectors(a) ==
    /\ pc[a] = "upsert_vectors"
    /\ \E batch \in SUBSET op[a].todo : \E taken \in SUBSET batch :
        /\ IsBatch(batch, op[a].todo, VectorBatch)
        /\ vectors' = Upsert(vectors, taken)
        /\ \/ \E listed \in SUBSET taken :
                LET stage == IF op[a].todo = batch THEN "backfill" ELSE "upsert_vectors"
                IN  /\ op' = [op EXCEPT ![a] = VectorsAnswered(op[a], batch, listed)]
                    /\ \/ listed = batch /\ Continue(a, stage)
                       \/ listed # batch /\ ContinueShort(a, stage)
           \/ Abandon(a)
    /\ UNCHANGED <<rows, versions, chunks, keywords>>

\* Mutant: every chunk that was sent is given a vector id, listed or not.
Backfill_AllItems(a) ==
    /\ pc[a] = "backfill"
    /\ \/ /\ chunks' = { [c EXCEPT !.vector = c.vector \/ \E i \in op[a].items : i.id = c.id]
                         : c \in chunks }
          /\ \/ /\ op' = [op EXCEPT ![a].todo = op[a].items]
                /\ Continue(a, "upsert_keywords")
             \/ op[a].listed # {} /\ Abandon(a)
       \/ op[a].listed # {} /\ UNCHANGED chunks /\ Abandon(a)
    /\ UNCHANGED <<rows, versions, vectors, keywords>>

\* UpdateKnowledgeChunkVectorIDs: one transaction, by chunk id; nothing to do without ids.
Backfill(a) ==
    /\ pc[a] = "backfill"
    /\ \/ /\ chunks' = { [c EXCEPT !.vector = c.vector \/ \E i \in op[a].listed : i.id = c.id]
                         : c \in chunks }
          /\ \/ /\ op' = [op EXCEPT ![a].todo = op[a].items]
                /\ Continue(a, "upsert_keywords")
             \/ op[a].listed # {} /\ Abandon(a)
       \/ op[a].listed # {} /\ UNCHANGED chunks /\ Abandon(a)
    /\ UNCHANGED <<rows, versions, vectors, keywords>>

\* UpsertKeywords, batch by batch.
UpsertKeywords(a) ==
    /\ pc[a] = "upsert_keywords"
    /\ \E batch \in SUBSET op[a].todo : \E taken \in SUBSET batch :
        /\ IsBatch(batch, op[a].todo, KeywordBatch)
        /\ keywords' = Upsert(keywords, taken)
        /\ \/ LET stage == IF op[a].todo = batch THEN "clear_cache" ELSE "upsert_keywords"
              IN  /\ op' = [op EXCEPT ![a] = KeywordsAnswered(op[a], batch, taken)]
                  /\ \/ taken = batch /\ Continue(a, stage)
                     \/ taken # batch /\ ContinueShort(a, stage)
           \/ Abandon(a)
    /\ UNCHANGED <<rows, versions, chunks, vectors>>

\* clearRAGCache ignores errors: the operation has succeeded.  What it clears is in RagSearch.
ClearCache(a) ==
    /\ pc[a] = "clear_cache"
    /\ Finish(a)
    /\ UNCHANGED <<rows, versions, indexVars>>

BeginSome(a) == Create(a) \/ Update(a) \/ Publish(a) \/ Rollback(a) \/ Sync(a)

OperationStep(a) ==
    \/ Read(a) \/ ListVersions(a) \/ WriteRow(a) \/ WriteVersion(a) \/ ListKnowledge(a)
    \/ ReplaceChunks(a) \/ UpsertVectors(a) \/ Backfill(a) \/ UpsertKeywords(a) \/ ClearCache(a)

Init ==
    /\ rows = {}
    /\ versions = {}
    /\ chunks = {}
    /\ vectors = {}
    /\ keywords = {}
    /\ pc = [a \in Admins |-> "idle"]
    /\ op = [a \in Admins |-> NoOperation]
    /\ operations = 0
    /\ failures = 0
    /\ settled = {}
    /\ covered = {}
    /\ recorded = {}

Next == \E a \in Admins : BeginSome(a) \/ OperationStep(a)

Spec == Init /\ [][Next]_vars

-----------------------------------------------------------------------------
(* Properties. *)

\* Types of all variables.
TypeOK ==
    /\ rows \in SUBSET Row
    /\ versions \in SUBSET Doc
    /\ chunks \in SUBSET Chunk
    /\ vectors \in SUBSET Item
    /\ keywords \in SUBSET Item
    /\ pc \in [Admins -> Stages]
    /\ op \in [Admins -> Operation]
    /\ operations \in Nat
    /\ failures \in Nat
    /\ settled \in SUBSET RowIds
    /\ covered \in SUBSET RowIds
    /\ recorded \in SUBSET RowIds

\* At every moment, whatever overlaps or fails, the chunks of a knowledge id are all the
\* chunks of one version of one content, or none: a reader of the table never sees a text
\* half replaced (the transaction of mysql_store.go:894-941).
ChunksAreWhole ==
    \A c \in chunks :
        \E doc \in Doc : { ItemOf(d) : d \in ChunksFor(c.id.kid) } = BuildChunks(doc)

\* "After Milvus has been written the vector_id is filled in, so that the back office can
\* tell from it whether a chunk is in the vector store" (mysql_store.go:981): no chunk has a
\* vector id that the vector store does not know, whichever call failed.
VectorIdMeansIndexed ==
    \A c \in chunks : c.vector => \E v \in vectors : v.id = c.id

\* What an operation promises when it returns without an error and nothing interfered
\* (service.go:671-734): the chunks of the row are those of its content if it is published and
\* none otherwise, and a chunk with a vector id is in the vector store with its present text.
\* That every chunk has its vector id and is in both indexes is promised only when every answer
\* covered its batch, since a shorter one is no error.  A synchronisation promises the same of
\* every row, whatever went wrong before.
SettledIsComplete ==
    \A r \in rows : r.id \in settled =>
        LET items == ChunksOf(r.doc)
            mine == ChunksFor(r.doc.kid)
        IN  /\ { ItemOf(c) : c \in mine } = items
            /\ \A c \in mine : c.vector => ItemOf(c) \in vectors
            /\ r.id \in covered => (\A c \in mine : c.vector) /\ items \subseteq vectors \cap keywords

\* A row whose last writer succeeded undisturbed is in the history as it is, so that a later
\* change of it can be rolled back (mysql_store.go:736-739, 774-776, 880-882).
RowsAreInHistory == \A r \in rows : r.id \in recorded => r.doc \in versions
=============================================================================
