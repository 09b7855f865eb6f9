----------------------- MODULE KnowledgeAdminTheorems -----------------------
(***************************************************************************)
(* The knowledge administration, for any number of operators, rows, texts  *)
(* and failures and any size of the batches: types, whole chunks, vector   *)
(* ids that are never ahead of the vector store, the history of the rows,  *)
(* and the rows that are completely indexed.                               *)
(***************************************************************************)
EXTENDS KnowledgeAdmin, TLAPS

-----------------------------------------------------------------------------
(* The records. *)

\* What an operator may write is a record of the knowledge.
LEMMA DocsAreRecords ==
    ASSUME NEW d \in Docs
    PROVE  d \in Doc
<1>1. /\ d.kid \in Kids /\ d.content \in Contents /\ d.version \in VersionLabels
      /\ d.status \in Statuses
  BY DocsAssumption DEF Kids, Contents, VersionLabels
<1> QED
  BY <1>1, DocsAssumption DEF Doc

LEMMA ItemsOfDoc ==
    ASSUME NEW doc \in Doc
    PROVE  /\ BuildChunks(doc) \subseteq Item
           /\ ChunksOf(doc) \subseteq Item
           /\ \A i \in BuildChunks(doc) : i.id.kid = doc.kid
           /\ ChunksOf(doc) \in {{}, BuildChunks(doc)}
<1>1. Pieces[doc.content] \in Nat
  BY PiecesAssumption DEF Doc
<1> QED
  BY <1>1 DEF Doc, BuildChunks, ChunksOf, Item, ChunkId, Text

LEMMA NoOperationType == NoOperation \in Operation
<1>1. (CHOOSE id \in RowIds : TRUE) \in RowIds /\ (CHOOSE d \in Docs : TRUE) \in Docs
  BY InstanceAssumption
<1> QED
  BY <1>1, DocsAreRecords DEF NoOperation, Operation, Kinds

-----------------------------------------------------------------------------
(* Types. *)

\* What taking note of each other changes: whether an operation is alone.
LEMMA NoticedOperations ==
    ASSUME TypeOK, NEW a \in Admins, NEW new \in Operation, op' = Noticed(a, new)
    PROVE  /\ op' \in [Admins -> Operation]
           /\ op'[a].kind = new.kind /\ op'[a].id = new.id /\ op'[a].doc = new.doc
           /\ op'[a].items = new.items /\ op'[a].todo = new.todo
           /\ op'[a].listed = new.listed /\ op'[a].covered = new.covered
           /\ op'[a].alone => new.alone /\ \A b \in Active : b # a => ~Clash(op[b], new)
           /\ \A b \in Admins : b # a =>
                /\ op'[b].kind = op[b].kind /\ op'[b].id = op[b].id /\ op'[b].doc = op[b].doc
                /\ op'[b].items = op[b].items /\ op'[b].todo = op[b].todo
                /\ op'[b].listed = op[b].listed /\ op'[b].covered = op[b].covered
                /\ op'[b].alone => op[b].alone /\ (b \in Active => ~Clash(op[b], new))
<1> DEFINE rivals == { b \in Active \ {a} : Clash(op[b], new) }
<1>1. op' = [b \in Admins |-> IF b = a THEN [new EXCEPT !.alone = new.alone /\ rivals = {}]
                               ELSE IF b \in rivals THEN [op[b] EXCEPT !.alone = FALSE]
                               ELSE op[b]]
  BY DEF Noticed
<1>2. \A b \in Active : b # a /\ Clash(op[b], new) => b \in rivals
  OBVIOUS
<1>3. a \notin rivals
  OBVIOUS
<1> HIDE DEF rivals
<1>4. op'[a] = [new EXCEPT !.alone = new.alone /\ rivals = {}]
  BY <1>1
<1>5. \A b \in Admins : b # a =>
        op'[b] = IF b \in rivals THEN [op[b] EXCEPT !.alone = FALSE] ELSE op[b]
  BY <1>1
<1>6. /\ op'[a].kind = new.kind /\ op'[a].id = new.id /\ op'[a].doc = new.doc
      /\ op'[a].items = new.items /\ op'[a].todo = new.todo
      /\ op'[a].listed = new.listed /\ op'[a].covered = new.covered
      /\ op'[a].alone = (new.alone /\ rivals = {})
      /\ op'[a] \in Operation
  BY <1>4 DEF Operation
<1>7. ASSUME NEW b \in Admins, b # a
      PROVE  /\ op'[b].kind = op[b].kind /\ op'[b].id = op[b].id /\ op'[b].doc = op[b].doc
             /\ op'[b].items = op[b].items /\ op'[b].todo = op[b].todo
             /\ op'[b].listed = op[b].listed /\ op'[b].covered = op[b].covered
             /\ op'[b].alone => op[b].alone /\ b \notin rivals
             /\ op'[b] \in Operation
  <2>1. op[b] \in Operation
    BY DEF TypeOK
  <2>2. op'[b] = IF b \in rivals THEN [op[b] EXCEPT !.alone = FALSE] ELSE op[b]
    BY <1>5, <1>7
  <2> QED
    BY <2>1, <2>2 DEF Operation
<1>8. op' \in [Admins -> Operation]
  <2>1. \A b \in Admins : op'[b] \in Operation
    BY <1>6, <1>7
  <2> QED
    BY <1>1, <2>1
<1>9. op'[a].alone => new.alone /\ \A b \in Active : b # a => ~Clash(op[b], new)
  BY <1>2, <1>6
<1>10. ASSUME NEW b \in Admins, b # a, op'[b].alone
       PROVE  op[b].alone /\ (b \in Active => ~Clash(op[b], new))
  BY <1>2, <1>7, <1>10
<1> QED
  BY <1>6, <1>7, <1>8, <1>9, <1>10

LEMMA BeginType ==
    ASSUME TypeOK, NEW a \in Admins, NEW kind \in Kinds, NEW id \in RowIds, NEW doc \in Doc,
           NEW stage \in Stages, Begin(a, kind, id, doc, stage)
    PROVE  TypeOK'
<1> DEFINE new == [kind |-> kind, id |-> id, doc |-> doc, items |-> {}, todo |-> {},
                   listed |-> {}, alone |-> TRUE, covered |-> TRUE]
<1>1. new \in Operation
  BY DEF Operation
<1>3. op' = Noticed(a, new)
  BY DEF Begin
<1> HIDE DEF new
<1>4. op' \in [Admins -> Operation]
  BY <1>1, <1>3, NoticedOperations
<1>5. recorded' \in SUBSET RowIds /\ settled' \in SUBSET RowIds /\ covered' \in SUBSET RowIds
  BY DEF Begin, TypeOK
<1>6. /\ rows' = rows /\ versions' = versions /\ chunks' = chunks
      /\ vectors' = vectors /\ keywords' = keywords
      /\ pc' = [pc EXCEPT ![a] = stage] /\ operations' = operations + 1 /\ failures' = failures
  BY DEF Begin, indexVars
<1>7. pc' \in [Admins -> Stages] /\ operations' \in Nat /\ failures' \in Nat
  BY <1>6 DEF TypeOK
<1> QED
  BY <1>4, <1>5, <1>6, <1>7 DEF TypeOK

\* The operations, and the call each begins with.
LEMMA BeginShape ==
    ASSUME TypeOK, NEW a \in Admins, BeginSome(a)
    PROVE  \E kind \in Kinds, id \in RowIds, doc \in Doc, stage \in Stages :
             /\ Begin(a, kind, id, doc, stage)
             /\ \/ kind \in {"create", "update"} /\ stage = "write_row"
                \/ /\ kind \in {"publish", "rollback"} /\ stage = "read"
                   /\ \E r \in rows : r.id = id /\ r.doc = doc
                \/ kind = "sync" /\ stage = "list_knowledge"
<1>1. \A r \in rows : r.id \in RowIds /\ r.doc \in Doc
  BY DEF TypeOK, Row
<1>2. {"create", "update", "publish", "rollback", "sync"} \subseteq Kinds
      /\ {"read", "write_row", "list_knowledge"} \subseteq Stages
  BY DEF Kinds, Stages
<1>3. CASE Create(a)
  <2>1. PICK id \in RowIds, doc \in Docs : Begin(a, "create", id, doc, "write_row")
    BY <1>3 DEF Create
  <2> QED
    BY <2>1, <1>2, DocsAreRecords
<1>4. CASE Update(a)
  <2>1. PICK r \in rows, doc \in Docs : Begin(a, "update", r.id, doc, "write_row")
    BY <1>4 DEF Update
  <2> QED
    BY <2>1, <1>1, <1>2, DocsAreRecords
<1>5. CASE Publish(a)
  BY <1>5, <1>1, <1>2 DEF Publish
<1>6. CASE Rollback(a)
  BY <1>6, <1>1, <1>2 DEF Rollback
<1>7. CASE Sync(a)
  BY <1>7, <1>1, <1>2 DEF Sync
<1> QED
  BY <1>3, <1>4, <1>5, <1>6, <1>7 DEF BeginSome

\* An operation that has begun, and the others then.
LEMMA BegunOperation ==
    ASSUME TypeOK, NEW a \in Admins, NEW kind \in Kinds, NEW id \in RowIds, NEW doc \in Doc,
           NEW stage \in Stages, Begin(a, kind, id, doc, stage)
    PROVE  /\ pc[a] = "idle" /\ pc' = [pc EXCEPT ![a] = stage] /\ op' \in [Admins -> Operation]
           /\ op'[a].kind = kind /\ op'[a].id = id /\ op'[a].doc = doc
           /\ op'[a].items = {} /\ op'[a].todo = {} /\ op'[a].listed = {} /\ op'[a].covered
           /\ op'[a].alone => \A b \in Active : b # a =>
                /\ op[b].id # id /\ op[b].doc.kid # doc.kid
                /\ op[b].kind # "sync" /\ kind # "sync"
           /\ \A b \in Admins : b # a =>
                /\ op'[b].kind = op[b].kind /\ op'[b].id = op[b].id /\ op'[b].doc = op[b].doc
                /\ op'[b].items = op[b].items /\ op'[b].todo = op[b].todo
                /\ op'[b].listed = op[b].listed /\ op'[b].covered = op[b].covered
                /\ op'[b].alone => op[b].alone /\ (b \in Active =>
                     /\ op[b].id # id /\ op[b].doc.kid # doc.kid
                     /\ op[b].kind # "sync" /\ kind # "sync")
<1> DEFINE new == [kind |-> kind, id |-> id, doc |-> doc, items |-> {}, todo |-> {},
                   listed |-> {}, alone |-> TRUE, covered |-> TRUE]
<1>1. new \in Operation
  BY DEF Operation
<1>2. /\ new.kind = kind /\ new.id = id /\ new.doc = doc /\ new.items = {} /\ new.todo = {}
      /\ new.listed = {} /\ new.covered
  OBVIOUS
<1>3. op' = Noticed(a, new) /\ pc[a] = "idle" /\ pc' = [pc EXCEPT ![a] = stage]
  BY DEF Begin
<1> HIDE DEF new
<1>4. \A b \in Admins : ~Clash(op[b], new) =>
        /\ op[b].id # id /\ op[b].doc.kid # doc.kid /\ op[b].kind # "sync" /\ kind # "sync"
  BY <1>2 DEF Clash
<1>5. Active \subseteq Admins
  BY DEF Active
<1> QED
  BY <1>1, <1>2, <1>3, <1>4, <1>5, NoticedOperations

LEMMA BeginSomeType ==
    ASSUME TypeOK, NEW a \in Admins, BeginSome(a)
    PROVE  TypeOK'
  BY BeginShape, BeginType

\* The ways a call ends change no table and keep the types.
CourseTypes ==
    /\ pc' \in [Admins -> Stages] /\ operations' \in Nat /\ failures' \in Nat
    /\ settled' \in SUBSET RowIds /\ covered' \in SUBSET RowIds /\ recorded' \in SUBSET RowIds

LEMMA CourseType ==
    ASSUME TypeOK, NEW a \in Admins
    PROVE  /\ \A stage \in Stages : Continue(a, stage) \/ ContinueShort(a, stage) => CourseTypes
           /\ Abandon(a) => CourseTypes /\ op' \in [Admins -> Operation]
           /\ Finish(a) => CourseTypes /\ op' \in [Admins -> Operation]
<1>1. "idle" \in Stages /\ NoOperation \in Operation /\ op[a].id \in RowIds
  BY NoOperationType DEF Stages, TypeOK, Operation
<1>2. \A o : RowsTouched(o) \subseteq RowIds
  BY DEF TypeOK, Row, RowsTouched
<1>3. ASSUME NEW stage \in Stages, Continue(a, stage) PROVE CourseTypes
  BY <1>3 DEF Continue, TypeOK, CourseTypes
<1>4. ASSUME NEW stage \in Stages, ContinueShort(a, stage) PROVE CourseTypes
  BY <1>4 DEF ContinueShort, TypeOK, CourseTypes
<1>5. ASSUME Abandon(a) PROVE CourseTypes /\ op' \in [Admins -> Operation]
  BY <1>1, <1>5 DEF Abandon, TypeOK, CourseTypes
<1>6. ASSUME Finish(a) PROVE CourseTypes /\ op' \in [Admins -> Operation]
  <2>1. settled' \in SUBSET RowIds /\ covered' \in SUBSET RowIds
    BY <1>2, <1>6 DEF Finish, TypeOK
  <2>2. recorded' \in SUBSET RowIds /\ op' \in [Admins -> Operation]
    BY <1>1, <1>6 DEF Finish, TypeOK
  <2> QED
    BY <1>1, <1>6, <2>1, <2>2 DEF Finish, TypeOK, CourseTypes
<1> QED
  BY <1>3, <1>4, <1>5, <1>6

\* An operation that goes on changes its own record only.
LEMMA OpTypes ==
    ASSUME TypeOK, NEW a \in Admins
    PROVE  /\ op[a] \in Operation
           /\ \A doc \in Doc : [op[a] EXCEPT !.doc = doc] \in Operation
           /\ \A doc \in Doc : [op EXCEPT ![a].doc = doc] \in [Admins -> Operation]
           /\ \A items \in SUBSET Item : [op EXCEPT ![a].items = items] \in [Admins -> Operation]
           /\ \A todo \in SUBSET Item : [op EXCEPT ![a].todo = todo] \in [Admins -> Operation]
<1>1. op \in [Admins -> Operation]
  BY DEF TypeOK
<1>2. \A o \in Operation :
        /\ \A doc \in Doc : [o EXCEPT !.doc = doc] \in Operation
        /\ \A items \in SUBSET Item : [o EXCEPT !.items = items] \in Operation
        /\ \A todo \in SUBSET Item : [o EXCEPT !.todo = todo] \in Operation
  BY DEF Operation
<1> QED
  BY <1>1, <1>2

\* An answer changes the record of its own operation.
LEMMA VectorsAnswer ==
    ASSUME NEW o \in Operation, NEW batch \in SUBSET o.todo, NEW listed \in SUBSET batch
    PROVE  VectorsAnswered(o, batch, listed) \in Operation
  BY DEF Operation, VectorsAnswered

LEMMA AfterVectors ==
    ASSUME TypeOK, NEW a \in Admins, NEW batch \in SUBSET op[a].todo, NEW listed \in SUBSET batch,
           op' = [op EXCEPT ![a] = VectorsAnswered(op[a], batch, listed)]
    PROVE  /\ op' \in [Admins -> Operation]
           /\ op'[a] = VectorsAnswered(op[a], batch, listed)
  BY VectorsAnswer DEF TypeOK

LEMMA KeywordsAnswer ==
    ASSUME NEW o \in Operation, NEW batch \in SUBSET o.todo, NEW taken \in SUBSET batch
    PROVE  KeywordsAnswered(o, batch, taken) \in Operation
  BY DEF Operation, KeywordsAnswered

LEMMA AfterKeywords ==
    ASSUME TypeOK, NEW a \in Admins, NEW batch \in SUBSET op[a].todo, NEW taken \in SUBSET batch,
           op' = [op EXCEPT ![a] = KeywordsAnswered(op[a], batch, taken)]
    PROVE  /\ op' \in [Admins -> Operation]
           /\ op'[a] = KeywordsAnswered(op[a], batch, taken)
  BY KeywordsAnswer DEF TypeOK

\* A batch of vectors: what the store has taken, and where the operation goes on.
LEMMA VectorsStep ==
    ASSUME NEW a \in Admins, UpsertVectors(a)
    PROVE  \E batch \in SUBSET op[a].todo : \E taken \in SUBSET batch :
             /\ vectors' = Upsert(vectors, taken)
             /\ \/ Abandon(a)
                \/ \E listed \in SUBSET taken :
                     /\ op' = [op EXCEPT ![a] = VectorsAnswered(op[a], batch, listed)]
                     /\ pc' = [pc EXCEPT ![a] = IF op[a].todo = batch THEN "backfill"
                                                ELSE "upsert_vectors"]
                     /\ \E stage \in Stages : Continue(a, stage) \/ ContinueShort(a, stage)
<1>1. PICK batch \in SUBSET op[a].todo : \E taken \in SUBSET batch :
        /\ vectors' = Upsert(vectors, taken)
        /\ \/ Abandon(a)
           \/ \E listed \in SUBSET taken :
                LET stage == IF op[a].todo = batch THEN "backfill" ELSE "upsert_vectors"
                IN  /\ op' = [op EXCEPT ![a] = VectorsAnswered(op[a], batch, listed)]
                    /\ Continue(a, stage) \/ ContinueShort(a, stage)
  BY DEF UpsertVectors
<1>2. \A stage : Continue(a, stage) \/ ContinueShort(a, stage) => pc' = [pc EXCEPT ![a] = stage]
  BY DEF Continue, ContinueShort
<1>3. (IF op[a].todo = batch THEN "backfill" ELSE "upsert_vectors") \in Stages
  BY DEF Stages
<1> QED
  BY <1>1, <1>2, <1>3

\* The same of the keywords.
LEMMA KeywordsStep ==
    ASSUME NEW a \in Admins, UpsertKeywords(a)
    PROVE  \E batch \in SUBSET op[a].todo : \E taken \in SUBSET batch :
             /\ keywords' = Upsert(keywords, taken)
             /\ \/ Abandon(a)
                \/ /\ op' = [op EXCEPT ![a] = KeywordsAnswered(op[a], batch, taken)]
                   /\ pc' = [pc EXCEPT ![a] = IF op[a].todo = batch THEN "clear_cache"
                                              ELSE "upsert_keywords"]
                   /\ \E stage \in Stages : Continue(a, stage) \/ ContinueShort(a, stage)
<1>1. PICK batch \in SUBSET op[a].todo : \E taken \in SUBSET batch :
        /\ keywords' = Upsert(keywords, taken)
        /\ \/ Abandon(a)
           \/ LET stage == IF op[a].todo = batch THEN "clear_cache" ELSE "upsert_keywords"
              IN  /\ op' = [op EXCEPT ![a] = KeywordsAnswered(op[a], batch, taken)]
                  /\ Continue(a, stage) \/ ContinueShort(a, stage)
  BY DEF UpsertKeywords
<1>2. \A stage : Continue(a, stage) \/ ContinueShort(a, stage) => pc' = [pc EXCEPT ![a] = stage]
  BY DEF Continue, ContinueShort
<1>3. (IF op[a].todo = batch THEN "clear_cache" ELSE "upsert_keywords") \in Stages
  BY DEF Stages
<1> QED
  BY <1>1, <1>2, <1>3

\* The same when the operation goes on.
LEMMA VectorsSent ==
    ASSUME NEW a \in Admins, UpsertVectors(a), ~Abandon(a)
    PROVE  \E batch \in SUBSET op[a].todo : \E taken \in SUBSET batch, listed \in SUBSET batch :
             /\ listed \subseteq taken /\ vectors' = Upsert(vectors, taken)
             /\ op' = [op EXCEPT ![a] = VectorsAnswered(op[a], batch, listed)]
             /\ pc' = [pc EXCEPT ![a] = IF op[a].todo = batch THEN "backfill" ELSE "upsert_vectors"]
<1>1. PICK batch \in SUBSET op[a].todo : \E taken \in SUBSET batch :
        /\ vectors' = Upsert(vectors, taken)
        /\ \/ Abandon(a)
           \/ \E listed \in SUBSET taken :
                /\ op' = [op EXCEPT ![a] = VectorsAnswered(op[a], batch, listed)]
                /\ pc' = [pc EXCEPT ![a] = IF op[a].todo = batch THEN "backfill"
                                           ELSE "upsert_vectors"]
                /\ \E stage \in Stages : Continue(a, stage) \/ ContinueShort(a, stage)
  BY VectorsStep
<1>2. PICK taken \in SUBSET batch :
        /\ vectors' = Upsert(vectors, taken)
        /\ \E listed \in SUBSET taken :
             /\ op' = [op EXCEPT ![a] = VectorsAnswered(op[a], batch, listed)]
             /\ pc' = [pc EXCEPT ![a] = IF op[a].todo = batch THEN "backfill" ELSE "upsert_vectors"]
  BY <1>1
<1>3. PICK listed \in SUBSET taken :
        /\ op' = [op EXCEPT ![a] = VectorsAnswered(op[a], batch, listed)]
        /\ pc' = [pc EXCEPT ![a] = IF op[a].todo = batch THEN "backfill" ELSE "upsert_vectors"]
  BY <1>2
<1>4. listed \in SUBSET batch /\ listed \subseteq taken
  OBVIOUS
<1> QED
  BY <1>2, <1>3, <1>4

LEMMA KeywordsSent ==
    ASSUME NEW a \in Admins, UpsertKeywords(a), ~Abandon(a)
    PROVE  \E batch \in SUBSET op[a].todo : \E taken \in SUBSET batch :
             /\ keywords' = Upsert(keywords, taken)
             /\ op' = [op EXCEPT ![a] = KeywordsAnswered(op[a], batch, taken)]
             /\ pc' = [pc EXCEPT ![a] = IF op[a].todo = batch THEN "clear_cache"
                                        ELSE "upsert_keywords"]
<1>1. PICK batch \in SUBSET op[a].todo : \E taken \in SUBSET batch :
        /\ keywords' = Upsert(keywords, taken)
        /\ \/ Abandon(a)
           \/ /\ op' = [op EXCEPT ![a] = KeywordsAnswered(op[a], batch, taken)]
              /\ pc' = [pc EXCEPT ![a] = IF op[a].todo = batch THEN "clear_cache"
                                         ELSE "upsert_keywords"]
              /\ \E stage \in Stages : Continue(a, stage) \/ ContinueShort(a, stage)
  BY KeywordsStep
<1> QED
  BY <1>1

LEMMA OperationType ==
    ASSUME TypeOK, NEW a \in Admins, OperationStep(a)
    PROVE  TypeOK'
<1>1. /\ rows \in SUBSET Row /\ versions \in SUBSET Doc /\ chunks \in SUBSET Chunk
      /\ vectors \in SUBSET Item /\ keywords \in SUBSET Item
      /\ op[a] \in Operation /\ op[a].id \in RowIds /\ op[a].doc \in Doc
      /\ op[a].items \in SUBSET Item /\ op[a].todo \in SUBSET Item
      /\ op \in [Admins -> Operation]
  BY OpTypes DEF TypeOK, Operation
<1>2. {"write_row", "list_versions", "write_version", "replace_chunks", "clear_cache",
       "upsert_vectors", "backfill", "upsert_keywords", "idle"} \subseteq Stages
  BY DEF Stages
<1>3. CASE Read(a)
  <2>1. \A r \in rows : AsRead(a, r.doc) \in Doc
    BY <1>1 DEF AsRead, Row, Doc, Statuses
  <2>2. rows' = rows /\ versions' = versions /\ UNCHANGED indexVars
    BY <1>3 DEF Read
  <2>3. CASE Abandon(a)
    BY <2>2, <2>3, <1>1, CourseType DEF CourseTypes, TypeOK, indexVars
  <2>4. CASE ~Abandon(a)
    <3>1. PICK r \in rows :
            /\ op' = Noticed(a, [op[a] EXCEPT !.doc = AsRead(a, r.doc)])
            /\ Continue(a, IF op[a].kind = "publish" THEN "write_row" ELSE "list_versions")
      BY <2>4, <1>3 DEF Read
    <3>2. op' \in [Admins -> Operation]
      BY <3>1, <2>1, OpTypes, NoticedOperations
    <3> QED
      BY <3>1, <3>2, <2>2, <1>1, <1>2, CourseType DEF CourseTypes, TypeOK, indexVars
  <2> QED
    BY <2>3, <2>4
<1>4. CASE ListVersions(a)
  <2>2. rows' = rows /\ versions' = versions /\ UNCHANGED indexVars
    BY <1>4 DEF ListVersions
  <2>3. CASE Abandon(a)
    BY <2>2, <2>3, <1>1, CourseType DEF CourseTypes, TypeOK, indexVars
  <2>4. CASE ~Abandon(a)
    <3>1. PICK v \in versions : op' = [op EXCEPT ![a].doc = v] /\ Continue(a, "write_row")
      BY <2>4, <1>4 DEF ListVersions
    <3>2. op' \in [Admins -> Operation]
      BY <3>1, <1>1, OpTypes
    <3> QED
      BY <3>1, <3>2, <2>2, <1>1, <1>2, CourseType DEF CourseTypes, TypeOK, indexVars
  <2> QED
    BY <2>3, <2>4
<1>5. CASE WriteRow(a)
  <2>1. Written(a) \in SUBSET Row
    <3>1. \A r \in rows : [r EXCEPT !.doc.status = "published"] \in Row
      BY <1>1 DEF Row, Doc, Statuses
    <3> QED
      BY <3>1, <1>1 DEF Written, RowsWith, Row
  <2>2. rows' \in SUBSET Row /\ versions' = versions /\ UNCHANGED indexVars
    BY <1>5, <1>1, <2>1 DEF WriteRow
  <2>3. \/ Abandon(a)
        \/ Continue(a, "write_version") /\ op' = op
        \/ pc' = [pc EXCEPT ![a] = "idle"] /\ op' = [op EXCEPT ![a] = NoOperation]
           /\ UNCHANGED <<operations, failures, settled, covered, recorded>>
    BY <1>5 DEF WriteRow
  <2>4. CASE Abandon(a)
    BY <2>2, <2>4, <1>1, CourseType DEF CourseTypes, TypeOK, indexVars
  <2>5. CASE Continue(a, "write_version") /\ op' = op
    BY <2>2, <2>5, <1>1, <1>2, CourseType DEF CourseTypes, TypeOK, indexVars
  <2>6. CASE pc' = [pc EXCEPT ![a] = "idle"] /\ op' = [op EXCEPT ![a] = NoOperation]
             /\ UNCHANGED <<operations, failures, settled, covered, recorded>>
    <3>1. pc' \in [Admins -> Stages] /\ op' \in [Admins -> Operation]
      BY <2>6, <1>2, NoOperationType DEF TypeOK
    <3> QED
      BY <2>2, <2>6, <3>1, <1>1 DEF TypeOK, indexVars
  <2> QED
    BY <2>3, <2>4, <2>5, <2>6
<1>6. CASE WriteVersion(a)
  <2>1. versions' \in SUBSET Doc /\ rows' = rows /\ UNCHANGED indexVars
    BY <1>6, <1>1 DEF WriteVersion
  <2>2. [op EXCEPT ![a].items = ChunksOf(op[a].doc)] \in [Admins -> Operation]
    BY <1>1, ItemsOfDoc, OpTypes
  <2>3. \/ Abandon(a)
        \/ op' = [op EXCEPT ![a].items = ChunksOf(op[a].doc)] /\ Continue(a, "replace_chunks")
    BY <1>6 DEF WriteVersion
  <2> QED
    BY <2>1, <2>2, <2>3, <1>1, <1>2, CourseType DEF CourseTypes, TypeOK, indexVars
<1>7. CASE ListKnowledge(a)
  <2>1. versions' = versions /\ rows' = rows /\ UNCHANGED indexVars
    BY <1>7 DEF ListKnowledge
  <2>2. UNION { ChunksOf(r.doc) : r \in rows } \in SUBSET Item
    BY <1>1, ItemsOfDoc DEF Row
  <2>3. [op EXCEPT ![a].items = UNION { ChunksOf(r.doc) : r \in rows }] \in [Admins -> Operation]
    BY <2>2, OpTypes
  <2>4. \/ Abandon(a)
        \/ /\ op' = [op EXCEPT ![a].items = UNION { ChunksOf(r.doc) : r \in rows }]
           /\ Continue(a, "replace_chunks")
    BY <1>7 DEF ListKnowledge
  <2> QED
    BY <2>1, <2>3, <2>4, <1>1, <1>2, CourseType DEF CourseTypes, TypeOK, indexVars
<1>8. CASE ReplaceChunks(a)
  <2>0. Fresh(op[a].items) \in SUBSET Chunk
    <3>1. \A i \in op[a].items : [id |-> i.id, text |-> i.text, vector |-> FALSE] \in Chunk
      BY <1>1 DEF Chunk, Item
    <3> QED
      BY <3>1 DEF Fresh
  <2>1. Replaced(a) \in SUBSET Chunk
    BY <1>1, <2>0 DEF Replaced
  <2>2. chunks' \in SUBSET Chunk /\ UNCHANGED <<rows, versions, vectors, keywords>>
    BY <1>8, <1>1, <2>1 DEF ReplaceChunks
  <2>3. \/ Abandon(a)
        \/ /\ op' = [op EXCEPT ![a].todo = op[a].items]
           /\ Continue(a, IF op[a].items = {} THEN "clear_cache" ELSE "upsert_vectors")
    BY <1>8 DEF ReplaceChunks
  <2>4. [op EXCEPT ![a].todo = op[a].items] \in [Admins -> Operation]
    BY <1>1, OpTypes
  <2> QED
    BY <2>2, <2>3, <2>4, <1>1, <1>2, CourseType DEF CourseTypes, TypeOK
<1>9. CASE UpsertVectors(a)
  <2>1. PICK batch \in SUBSET op[a].todo : \E taken \in SUBSET batch :
          /\ vectors' = Upsert(vectors, taken)
          /\ \/ Abandon(a)
             \/ \E listed \in SUBSET taken :
                  /\ op' = [op EXCEPT ![a] = VectorsAnswered(op[a], batch, listed)]
                  /\ \E stage \in Stages : Continue(a, stage) \/ ContinueShort(a, stage)
    BY <1>9, VectorsStep
  <2>2. vectors' \in SUBSET Item /\ UNCHANGED <<rows, versions, chunks, keywords>>
    BY <2>1, <1>1, <1>9 DEF UpsertVectors, Upsert
  <2>3. CASE Abandon(a)
    BY <2>2, <2>3, <1>1, CourseType DEF CourseTypes, TypeOK
  <2>4. CASE ~Abandon(a)
    <3>1. CourseTypes
      BY <2>1, <2>4, <1>2, CourseType
    <3>2. op' \in [Admins -> Operation]
      <4>1. PICK listed \in SUBSET batch : op' = [op EXCEPT ![a] = VectorsAnswered(op[a], batch, listed)]
        BY <2>1, <2>4
      <4> QED
        BY <4>1, AfterVectors
    <3> QED
      BY <2>2, <3>1, <3>2, <1>1 DEF CourseTypes, TypeOK
  <2> QED
    BY <2>3, <2>4
<1>10. CASE Backfill(a)
  <2>1. { [c EXCEPT !.vector = c.vector \/ \E i \in op[a].listed : i.id = c.id] : c \in chunks }
          \in SUBSET Chunk
    BY <1>1 DEF Chunk
  <2>2. chunks' \in SUBSET Chunk /\ UNCHANGED <<rows, versions, vectors, keywords>>
    BY <1>10, <1>1, <2>1 DEF Backfill
  <2>3. \/ Abandon(a)
        \/ op' = [op EXCEPT ![a].todo = op[a].items] /\ Continue(a, "upsert_keywords")
    BY <1>10 DEF Backfill
  <2>4. [op EXCEPT ![a].todo = op[a].items] \in [Admins -> Operation]
    BY <1>1, OpTypes
  <2> QED
    BY <2>2, <2>3, <2>4, <1>1, <1>2, CourseType DEF CourseTypes, TypeOK
<1>11. CASE UpsertKeywords(a)
  <2>1. PICK batch \in SUBSET op[a].todo : \E taken \in SUBSET batch :
          /\ keywords' = Upsert(keywords, taken)
          /\ \/ Abandon(a)
             \/ /\ op' = [op EXCEPT ![a] = KeywordsAnswered(op[a], batch, taken)]
                /\ \E stage \in Stages : Continue(a, stage) \/ ContinueShort(a, stage)
    BY <1>11, KeywordsStep
  <2>2. keywords' \in SUBSET Item /\ UNCHANGED <<rows, versions, chunks, vectors>>
    BY <2>1, <1>1, <1>11 DEF UpsertKeywords, Upsert
  <2>3. CASE Abandon(a)
    BY <2>2, <2>3, <1>1, CourseType DEF CourseTypes, TypeOK
  <2>4. CASE ~Abandon(a)
    <3>1. CourseTypes
      BY <2>1, <2>4, <1>2, CourseType
    <3>2. op' \in [Admins -> Operation]
      <4>1. PICK taken \in SUBSET batch : op' = [op EXCEPT ![a] = KeywordsAnswered(op[a], batch, taken)]
        BY <2>1, <2>4
      <4> QED
        BY <4>1, AfterKeywords
    <3> QED
      BY <2>2, <3>1, <3>2, <1>1 DEF CourseTypes, TypeOK
  <2> QED
    BY <2>3, <2>4
<1>12. CASE ClearCache(a)
  BY <1>12, <1>1, CourseType DEF CourseTypes, ClearCache, TypeOK, indexVars
<1> QED
  BY <1>3, <1>4, <1>5, <1>6, <1>7, <1>8, <1>9, <1>10, <1>11, <1>12 DEF OperationStep

LEMMA TypeStep == TypeOK /\ [Next]_vars => TypeOK'
<1>1. ASSUME TypeOK, UNCHANGED vars PROVE TypeOK'
  BY <1>1 DEF TypeOK, vars, indexVars, adminVars
<1> QED
  BY <1>1, BeginSomeType, OperationType DEF Next

LEMMA TypeInit == Init => TypeOK
  BY NoOperationType DEF Init, TypeOK, Stages

\* Types of the knowledge tables, the indexes and the running operations.
THEOREM TypesHold == Spec => []TypeOK
  BY TypeInit, TypeStep, PTL DEF Spec

-----------------------------------------------------------------------------
(* Keys. *)

\* An id and a knowledge id each name one row.
KeysInv == \A r, s \in rows : r.id = s.id \/ r.doc.kid = s.doc.kid => r = s

LEMMA KeysStep == TypeOK /\ KeysInv /\ [Next]_vars => KeysInv'
<1> SUFFICES ASSUME TypeOK, KeysInv, [Next]_vars PROVE KeysInv'
  OBVIOUS
<1>1. CASE UNCHANGED rows
  BY <1>1 DEF KeysInv
<1>2. ASSUME NEW a \in Admins, WriteRow(a), rows' # rows PROVE KeysInv'
  <2>1. rows' = Written(a) /\ (op[a].kind # "publish" => Available(op[a].doc.kid, op[a].id))
    BY <1>2 DEF WriteRow
  <2>2. \A r \in rows : r.doc \in Doc /\ r \in Row
    BY DEF TypeOK, Row
  <2>3. CASE op[a].kind = "publish"
    <3> DEFINE Published(r) == IF r.id = op[a].id THEN [r EXCEPT !.doc.status = "published"] ELSE r
    <3>1. \A r \in rows : Published(r).id = r.id /\ Published(r).doc.kid = r.doc.kid
      BY <2>2 DEF Row, Doc
    <3>2. rows' = { Published(r) : r \in rows }
      BY <2>1, <2>3 DEF Written
    <3>3. ASSUME NEW r \in rows, NEW s \in rows,
                 Published(r).id = Published(s).id \/ Published(r).doc.kid = Published(s).doc.kid
          PROVE  Published(r) = Published(s)
      BY <3>1, <3>3 DEF KeysInv
    <3>4. \A x \in rows' : \E r \in rows : x = Published(r)
      BY <3>2
    <3> HIDE DEF Published
    <3> QED
      BY <3>3, <3>4 DEF KeysInv
  <2>4. CASE op[a].kind # "publish"
    BY <2>1, <2>4, <2>2 DEF Written, RowsWith, Available, KeysInv
  <2> QED
    BY <2>3, <2>4
<1>3. rows' = rows \/ \E a \in Admins : WriteRow(a)
  BY ZenonT(40) DEF Next, BeginSome, Create, Update, Publish, Rollback, Sync, Begin, OperationStep, Read,
         ListVersions, WriteVersion, ListKnowledge, ReplaceChunks, UpsertVectors, Backfill,
         UpsertKeywords, ClearCache, vars
<1> QED
  BY <1>1, <1>2, <1>3

-----------------------------------------------------------------------------
(* The chunks and the vector ids. *)

\* For each knowledge id, all the chunks of one version of one content, or none.
WholeSets(items) ==
    \A i \in items : \E doc \in Doc : { j \in items : j.id.kid = i.id.kid } = BuildChunks(doc)

Known(id) == \E v \in vectors : v.id = id

\* What an operation is about to write is whole, and of its own knowledge id unless it
\* synchronises; what the vector store has listed is there.
WorkInv ==
    \A a \in Admins :
        /\ pc[a] = "list_knowledge" => op[a].kind = "sync"
        /\ pc[a] = "replace_chunks" =>
             /\ WholeSets(op[a].items)
             /\ op[a].kind # "sync" => \A i \in op[a].items : i.id.kid = op[a].doc.kid
        /\ \A i \in op[a].listed : Known(i.id)

AdminInv == TypeOK /\ KeysInv /\ WorkInv /\ ChunksAreWhole /\ VectorIdMeansIndexed

LEMMA BuildChunksWhole == ASSUME NEW doc \in Doc PROVE WholeSets(ChunksOf(doc))
  BY ItemsOfDoc DEF WholeSets

LEMMA ListingWhole ==
    ASSUME TypeOK, KeysInv
    PROVE  WholeSets(UNION { ChunksOf(r.doc) : r \in rows })
<1> DEFINE all == UNION { ChunksOf(r.doc) : r \in rows }
<1>1. \A r \in rows : r.doc \in Doc
  BY DEF TypeOK, Row
<1>2. ASSUME NEW i \in all
      PROVE  \E doc \in Doc : { j \in all : j.id.kid = i.id.kid } = BuildChunks(doc)
  <2>1. PICK r \in rows : i \in ChunksOf(r.doc)
    OBVIOUS
  <2>2. ChunksOf(r.doc) = BuildChunks(r.doc) /\ i.id.kid = r.doc.kid
        /\ \A j \in BuildChunks(r.doc) : j.id.kid = r.doc.kid
    BY <2>1, <1>1, ItemsOfDoc
  <2>3. ASSUME NEW j \in all, j.id.kid = i.id.kid PROVE j \in BuildChunks(r.doc)
    <3>1. PICK s \in rows : j \in ChunksOf(s.doc)
      OBVIOUS
    <3>2. j.id.kid = s.doc.kid
      BY <3>1, <1>1, ItemsOfDoc
    <3>3. s = r
      BY <3>2, <2>2, <2>3 DEF KeysInv
    <3> QED
      BY <3>1, <3>3, <2>2
  <2>4. \A j \in BuildChunks(r.doc) : j \in all
    BY <2>2
  <2>5. { j \in all : j.id.kid = i.id.kid } = BuildChunks(r.doc)
    BY <2>2, <2>3, <2>4
  <2> QED
    BY <2>5, <1>1
<1> QED
  BY <1>2 DEF WholeSets

\* Sending a batch forgets no id.
LEMMA UpsertKnows ==
    ASSUME TypeOK, NEW batch, vectors' = Upsert(vectors, batch)
    PROVE  /\ \A id : Known(id) => Known(id)'
           /\ \A i \in batch : Known(i.id)'
  BY DEF Known, Upsert

\* The vector store only learns ids.
LEMMA KnowledgeGrows ==
    ASSUME TypeOK, [Next]_vars
    PROVE  \A id : Known(id) => Known(id)'
<1>1. CASE vectors' = vectors
  BY <1>1 DEF Known
<1>2. ASSUME NEW a \in Admins, UpsertVectors(a) PROVE \A id : Known(id) => Known(id)'
  <2>1. PICK taken : vectors' = Upsert(vectors, taken)
    BY <1>2 DEF UpsertVectors
  <2> QED
    BY <2>1, UpsertKnows
<1>3. vectors' = vectors \/ \E a \in Admins : UpsertVectors(a)
  BY ZenonT(40) DEF Next, BeginSome, Create, Update, Publish, Rollback, Sync, Begin, OperationStep, Read,
         ListVersions, WriteRow, WriteVersion, ListKnowledge, ReplaceChunks, Backfill,
         UpsertKeywords, ClearCache, vars, indexVars
<1> QED
  BY <1>1, <1>2, <1>3

\* The first call of an operation of each kind; it holds nothing yet.
LEMMA BegunKind ==
    ASSUME TypeOK, NEW a \in Admins, BeginSome(a)
    PROVE  /\ \/ pc'[a] = "write_row" /\ op'[a].kind \in {"create", "update"}
              \/ pc'[a] = "read" /\ op'[a].kind \in {"publish", "rollback"}
              \/ pc'[a] = "list_knowledge" /\ op'[a].kind = "sync"
           /\ op'[a].items = {} /\ op'[a].todo = {} /\ op'[a].listed = {}
<1>1. ASSUME NEW kind \in Kinds, NEW id \in RowIds, NEW doc \in Doc, NEW stage \in Stages,
             Begin(a, kind, id, doc, stage)
      PROVE  /\ pc'[a] = stage /\ op'[a].kind = kind
             /\ op'[a].items = {} /\ op'[a].todo = {} /\ op'[a].listed = {}
  <2>1. pc'[a] = stage
    BY <1>1 DEF Begin, TypeOK
  <2> QED
    BY <1>1, <2>1, BegunOperation
<1> QED
  BY <1>1, BeginShape

\* What an operation knows after it has read its row, and the others then.
LEMMA ReadOperation ==
    ASSUME TypeOK, NEW a \in Admins, Read(a), ~Abandon(a)
    PROVE  /\ pc[a] = "read" /\ op' \in [Admins -> Operation]
           /\ pc' = [pc EXCEPT ![a] = IF op[a].kind = "publish" THEN "write_row" ELSE "list_versions"]
           /\ op'[a].kind = op[a].kind /\ op'[a].id = op[a].id
           /\ op'[a].items = op[a].items /\ op'[a].todo = op[a].todo
           /\ op'[a].listed = op[a].listed /\ op'[a].covered = op[a].covered
           /\ \E r \in rows : r.id = op[a].id /\ op'[a].doc = AsRead(a, r.doc)
           /\ op'[a].alone => op[a].alone /\ \A b \in Active : b # a => op[b].doc.kid # op'[a].doc.kid
           /\ \A b \in Admins : b # a =>
                /\ op'[b].kind = op[b].kind /\ op'[b].id = op[b].id /\ op'[b].doc = op[b].doc
                /\ op'[b].items = op[b].items /\ op'[b].todo = op[b].todo
                /\ op'[b].listed = op[b].listed /\ op'[b].covered = op[b].covered
                /\ op'[b].alone =>
                     op[b].alone /\ (b \in Active => op[b].doc.kid # op'[a].doc.kid)
<1>1. PICK r \in rows :
        /\ r.id = op[a].id
        /\ op' = Noticed(a, [op[a] EXCEPT !.doc = AsRead(a, r.doc)])
        /\ Continue(a, IF op[a].kind = "publish" THEN "write_row" ELSE "list_versions")
  BY DEF Read
<1> DEFINE new == [op[a] EXCEPT !.doc = AsRead(a, r.doc)]
<1>2. AsRead(a, r.doc) \in Doc /\ op[a] \in Operation
  BY DEF TypeOK, AsRead, Row, Doc, Statuses
<1>3. /\ new \in Operation /\ new.kind = op[a].kind /\ new.id = op[a].id
      /\ new.doc = AsRead(a, r.doc) /\ new.items = op[a].items /\ new.todo = op[a].todo
      /\ new.alone = op[a].alone /\ new.listed = op[a].listed /\ new.covered = op[a].covered
  BY <1>2 DEF Operation
<1>4. op' = Noticed(a, new)
  BY <1>1
<1> HIDE DEF new
<1>5. \A b \in Admins : ~Clash(op[b], new) => op[b].doc.kid # new.doc.kid
  BY DEF Clash
<1>6. pc[a] = "read" /\ Active \subseteq Admins
      /\ pc' = [pc EXCEPT ![a] = IF op[a].kind = "publish" THEN "write_row" ELSE "list_versions"]
  BY <1>1 DEF Read, Active, Continue
<1>7. /\ op' \in [Admins -> Operation]
      /\ op'[a].kind = op[a].kind /\ op'[a].id = op[a].id
      /\ op'[a].items = op[a].items /\ op'[a].todo = op[a].todo
      /\ op'[a].listed = op[a].listed /\ op'[a].covered = op[a].covered
      /\ op'[a].doc = AsRead(a, r.doc) /\ op'[a].doc = new.doc
  BY <1>3, <1>4, NoticedOperations
<1>8. op'[a].alone => op[a].alone /\ \A b \in Active : b # a => op[b].doc.kid # op'[a].doc.kid
  BY <1>3, <1>4, <1>5, <1>6, <1>7, NoticedOperations
<1>9. ASSUME NEW b \in Admins, b # a
      PROVE  /\ op'[b].kind = op[b].kind /\ op'[b].id = op[b].id /\ op'[b].doc = op[b].doc
             /\ op'[b].items = op[b].items /\ op'[b].todo = op[b].todo
             /\ op'[b].listed = op[b].listed /\ op'[b].covered = op[b].covered
             /\ op'[b].alone =>
                  op[b].alone /\ (b \in Active => op[b].doc.kid # op'[a].doc.kid)
  BY <1>3, <1>4, <1>5, <1>7, <1>9, NoticedOperations
<1>10. \E q \in rows : q.id = op[a].id /\ op'[a].doc = AsRead(a, q.doc)
  BY <1>1, <1>7
<1> QED
  BY <1>6, <1>7, <1>8, <1>9, <1>10

\* A step of one operator leaves the work of the others alone.
LEMMA OthersKeepTheirWork ==
    ASSUME TypeOK, NEW a \in Admins, NEW b \in Admins, a # b, BeginSome(a) \/ OperationStep(a)
    PROVE  /\ pc'[b] = pc[b] /\ op'[b].kind = op[b].kind /\ op'[b].doc = op[b].doc
           /\ op'[b].items = op[b].items /\ op'[b].todo = op[b].todo
           /\ op'[b].listed = op[b].listed /\ op'[b].covered = op[b].covered
           /\ op'[b].id = op[b].id /\ (op'[b].alone => op[b].alone)
<1>1. pc \in [Admins -> Stages] /\ op \in [Admins -> Operation] /\ op[b] \in Operation
  BY DEF TypeOK
<1>2. CASE BeginSome(a)
  <2>1. PICK kind \in Kinds, id \in RowIds, doc \in Doc, stage \in Stages :
          Begin(a, kind, id, doc, stage)
    BY <1>2, BeginShape
  <2>2. pc'[b] = pc[b]
    BY <2>1, <1>1 DEF Begin
  <2>3. /\ op'[b].kind = op[b].kind /\ op'[b].id = op[b].id /\ op'[b].doc = op[b].doc
        /\ op'[b].items = op[b].items /\ op'[b].todo = op[b].todo
        /\ op'[b].listed = op[b].listed /\ op'[b].covered = op[b].covered
        /\ op'[b].alone => op[b].alone
    BY <2>1, BegunOperation
  <2> QED
    BY <2>2, <2>3
<1>3. CASE OperationStep(a)
  <2>1. \/ \E stage : pc' = [pc EXCEPT ![a] = stage]
        \/ Abandon(a) \/ Finish(a)
    BY <1>3 DEF OperationStep, Read, ListVersions, WriteRow, WriteVersion, ListKnowledge,
                ReplaceChunks, UpsertVectors, Backfill, UpsertKeywords, ClearCache, Continue,
                ContinueShort
  <2>2. pc'[b] = pc[b]
    BY <2>1, <1>1 DEF Abandon, Finish
  <2>3. CASE Abandon(a) \/ ~Read(a)
    <3>1. op'[b] = op[b]
      BY <1>3, <2>3, <1>1 DEF OperationStep, ListVersions, WriteRow, WriteVersion, ListKnowledge,
            ReplaceChunks, UpsertVectors, Backfill, UpsertKeywords, ClearCache, Abandon, Finish
    <3> QED
      BY <3>1, <2>2
  <2>4. CASE Read(a) /\ ~Abandon(a)
    BY <2>2, <2>4, ReadOperation
  <2> QED
    BY <2>3, <2>4
<1> QED
  BY <1>2, <1>3

\* An operation keeps its kind, its row id and, once it has read its row, its knowledge id.
LEMMA OwnCourse ==
    ASSUME TypeOK, NEW a \in Admins, OperationStep(a), pc'[a] # "idle"
    PROVE  /\ op'[a].kind = op[a].kind /\ op'[a].id = op[a].id
           /\ op'[a].alone => op[a].alone
           /\ ~Read(a) => op'[a].doc.kid = op[a].doc.kid
           /\ ~Read(a) /\ ~ListVersions(a) => op'[a].doc = op[a].doc
           /\ ~UpsertVectors(a) => op'[a].listed = op[a].listed
           /\ ~UpsertVectors(a) /\ ~UpsertKeywords(a) => op'[a].covered = op[a].covered
           /\ pc[a] # "idle"
<1>1. pc \in [Admins -> Stages] /\ op \in [Admins -> Operation] /\ op[a] \in Operation
  BY DEF TypeOK
<1>2. ~Abandon(a) /\ ~Finish(a) /\ pc' # [pc EXCEPT ![a] = "idle"]
  BY <1>1 DEF Abandon, Finish
<1>3. pc[a] # "idle"
  BY DEF OperationStep, Read, ListVersions, WriteRow, WriteVersion, ListKnowledge,
         ReplaceChunks, UpsertVectors, Backfill, UpsertKeywords, ClearCache
<1>4. CASE Read(a)
  BY <1>2, <1>3, <1>4, ReadOperation
<1>5. CASE ListVersions(a)
  <2>1. PICK v \in versions : v.kid = op[a].doc.kid /\ op' = [op EXCEPT ![a].doc = v]
    BY <1>2, <1>5 DEF ListVersions
  <2>2. op'[a] = [op[a] EXCEPT !.doc = v]
    BY <1>1, <2>1
  <2>3. op'[a].kind = op[a].kind /\ op'[a].id = op[a].id /\ op'[a].alone = op[a].alone
        /\ op'[a].doc = v /\ op'[a].listed = op[a].listed /\ op'[a].covered = op[a].covered
    BY <1>1, <2>2 DEF Operation
  <2> QED
    BY <1>3, <1>5, <2>1, <2>3
<1>6. CASE ~Read(a) /\ ~ListVersions(a) /\ ~UpsertVectors(a) /\ ~UpsertKeywords(a)
  <2>1. \/ op' = op
        \/ \E items : op' = [op EXCEPT ![a].items = items]
        \/ \E todo : op' = [op EXCEPT ![a].todo = todo]
    BY <1>2, <1>6 DEF OperationStep, WriteRow, WriteVersion, ListKnowledge,
          ReplaceChunks, Backfill, ClearCache
  <2> QED
    BY <1>1, <1>3, <1>6, <2>1 DEF Operation
<1>7. CASE UpsertVectors(a)
  <2>1. PICK batch \in SUBSET op[a].todo : \E listed \in SUBSET batch :
          op' = [op EXCEPT ![a] = VectorsAnswered(op[a], batch, listed)]
    BY <1>2, <1>7, VectorsStep
  <2>2. PICK listed \in SUBSET batch : op' = [op EXCEPT ![a] = VectorsAnswered(op[a], batch, listed)]
    BY <2>1
  <2> QED
    <3>1. op[a] \in Operation /\ op'[a] = VectorsAnswered(op[a], batch, listed)
      BY <2>2, AfterVectors DEF TypeOK
    <3> QED
      BY <1>3, <1>7, <3>1 DEF Operation, VectorsAnswered
<1>8. CASE UpsertKeywords(a) /\ ~UpsertVectors(a)
  <2>1. PICK batch \in SUBSET op[a].todo : \E taken \in SUBSET batch :
          op' = [op EXCEPT ![a] = KeywordsAnswered(op[a], batch, taken)]
    BY <1>2, <1>8, KeywordsStep
  <2>2. PICK taken \in SUBSET batch : op' = [op EXCEPT ![a] = KeywordsAnswered(op[a], batch, taken)]
    BY <2>1
  <2> QED
    <3>1. op[a] \in Operation /\ op'[a] = KeywordsAnswered(op[a], batch, taken)
      BY <2>2, AfterKeywords DEF TypeOK
    <3> QED
      BY <1>3, <1>8, <3>1 DEF Operation, KeywordsAnswered
<1> QED
  BY <1>4, <1>5, <1>6, <1>7, <1>8

\* An operation that is over holds nothing.
LEMMA EndedOperation ==
    ASSUME TypeOK, NEW a \in Admins, OperationStep(a), pc'[a] = "idle"
    PROVE  op'[a] = NoOperation
<1>1. pc \in [Admins -> Stages] /\ op \in [Admins -> Operation]
  BY DEF TypeOK
<1> QED
  BY <1>1 DEF OperationStep, Read, ListVersions, WriteRow, WriteVersion, ListKnowledge, ReplaceChunks,
        UpsertVectors, Backfill, UpsertKeywords, ClearCache, Continue, ContinueShort, Abandon, Finish

\* What has been listed has been put in the vector store.
LEMMA ListedStep ==
    ASSUME TypeOK, NEW a \in Admins, \A i \in op[a].listed : Known(i.id),
           BeginSome(a) \/ OperationStep(a)
    PROVE  \A i \in op'[a].listed : Known(i.id)'
<1>1. \A id : Known(id) => Known(id)'
  BY KnowledgeGrows DEF Next
<1>2. CASE BeginSome(a)
  BY <1>2, BegunKind
<1>3. CASE OperationStep(a) /\ pc'[a] = "idle"
  <2>1. op'[a] = NoOperation
    BY <1>3, EndedOperation
  <2>2. NoOperation.listed = {}
    BY DEF NoOperation
  <2> QED
    BY <2>1, <2>2
<1>4. CASE OperationStep(a) /\ pc'[a] # "idle" /\ ~UpsertVectors(a)
  BY <1>1, <1>4, OwnCourse
<1>5. CASE UpsertVectors(a) /\ pc'[a] # "idle"
  <2>1. ~Abandon(a)
    BY <1>5 DEF Abandon, TypeOK
  <2>2. PICK batch \in SUBSET op[a].todo : \E taken \in SUBSET batch, listed \in SUBSET batch :
          /\ listed \subseteq taken /\ vectors' = Upsert(vectors, taken)
          /\ op' = [op EXCEPT ![a] = VectorsAnswered(op[a], batch, listed)]
          /\ pc' = [pc EXCEPT ![a] = IF op[a].todo = batch THEN "backfill" ELSE "upsert_vectors"]
    BY <1>5, <2>1, VectorsSent
  <2>3. PICK listed \in SUBSET batch :
          /\ op' = [op EXCEPT ![a] = VectorsAnswered(op[a], batch, listed)]
          /\ \E taken \in SUBSET batch : listed \subseteq taken /\ vectors' = Upsert(vectors, taken)
    BY <2>2
  <2>4. op'[a].listed = op[a].listed \cup listed
    <3>1. op[a] \in Operation /\ op'[a] = VectorsAnswered(op[a], batch, listed)
      BY <2>3, AfterVectors DEF TypeOK
    <3> QED
      BY <3>1 DEF Operation, VectorsAnswered
  <2>5. PICK taken \in SUBSET batch : listed \subseteq taken /\ vectors' = Upsert(vectors, taken)
    BY <2>3
  <2>6. \A i \in taken : Known(i.id)'
    BY <2>5, UpsertKnows
  <2> QED
    BY <1>1, <2>4, <2>5, <2>6
<1> QED
  BY <1>2, <1>3, <1>4, <1>5

\* The work of the operator that moves.
WorkOf(a) ==
    /\ pc[a] = "list_knowledge" => op[a].kind = "sync"
    /\ pc[a] = "replace_chunks" =>
         /\ WholeSets(op[a].items)
         /\ op[a].kind # "sync" => \A i \in op[a].items : i.id.kid = op[a].doc.kid
    /\ \A i \in op[a].listed : Known(i.id)

LEMMA OwnWorkStep ==
    ASSUME TypeOK, KeysInv, NEW a \in Admins, WorkOf(a), BeginSome(a) \/ OperationStep(a)
    PROVE  WorkOf(a)'
<1>1. pc \in [Admins -> Stages] /\ op \in [Admins -> Operation] /\ op[a] \in Operation
      /\ op[a].doc \in Doc
  BY DEF TypeOK, Operation
<1>2. \A i \in op'[a].listed : Known(i.id)'
  BY ListedStep DEF WorkOf
<1>3. CASE BeginSome(a)
  <2>1. pc'[a] \in {"write_row", "read"} \/ (pc'[a] = "list_knowledge" /\ op'[a].kind = "sync")
    BY <1>3, BegunKind
  <2> QED
    BY <1>2, <2>1 DEF WorkOf
<1>4. CASE pc'[a] \notin {"list_knowledge", "replace_chunks"}
  BY <1>2, <1>4 DEF WorkOf
<1>5. CASE WriteVersion(a) /\ pc'[a] # "idle"
  <2>1. op' = [op EXCEPT ![a].items = ChunksOf(op[a].doc)] /\ pc' = [pc EXCEPT ![a] = "replace_chunks"]
    BY <1>5, <1>1 DEF WriteVersion, Abandon, Continue
  <2>2. op'[a].items = ChunksOf(op[a].doc) /\ op'[a].doc = op[a].doc /\ pc'[a] = "replace_chunks"
    BY <2>1, <1>1 DEF Operation
  <2>3. WholeSets(op'[a].items) /\ \A i \in op'[a].items : i.id.kid = op'[a].doc.kid
    BY <2>2, <1>1, BuildChunksWhole, ItemsOfDoc
  <2> QED
    BY <1>2, <2>2, <2>3 DEF WorkOf, WholeSets
<1>6. CASE ListKnowledge(a) /\ pc'[a] # "idle"
  <2>1. /\ op' = [op EXCEPT ![a].items = UNION { ChunksOf(r.doc) : r \in rows }]
        /\ pc' = [pc EXCEPT ![a] = "replace_chunks"] /\ pc[a] = "list_knowledge"
    BY <1>6, <1>1 DEF ListKnowledge, Abandon, Continue
  <2>2. op'[a].items = UNION { ChunksOf(r.doc) : r \in rows } /\ op'[a].kind = "sync"
        /\ pc'[a] = "replace_chunks"
    BY <2>1, <1>1 DEF Operation, WorkOf
  <2>3. WholeSets(op'[a].items)
    BY <2>2, ListingWhole
  <2> QED
    BY <1>2, <2>2, <2>3 DEF WorkOf, WholeSets
<1>7. CASE OperationStep(a)
  <2>1. \/ pc'[a] \notin {"list_knowledge", "replace_chunks"}
        \/ WriteVersion(a) \/ ListKnowledge(a)
    BY <1>7, <1>1 DEF OperationStep, Read, ListVersions, WriteRow, ReplaceChunks, UpsertVectors,
                      Backfill, UpsertKeywords, ClearCache, Continue, ContinueShort, Abandon, Finish
  <2> QED
    BY <2>1, <1>4, <1>5, <1>6
<1> QED
  BY <1>3, <1>7

LEMMA WorkStep == TypeOK /\ KeysInv /\ WorkInv /\ [Next]_vars => WorkInv'
<1> SUFFICES ASSUME TypeOK, KeysInv, WorkInv, [Next]_vars, NEW b \in Admins PROVE WorkOf(b)'
  BY DEF WorkInv, WorkOf
<1>1. WorkOf(b)
  BY DEF WorkInv, WorkOf
<1>2. CASE UNCHANGED vars
  BY <1>1, <1>2 DEF WorkOf, Known, WholeSets, vars, indexVars, adminVars
<1>3. ASSUME NEW a \in Admins, BeginSome(a) \/ OperationStep(a), a # b PROVE WorkOf(b)'
  <2>1. /\ pc'[b] = pc[b] /\ op'[b].kind = op[b].kind /\ op'[b].doc = op[b].doc
        /\ op'[b].items = op[b].items /\ op'[b].listed = op[b].listed
    BY <1>3, OthersKeepTheirWork
  <2>2. \A id : Known(id) => Known(id)'
    BY KnowledgeGrows
  <2> QED
    BY <1>1, <2>1, <2>2 DEF WorkOf, WholeSets
<1>4. CASE BeginSome(b) \/ OperationStep(b)
  BY <1>1, <1>4, OwnWorkStep
<1> QED
  BY <1>2, <1>3, <1>4 DEF Next

\* The chunks of a knowledge id, as items.
ItemsFor(kid) == { ItemOf(d) : d \in ChunksFor(kid) }

LEMMA WholeStep ==
    TypeOK /\ WorkInv /\ ChunksAreWhole /\ [Next]_vars => ChunksAreWhole'
<1> SUFFICES ASSUME TypeOK, WorkInv, ChunksAreWhole, [Next]_vars PROVE ChunksAreWhole'
  OBVIOUS
<1>0. chunks \in SUBSET Chunk
  BY DEF TypeOK
<1>1. CASE chunks' = chunks
  BY <1>1 DEF ChunksAreWhole, ChunksFor, ItemOf
<1>2. ASSUME NEW a \in Admins, ReplaceChunks(a), chunks' # chunks PROVE ChunksAreWhole'
  <2>1. chunks' = Replaced(a) /\ pc[a] = "replace_chunks"
    BY <1>2 DEF ReplaceChunks
  <2>2. /\ WholeSets(op[a].items)
        /\ op[a].kind # "sync" => \A i \in op[a].items : i.id.kid = op[a].doc.kid
        /\ op[a].items \in SUBSET Item
    BY <2>1 DEF WorkInv, TypeOK, Operation
  <2> DEFINE items == op[a].items
  <2>3. /\ \A i \in items : [id |-> i.id, text |-> i.text, vector |-> FALSE] \in Fresh(items)
        /\ \A c \in Fresh(items) : ItemOf(c) \in items /\ ItemOf(c).id = c.id
        /\ \A i \in items : i = ItemOf([id |-> i.id, text |-> i.text, vector |-> FALSE])
    <3>1. \A i \in items : i = [id |-> i.id, text |-> i.text]
      BY <2>2 DEF Item
    <3>2. \A i \in items : i = ItemOf([id |-> i.id, text |-> i.text, vector |-> FALSE])
      BY <3>1 DEF ItemOf
    <3> HIDE DEF items
    <3>3. \A c \in Fresh(items) :
            \E i \in items : c = [id |-> i.id, text |-> i.text, vector |-> FALSE]
      BY DEF Fresh
    <3>4. \A c \in Fresh(items) : ItemOf(c) \in items /\ ItemOf(c).id = c.id
      BY <3>2, <3>3 DEF ItemOf
    <3> QED
      BY <3>2, <3>4 DEF Fresh
  <2>4. SUFFICES ASSUME NEW c \in chunks'
                 PROVE  \E doc \in Doc : ItemsFor(c.id.kid)' = BuildChunks(doc)
    BY DEF ChunksAreWhole, ItemsFor
  <2>5. CASE c \in Fresh(items)
    <3>1. ItemOf(c) \in items /\ ItemOf(c).id = c.id
      BY <2>3, <2>5
    <3>2. PICK doc \in Doc : { j \in items : j.id.kid = c.id.kid } = BuildChunks(doc)
      BY <3>1, <2>2 DEF WholeSets
    <3>3. \A d \in chunks' : d.id.kid = c.id.kid => d \in Fresh(items)
      <4>1. op[a].kind = "sync" => chunks' = Fresh(items)
        BY <2>1 DEF Replaced
      <4>2. op[a].kind # "sync" => c.id.kid = op[a].doc.kid
        BY <3>1, <2>2
      <4> QED
        BY <4>1, <4>2, <2>1 DEF Replaced, ChunksFor
    <3>4. Fresh(items) \subseteq chunks'
      BY <2>1 DEF Replaced
    <3>5. ItemsFor(c.id.kid)' = { j \in items : j.id.kid = c.id.kid }
      <4>1. ASSUME NEW d \in chunks', d.id.kid = c.id.kid
            PROVE  ItemOf(d) \in items /\ ItemOf(d).id.kid = c.id.kid
        BY <3>3, <4>1, <2>3
      <4>2. ASSUME NEW j \in items, j.id.kid = c.id.kid
            PROVE  \E d \in chunks' : d.id.kid = c.id.kid /\ j = ItemOf(d)
        <5>1. [id |-> j.id, text |-> j.text, vector |-> FALSE] \in chunks'
          BY <2>3, <3>4
        <5> QED
          BY <5>1, <4>2, <2>3
      <4> QED
        BY <4>1, <4>2 DEF ItemsFor, ChunksFor, ItemOf
    <3> QED
      BY <3>2, <3>5
  <2>6. CASE c \notin Fresh(items)
    <3>1. op[a].kind # "sync" /\ c \in chunks /\ c.id.kid # op[a].doc.kid
      BY <2>6, <2>1 DEF Replaced, ChunksFor
    <3>2. ChunksFor(c.id.kid)' = ChunksFor(c.id.kid)
      <4>1. \A d \in Fresh(items) : d.id.kid = op[a].doc.kid
        BY <3>1, <2>2, <2>3
      <4> QED
        BY <3>1, <4>1, <2>1 DEF ChunksFor, Replaced
    <3> QED
      BY <3>1, <3>2 DEF ChunksAreWhole, ItemsFor
  <2> QED
    BY <2>5, <2>6
<1>3. ASSUME NEW a \in Admins, Backfill(a), chunks' # chunks PROVE ChunksAreWhole'
  <2> DEFINE Filled(c) == [c EXCEPT !.vector = c.vector \/ \E i \in op[a].listed : i.id = c.id]
  <2>1. chunks' = { Filled(c) : c \in chunks }
    BY <1>3 DEF Backfill
  <2>2. \A c \in chunks : Filled(c).id = c.id /\ Filled(c).text = c.text
    BY <1>0 DEF Chunk
  <2>3. \A x \in chunks' : \E c \in chunks : x = Filled(c)
    BY <2>1
  <2>4. \A c \in chunks : Filled(c) \in chunks'
    BY <2>1
  <2> HIDE DEF Filled
  <2>5. \A kid : ItemsFor(kid)' = ItemsFor(kid)
    BY <2>2, <2>3, <2>4 DEF ItemsFor, ChunksFor, ItemOf
  <2>6. \A x \in chunks' : \E c \in chunks : x.id = c.id
    BY <2>2, <2>3
  <2> QED
    BY <2>5, <2>6 DEF ChunksAreWhole, ItemsFor
<1>4. chunks' = chunks \/ \E a \in Admins : ReplaceChunks(a) \/ Backfill(a)
  BY ZenonT(40) DEF Next, BeginSome, Create, Update, Publish, Rollback, Sync, Begin, OperationStep, Read,
         ListVersions, WriteRow, WriteVersion, ListKnowledge, UpsertVectors,
         UpsertKeywords, ClearCache, vars, indexVars
<1> QED
  BY <1>1, <1>2, <1>3, <1>4

LEMMA VectorStep ==
    TypeOK /\ WorkInv /\ VectorIdMeansIndexed /\ [Next]_vars => VectorIdMeansIndexed'
<1> SUFFICES ASSUME TypeOK, WorkInv, VectorIdMeansIndexed, [Next]_vars,
                    NEW x \in chunks', x.vector
             PROVE  Known(x.id)'
  BY DEF VectorIdMeansIndexed, Known
<1>0. chunks \in SUBSET Chunk /\ \A id : Known(id) => Known(id)'
  BY KnowledgeGrows DEF TypeOK
<1>1. CASE x \in chunks
  BY <1>0, <1>1 DEF VectorIdMeansIndexed, Known
<1>2. ASSUME NEW a \in Admins, ReplaceChunks(a) PROVE x \in chunks
  BY <1>2 DEF ReplaceChunks, Replaced, Fresh
<1>3. ASSUME NEW a \in Admins, Backfill(a), x \notin chunks PROVE Known(x.id)'
  <2>1. PICK c \in chunks : x = [c EXCEPT !.vector = c.vector \/ \E i \in op[a].listed : i.id = c.id]
    BY <1>3 DEF Backfill
  <2>2. x.id = c.id /\ (c.vector \/ \E i \in op[a].listed : i.id = c.id)
    BY <2>1, <1>0 DEF Chunk
  <2>3. \A i \in op[a].listed : Known(i.id)
    BY DEF WorkInv
  <2> QED
    BY <2>2, <2>3, <1>0 DEF VectorIdMeansIndexed, Known
<1>4. chunks' = chunks \/ \E a \in Admins : ReplaceChunks(a) \/ Backfill(a)
  BY ZenonT(40) DEF Next, BeginSome, Create, Update, Publish, Rollback, Sync, Begin, OperationStep, Read,
         ListVersions, WriteRow, WriteVersion, ListKnowledge, UpsertVectors,
         UpsertKeywords, ClearCache, vars, indexVars
<1> QED
  BY <1>1, <1>2, <1>3, <1>4

-----------------------------------------------------------------------------
LEMMA AdminInvInit == Init => AdminInv
<1>1. Init => \A a \in Admins : pc[a] = "idle" /\ op[a].listed = {}
  BY DEF Init, NoOperation
<1> QED
  BY <1>1, TypeInit DEF Init, AdminInv, KeysInv, WorkInv, ChunksAreWhole, VectorIdMeansIndexed

LEMMA AdminInvAlways == Spec => []AdminInv
<1>1. AdminInv /\ [Next]_vars => AdminInv'
  BY TypeStep, KeysStep, WorkStep, WholeStep, VectorStep DEF AdminInv
<1> QED
  BY <1>1, AdminInvInit, PTL DEF Spec

\* Readers of the chunk table see one version of one content as a whole, whichever operations
\* overlap, fail or die in between (mysql_store.go:894-941).
THEOREM ChunksStayWhole == Spec => []ChunksAreWhole
<1>1. AdminInv => ChunksAreWhole
  BY DEF AdminInv
<1> QED
  BY <1>1, AdminInvAlways, PTL

\* A vector id says that the vector store knows the chunk id (mysql_store.go:981).
THEOREM VectorIdsAreTrue == Spec => []VectorIdMeansIndexed
<1>1. AdminInv => VectorIdMeansIndexed
  BY DEF AdminInv
<1> QED
  BY <1>1, AdminInvAlways, PTL

-----------------------------------------------------------------------------
(* The history. *)

Writer(a) == pc[a] # "idle" /\ op[a].kind # "sync"

\* Which operations make which calls.
CourseInv ==
    \A a \in Admins :
        /\ pc[a] \in {"read", "list_versions", "write_row", "write_version"} => op[a].kind # "sync"
        /\ pc[a] = "list_versions" => op[a].kind # "publish"
        /\ pc[a] = "list_knowledge" => op[a].kind = "sync"

\* An operation that overlapped no other it clashes with works on a row and a knowledge id
\* of its own.
AloneInv ==
    \A a, b \in Active :
        a # b /\ op[a].alone =>
            /\ op[a].id # op[b].id /\ op[a].doc.kid # op[b].doc.kid
            /\ op[a].kind # "sync" /\ op[b].kind # "sync"

\* What such an operation knows of its row.
WriterRow(a) ==
    Writer(a) /\ op[a].alone =>
        \A r \in rows : r.id = op[a].id =>
            /\ pc[a] = "write_row" /\ op[a].kind = "publish" =>
                 [r.doc EXCEPT !.status = "published"] = op[a].doc
            /\ pc[a] = "write_version" => r.doc = op[a].doc
            /\ pc[a] \in {"replace_chunks", "upsert_vectors", "backfill", "upsert_keywords",
                          "clear_cache"} => r.doc \in versions

\* A row that is being written is not among the recorded ones.
UnrecordedInv == \A a \in Admins : Writer(a) => op[a].id \notin recorded

HistoryInv ==
    CourseInv /\ AloneInv /\ (\A a \in Admins : WriterRow(a)) /\ UnrecordedInv /\ RowsAreInHistory

LEMMA CourseStep ==
    ASSUME TypeOK, CourseInv, NEW a \in Admins, BeginSome(a) \/ OperationStep(a)
    PROVE  CourseInv'
<1> SUFFICES ASSUME NEW b \in Admins
             PROVE  /\ pc'[b] \in {"read", "list_versions", "write_row", "write_version"}
                         => op'[b].kind # "sync"
                    /\ pc'[b] = "list_versions" => op'[b].kind # "publish"
                    /\ pc'[b] = "list_knowledge" => op'[b].kind = "sync"
  BY DEF CourseInv
<1>1. CASE a # b
  BY <1>1, OthersKeepTheirWork DEF CourseInv
<1>2. CASE a = b /\ BeginSome(a)
  BY <1>2, BegunKind
<1>3. CASE a = b /\ OperationStep(a)
  <2>1. pc \in [Admins -> Stages] /\ op \in [Admins -> Operation] /\ op[a] \in Operation
    BY DEF TypeOK
  <2>2. CASE pc'[a] = "idle"
    BY <1>3, <2>2
  <2>3. CASE pc'[a] # "idle"
    <3>1. op'[a].kind = op[a].kind
      BY <1>3, <2>3, OwnCourse
    <3>2. \/ pc'[a] \in {"replace_chunks", "upsert_vectors", "backfill", "upsert_keywords",
                          "clear_cache"}
          \/ pc[a] = "read" /\ pc'[a] = IF op[a].kind = "publish" THEN "write_row" ELSE "list_versions"
          \/ pc[a] = "list_versions" /\ pc'[a] = "write_row"
          \/ pc[a] = "write_row" /\ pc'[a] = "write_version"
      BY <1>3, <2>1, <2>3 DEF OperationStep, Read, ListVersions, WriteRow, WriteVersion, ListKnowledge,
            ReplaceChunks, UpsertVectors, Backfill, UpsertKeywords, ClearCache, Continue, ContinueShort, Abandon,
            Finish
    <3> QED
      BY <1>3, <3>1, <3>2 DEF CourseInv
  <2> QED
    BY <2>2, <2>3
<1> QED
  BY <1>1, <1>2, <1>3

LEMMA AloneStep ==
    ASSUME TypeOK, AloneInv, NEW a \in Admins, BeginSome(a) \/ OperationStep(a)
    PROVE  AloneInv'
<1> SUFFICES ASSUME NEW b \in Admins, NEW c \in Admins, pc'[b] # "idle", pc'[c] # "idle", b # c,
                    op'[b].alone
             PROVE  /\ op'[b].id # op'[c].id /\ op'[b].doc.kid # op'[c].doc.kid
                    /\ op'[b].kind # "sync" /\ op'[c].kind # "sync"
  BY DEF AloneInv, Active
<1>0. \A d \in Admins : d # a =>
        /\ pc'[d] = pc[d] /\ op'[d].id = op[d].id /\ op'[d].kind = op[d].kind
        /\ op'[d].doc = op[d].doc /\ (op'[d].alone => op[d].alone)
  BY OthersKeepTheirWork
<1>1. CASE BeginSome(a)
  <2>1. PICK kind \in Kinds, id \in RowIds, doc \in Doc, stage \in Stages :
          Begin(a, kind, id, doc, stage)
    BY <1>1, BeginShape
  <2>2. /\ op'[a].kind = kind /\ op'[a].id = id /\ op'[a].doc = doc
        /\ op'[a].alone => \A d \in Active : d # a =>
             /\ op[d].id # id /\ op[d].doc.kid # doc.kid
             /\ op[d].kind # "sync" /\ kind # "sync"
        /\ \A d \in Admins : d # a /\ op'[d].alone /\ d \in Active =>
             /\ op[d].id # id /\ op[d].doc.kid # doc.kid
             /\ op[d].kind # "sync" /\ kind # "sync"
    BY <2>1, BegunOperation
  <2>3. CASE b = a
    BY <2>3, <2>2, <1>0 DEF Active
  <2>4. CASE c = a
    BY <2>4, <2>2, <1>0 DEF Active
  <2>5. CASE b # a /\ c # a
    BY <2>5, <1>0 DEF AloneInv, Active
  <2> QED
    BY <2>3, <2>4, <2>5
<1>2. CASE OperationStep(a)
  <2>1. pc'[a] # "idle" =>
          /\ pc[a] # "idle" /\ op'[a].id = op[a].id /\ op'[a].kind = op[a].kind
          /\ (op'[a].alone => op[a].alone)
          /\ ~Read(a) => op'[a].doc.kid = op[a].doc.kid
    BY <1>2, OwnCourse
  <2>2. pc'[a] # "idle" /\ Read(a) =>
          /\ op'[a].alone => \A d \in Active : d # a => op[d].doc.kid # op'[a].doc.kid
          /\ \A d \in Active : d # a /\ op'[d].alone => op[d].doc.kid # op'[a].doc.kid
    <3>1. SUFFICES ASSUME pc'[a] # "idle", Read(a)
                   PROVE  /\ op'[a].alone => \A d \in Active : d # a => op[d].doc.kid # op'[a].doc.kid
                          /\ \A d \in Active : d # a /\ op'[d].alone => op[d].doc.kid # op'[a].doc.kid
      OBVIOUS
    <3>2. ~Abandon(a) /\ Active \subseteq Admins
      BY <3>1 DEF Abandon, TypeOK, Active
    <3> QED
      BY <3>1, <3>2, ReadOperation
  <2>3. b \in Active /\ c \in Active
    BY <2>1, <1>0 DEF Active
  <2>4. /\ op[b].id # op[c].id /\ op[b].doc.kid # op[c].doc.kid
        /\ op[b].kind # "sync" /\ op[c].kind # "sync"
    BY <2>1, <2>3, <1>0 DEF AloneInv
  <2>5. op'[b].id # op'[c].id /\ op'[b].kind # "sync" /\ op'[c].kind # "sync"
    BY <2>1, <2>4, <1>0
  <2>6. op'[b].doc.kid # op'[c].doc.kid
    <3>1. CASE b = a
      BY <3>1, <2>1, <2>2, <2>3, <2>4, <1>0
    <3>2. CASE c = a
      BY <3>2, <2>1, <2>2, <2>3, <2>4, <1>0
    <3>3. CASE b # a /\ c # a
      BY <3>3, <2>4, <1>0
    <3> QED
      BY <3>1, <3>2, <3>3
  <2> QED
    BY <2>5, <2>6
<1> QED
  BY <1>1, <1>2

\* Only writing a row changes rows, and only the row written; the history only grows.
LEMMA RowsFrame ==
    ASSUME TypeOK, NEW a \in Admins, BeginSome(a) \/ OperationStep(a)
    PROVE  /\ versions \subseteq versions'
           /\ ~WriteRow(a) => rows' = rows
           /\ \A r \in rows' : r \in rows \/ (r.id = op[a].id /\ pc[a] = "write_row")
<1>1. versions \subseteq versions'
  BY DEF BeginSome, Create, Update, Publish, Rollback, Sync, Begin, OperationStep, Read,
         ListVersions, WriteRow, WriteVersion, ListKnowledge, ReplaceChunks, UpsertVectors, Backfill,
         UpsertKeywords, ClearCache
<1>2. ~WriteRow(a) => rows' = rows
  BY DEF BeginSome, Create, Update, Publish, Rollback, Sync, Begin, OperationStep, Read,
         ListVersions, WriteVersion, ListKnowledge, ReplaceChunks, UpsertVectors, Backfill,
         UpsertKeywords, ClearCache
<1>3. ASSUME WriteRow(a), NEW r \in rows', r \notin rows
      PROVE  r.id = op[a].id /\ pc[a] = "write_row"
  <2>1. r \in Written(a) /\ pc[a] = "write_row"
    BY <1>3 DEF WriteRow
  <2>2. \A q \in rows : [q EXCEPT !.doc.status = "published"].id = q.id
    BY DEF TypeOK, Row
  <2>3. CASE op[a].kind = "publish"
    <3>1. PICK q \in rows : r = IF q.id = op[a].id THEN [q EXCEPT !.doc.status = "published"] ELSE q
      BY <2>1, <2>3 DEF Written
    <3> QED
      BY <3>1, <2>1, <2>2, <1>3
  <2>4. CASE op[a].kind # "publish"
    BY <2>1, <2>4, <1>3 DEF Written, RowsWith
  <2> QED
    BY <2>3, <2>4
<1> QED
  BY <1>1, <1>2, <1>3

\* The operator that moves, and its row.
LEMMA OwnRowStep ==
    ASSUME TypeOK, KeysInv, CourseInv, NEW a \in Admins, WriterRow(a), BeginSome(a) \/ OperationStep(a)
    PROVE  WriterRow(a)'
<1>1. pc \in [Admins -> Stages] /\ op \in [Admins -> Operation] /\ op[a] \in Operation
  BY DEF TypeOK
<1>2. CASE BeginSome(a)
  BY <1>2, BegunKind DEF WriterRow
<1>3. CASE OperationStep(a) /\ pc'[a] = "idle"
  BY <1>3 DEF WriterRow, Writer
<1>4. CASE OperationStep(a) /\ pc'[a] # "idle"
  <2>1. /\ op'[a].kind = op[a].kind /\ op'[a].id = op[a].id /\ (op'[a].alone => op[a].alone)
        /\ pc[a] # "idle"
    BY <1>4, OwnCourse
  <2>2. SUFFICES ASSUME op[a].kind # "sync", op[a].alone, NEW r \in rows', r.id = op[a].id
                 PROVE  /\ pc'[a] = "write_row" /\ op[a].kind = "publish" =>
                             [r.doc EXCEPT !.status = "published"] = op'[a].doc
                        /\ pc'[a] = "write_version" => r.doc = op'[a].doc
                        /\ pc'[a] \in {"replace_chunks", "upsert_vectors", "backfill",
                                       "upsert_keywords", "clear_cache"} => r.doc \in versions'
    BY <2>1 DEF WriterRow, Writer
  <2>3. r \in rows =>
          /\ pc[a] = "write_row" /\ op[a].kind = "publish" =>
               [r.doc EXCEPT !.status = "published"] = op[a].doc
          /\ pc[a] = "write_version" => r.doc = op[a].doc
          /\ pc[a] \in {"replace_chunks", "upsert_vectors", "backfill", "upsert_keywords",
                        "clear_cache"} => r.doc \in versions
    BY <2>1, <2>2 DEF WriterRow, Writer
  <2>4. CASE Read(a)
    <3>1. r \in rows /\ ~Abandon(a)
      BY <2>4, <1>4, <1>1 DEF Read, Abandon
    <3>2. PICK q \in rows : q.id = op[a].id /\ op'[a].doc = AsRead(a, q.doc)
      BY <2>4, <3>1, ReadOperation
    <3>3. q = r
      BY <3>1, <3>2, <2>2 DEF KeysInv
    <3>4. op'[a].doc = IF op[a].kind = "publish" THEN [r.doc EXCEPT !.status = "published"] ELSE r.doc
      BY <3>2, <3>3 DEF AsRead
    <3>5. pc'[a] = IF op[a].kind = "publish" THEN "write_row" ELSE "list_versions"
      BY <2>4, <3>1, <1>1, ReadOperation
    <3> QED
      BY <3>4, <3>5
  <2>5. CASE ListVersions(a)
    BY <2>5, <1>4, <1>1 DEF ListVersions, Abandon, Continue, CourseInv
  <2>6. CASE WriteRow(a)
    <3>1. rows' = Written(a) /\ op' = op /\ pc'[a] = "write_version" /\ pc[a] = "write_row"
      BY <2>6, <1>4, <1>1 DEF WriteRow, Abandon, Continue
    <3>2. CASE op[a].kind = "publish"
      <4>1. PICK q \in rows : r = IF q.id = op[a].id THEN [q EXCEPT !.doc.status = "published"] ELSE q
        BY <3>1, <3>2 DEF Written
      <4>2. q.id = op[a].id /\ r.doc = [q.doc EXCEPT !.status = "published"]
        BY <4>1, <2>2 DEF TypeOK, Row, Doc
      <4>3. [q.doc EXCEPT !.status = "published"] = op[a].doc
        BY <4>2, <2>2, <3>1, <3>2 DEF WriterRow, Writer
      <4> QED
        BY <4>2, <4>3, <3>1
    <3>3. CASE op[a].kind # "publish"
      BY <3>1, <3>3, <2>2 DEF Written, RowsWith
    <3> QED
      BY <3>2, <3>3
  <2>7. CASE WriteVersion(a)
    <3>1. versions' = versions \cup {op[a].doc} /\ rows' = rows /\ pc[a] = "write_version"
          /\ pc'[a] = "replace_chunks"
      BY <2>7, <1>4, <1>1 DEF WriteVersion, Abandon, Continue
    <3> QED
      BY <3>1, <2>3
  <2>8. CASE ListKnowledge(a)
    BY <2>8, <2>2 DEF ListKnowledge, CourseInv
  <2>9. CASE ReplaceChunks(a) \/ UpsertVectors(a) \/ Backfill(a) \/ UpsertKeywords(a) \/ ClearCache(a)
    <3>1. rows' = rows /\ versions' = versions
      BY <2>9 DEF ReplaceChunks, UpsertVectors, Backfill, UpsertKeywords, ClearCache
    <3>2. pc[a] \in {"replace_chunks", "upsert_vectors", "backfill", "upsert_keywords", "clear_cache"}
      BY <2>9 DEF ReplaceChunks, UpsertVectors, Backfill, UpsertKeywords, ClearCache
    <3>3. pc'[a] \notin {"write_row", "write_version"}
      BY <2>9, <1>4, <1>1 DEF ReplaceChunks, UpsertVectors, Backfill, UpsertKeywords, ClearCache,
                              Continue, ContinueShort, Abandon, Finish
    <3> QED
      BY <3>1, <3>2, <3>3, <2>3
  <2> QED
    BY <1>4, <2>4, <2>5, <2>6, <2>7, <2>8, <2>9 DEF OperationStep
<1> QED
  BY <1>2, <1>3, <1>4

\* The other operators and their rows: one that is alone is not written past.
LEMMA OthersRowStep ==
    ASSUME TypeOK, AloneInv, NEW a \in Admins, NEW b \in Admins, a # b, WriterRow(b),
           BeginSome(a) \/ OperationStep(a)
    PROVE  WriterRow(b)'
<1>1. /\ pc'[b] = pc[b] /\ op'[b].kind = op[b].kind /\ op'[b].doc = op[b].doc
      /\ op'[b].id = op[b].id /\ (op'[b].alone => op[b].alone)
  BY OthersKeepTheirWork
<1>2. ASSUME Writer(b), op[b].alone, NEW r \in rows', r.id = op[b].id PROVE r \in rows
  <2>1. pc[a] = "write_row" => op[a].id # op[b].id
    BY <1>2 DEF AloneInv, Active, Writer
  <2> QED
    BY <2>1, <1>2, RowsFrame
<1>3. versions \subseteq versions'
  BY RowsFrame
<1> QED
  BY <1>1, <1>2, <1>3 DEF WriterRow, Writer

\* A step that records a row is the end of an operation that was alone with it.
LEMMA RecordedStep ==
    ASSUME TypeOK, HistoryInv, NEW a \in Admins, BeginSome(a) \/ OperationStep(a)
    PROVE  UnrecordedInv' /\ RowsAreInHistory'
<1>1. pc \in [Admins -> Stages] /\ op \in [Admins -> Operation] /\ op[a] \in Operation
  BY DEF TypeOK
<1>2. \A b \in Admins : b # a => pc'[b] = pc[b] /\ op'[b].kind = op[b].kind /\ op'[b].id = op[b].id
  BY OthersKeepTheirWork
<1>3. CASE BeginSome(a)
  <2>1. PICK kind \in Kinds, id \in RowIds, doc \in Doc, stage \in Stages :
          Begin(a, kind, id, doc, stage)
    BY <1>3, BeginShape
  <2>2. recorded' = (IF kind = "sync" THEN recorded ELSE recorded \ {id}) /\ rows' = rows
        /\ versions' = versions
    BY <2>1 DEF Begin
  <2>3. op'[a].kind = kind /\ op'[a].id = id
    BY <2>1, BegunOperation
  <2>4. UnrecordedInv'
    BY <1>2, <2>2, <2>3 DEF UnrecordedInv, HistoryInv, Writer
  <2> QED
    BY <2>2, <2>4 DEF RowsAreInHistory, HistoryInv
<1>4. CASE OperationStep(a) /\ ~ClearCache(a)
  <2>1. recorded' = recorded
    BY <1>4 DEF OperationStep, Read, ListVersions, WriteRow, WriteVersion, ListKnowledge, ReplaceChunks,
                UpsertVectors, Backfill, UpsertKeywords, Continue, ContinueShort, Abandon
  <2>2. pc'[a] # "idle" => op'[a].kind = op[a].kind /\ op'[a].id = op[a].id /\ pc[a] # "idle"
    BY <1>4, OwnCourse
  <2>3. UnrecordedInv'
    BY <1>2, <2>1, <2>2 DEF UnrecordedInv, HistoryInv, Writer
  <2>4. ASSUME NEW r \in rows', r.id \in recorded PROVE r \in rows
    <3>1. pc[a] = "write_row" => op[a].id \notin recorded
      BY DEF HistoryInv, CourseInv, UnrecordedInv, Writer
    <3> QED
      BY <3>1, <2>4, RowsFrame
  <2>5. RowsAreInHistory'
    BY <2>1, <2>4, RowsFrame DEF RowsAreInHistory, HistoryInv
  <2> QED
    BY <2>3, <2>5
<1>5. CASE ClearCache(a)
  <2>1. rows' = rows /\ versions' = versions /\ pc[a] = "clear_cache"
        /\ recorded' = IF op[a].alone /\ op[a].kind # "sync" THEN recorded \cup {op[a].id} ELSE recorded
    BY <1>5 DEF ClearCache, Finish
  <2>2. pc'[a] = "idle"
    BY <1>5, <1>1 DEF ClearCache, Finish
  <2>3. op[a].alone /\ op[a].kind # "sync" => \A r \in rows : r.id = op[a].id => r.doc \in versions
    BY <2>1 DEF HistoryInv, WriterRow, Writer
  <2>4. op[a].alone => \A b \in Admins : b # a /\ pc[b] # "idle" => op[b].id # op[a].id
    BY <2>1 DEF HistoryInv, AloneInv, Active
  <2>5. UnrecordedInv'
    BY <1>2, <2>1, <2>2, <2>4 DEF UnrecordedInv, HistoryInv, Writer
  <2>6. RowsAreInHistory'
    BY <2>1, <2>3 DEF RowsAreInHistory, HistoryInv
  <2> QED
    BY <2>5, <2>6
<1> QED
  BY <1>3, <1>4, <1>5

LEMMA HistoryStep == AdminInv /\ HistoryInv /\ [Next]_vars => HistoryInv'
<1> SUFFICES ASSUME AdminInv, HistoryInv, [Next]_vars PROVE HistoryInv'
  OBVIOUS
<1>1. CASE UNCHANGED vars
  BY <1>1 DEF HistoryInv, CourseInv, AloneInv, Active, WriterRow, Writer, UnrecordedInv, RowsAreInHistory,
              vars, adminVars
<1>2. ASSUME NEW a \in Admins, BeginSome(a) \/ OperationStep(a) PROVE HistoryInv'
  <2>1. TypeOK /\ KeysInv /\ CourseInv /\ AloneInv /\ \A b \in Admins : WriterRow(b)
    BY DEF AdminInv, HistoryInv
  <2>2. CourseInv' /\ AloneInv'
    BY <1>2, <2>1, CourseStep, AloneStep
  <2>3. \A b \in Admins : WriterRow(b)'
    BY <1>2, <2>1, OwnRowStep, OthersRowStep
  <2> QED
    BY <1>2, <2>1, <2>2, <2>3, RecordedStep DEF HistoryInv
<1> QED
  BY <1>1, <1>2 DEF Next

LEMMA HistoryInit == Init => HistoryInv
  BY DEF Init, HistoryInv, CourseInv, AloneInv, Active, WriterRow, Writer, UnrecordedInv, RowsAreInHistory

\* A row whose last writer succeeded undisturbed can be rolled back to what it is now, after
\* whatever is done to it next (mysql_store.go:736-739, 774-776, 880-882).
THEOREM HistoryIsKept == Spec => []RowsAreInHistory
<1>1. HistoryInv => RowsAreInHistory
  BY DEF HistoryInv
<1> QED
  BY <1>1, HistoryInit, AdminInvAlways, HistoryStep, PTL DEF Spec

-----------------------------------------------------------------------------
(* The account of an operation that was alone. *)

Indexing == {"replace_chunks", "upsert_vectors", "backfill", "upsert_keywords", "clear_cache"}

\* What an operation holds: nothing before it has made its chunks, and then chunks with an id
\* of their own, of its own knowledge id unless it synchronises.
HoldsOwn(a) ==
    /\ pc[a] \notin Indexing => op[a].items = {} /\ op[a].todo = {} /\ op[a].listed = {}
    /\ op[a].todo \subseteq op[a].items /\ op[a].listed \subseteq op[a].items
    /\ \A i, j \in op[a].items : i.id = j.id => i = j
    /\ op[a].kind # "sync" => \A i \in op[a].items : i.id.kid = op[a].doc.kid

ItemsIn(a, kid) == { i \in op[a].items : i.id.kid = kid }

\* What has been done for a row the operation is responsible for.
RowAccount(a, r) ==
    /\ op[a].kind # "sync" => r.doc = op[a].doc
    /\ ItemsIn(a, r.doc.kid) = ChunksOf(r.doc)
    /\ pc[a] # "replace_chunks" =>
         /\ ItemsFor(r.doc.kid) = ChunksOf(r.doc)
         /\ \A c \in ChunksFor(r.doc.kid) : c.vector => ItemOf(c) \in vectors
    /\ op[a].covered /\ pc[a] \in {"upsert_keywords", "clear_cache"} =>
         \A c \in ChunksFor(r.doc.kid) : c.vector

\* What has been done of the indexing, if every answer covered its batch.
CoveredAccount(a) ==
    /\ pc[a] = "upsert_vectors" => op[a].items \ op[a].todo \subseteq op[a].listed
    /\ pc[a] \in {"backfill", "upsert_keywords", "clear_cache"} => op[a].items \subseteq op[a].listed
    /\ pc[a] = "upsert_keywords" => op[a].items \ op[a].todo \subseteq keywords
    /\ pc[a] = "clear_cache" => op[a].items \subseteq keywords

IndexAccount(a) == op[a].listed \subseteq vectors /\ (op[a].covered => CoveredAccount(a))

Account(a) ==
    op[a].alone /\ pc[a] \in Indexing =>
        /\ \A r \in rows : r.id \in Touched(op[a]) => RowAccount(a, r)
        /\ IndexAccount(a)

\* A settled row is being worked on by nobody, and an operation that claims its knowledge id
\* for another row is about to be refused.
UndisturbedInv ==
    \A a \in Active :
        /\ op[a].kind = "sync" => settled = {}
        /\ op[a].kind # "sync" => op[a].id \notin settled
        /\ \A r \in rows : r.id \in settled /\ op[a].doc.kid = r.doc.kid =>
             pc[a] = "write_row" /\ op[a].kind \in {"create", "update"}

SettledInv ==
    /\ \A a \in Admins : HoldsOwn(a) /\ Account(a)
    /\ UndisturbedInv /\ covered \subseteq settled /\ SettledIsComplete

\* The calls that write chunks or indexes.
LEMMA IndexingKeeps ==
    ASSUME TypeOK, NEW a \in Admins, HoldsOwn(a), ~Abandon(a),
           ReplaceChunks(a) \/ UpsertVectors(a) \/ Backfill(a) \/ UpsertKeywords(a)
    PROVE  /\ rows' = rows /\ op'[a].doc = op[a].doc /\ op'[a].items = op[a].items
           /\ op'[a].todo \subseteq op[a].items /\ op'[a].listed \subseteq op[a].items
           /\ pc[a] \in Indexing /\ pc'[a] \in Indexing
<1>1. pc \in [Admins -> Stages] /\ op \in [Admins -> Operation] /\ op[a] \in Operation
      /\ op[a].todo \subseteq op[a].items /\ op[a].listed \subseteq op[a].items
  BY DEF TypeOK, HoldsOwn
<1>2. rows' = rows /\ pc[a] \in Indexing
  BY DEF ReplaceChunks, UpsertVectors, Backfill, UpsertKeywords, Indexing
<1>3. CASE ReplaceChunks(a) \/ Backfill(a)
  <2>1. op' = [op EXCEPT ![a].todo = op[a].items] /\ pc'[a] \in Indexing
    BY <1>1, <1>3 DEF ReplaceChunks, Backfill, Continue, Indexing
  <2> QED
    BY <1>1, <1>2, <2>1 DEF Operation
<1>4. CASE UpsertVectors(a)
  <2>1. PICK batch \in SUBSET op[a].todo : \E taken \in SUBSET batch, listed \in SUBSET batch :
          /\ listed \subseteq taken /\ vectors' = Upsert(vectors, taken)
          /\ op' = [op EXCEPT ![a] = VectorsAnswered(op[a], batch, listed)]
          /\ pc' = [pc EXCEPT ![a] = IF op[a].todo = batch THEN "backfill" ELSE "upsert_vectors"]
    BY <1>4, VectorsSent
  <2>2. PICK listed \in SUBSET batch :
          /\ op' = [op EXCEPT ![a] = VectorsAnswered(op[a], batch, listed)]
          /\ pc' = [pc EXCEPT ![a] = IF op[a].todo = batch THEN "backfill" ELSE "upsert_vectors"]
    BY <2>1
  <2>3. pc'[a] \in Indexing
    BY <1>1, <2>2 DEF Indexing
  <2>4. /\ op'[a].doc = op[a].doc /\ op'[a].items = op[a].items
        /\ op'[a].todo = op[a].todo \ batch /\ op'[a].listed = op[a].listed \cup listed
    <3>1. op[a] \in Operation /\ op'[a] = VectorsAnswered(op[a], batch, listed)
      BY <2>2, AfterVectors DEF TypeOK
    <3> QED
      BY <3>1 DEF Operation, VectorsAnswered
  <2> QED
    BY <1>1, <1>2, <2>3, <2>4
<1>5. CASE UpsertKeywords(a)
  <2>1. PICK batch \in SUBSET op[a].todo : \E taken \in SUBSET batch :
          /\ op' = [op EXCEPT ![a] = KeywordsAnswered(op[a], batch, taken)]
          /\ pc' = [pc EXCEPT ![a] = IF op[a].todo = batch THEN "clear_cache" ELSE "upsert_keywords"]
    BY <1>5, KeywordsStep
  <2>2. PICK taken \in SUBSET batch :
          /\ op' = [op EXCEPT ![a] = KeywordsAnswered(op[a], batch, taken)]
          /\ pc' = [pc EXCEPT ![a] = IF op[a].todo = batch THEN "clear_cache" ELSE "upsert_keywords"]
    BY <2>1
  <2>3. pc'[a] \in Indexing
    BY <1>1, <2>2 DEF Indexing
  <2>4. /\ op'[a].doc = op[a].doc /\ op'[a].items = op[a].items
        /\ op'[a].todo = op[a].todo \ batch /\ op'[a].listed = op[a].listed
    <3>1. op[a] \in Operation /\ op'[a] = KeywordsAnswered(op[a], batch, taken)
      BY <2>2, AfterKeywords DEF TypeOK
    <3> QED
      BY <3>1 DEF Operation, KeywordsAnswered
  <2> QED
    BY <1>1, <1>2, <2>3, <2>4
<1> QED
  BY <1>3, <1>4, <1>5

LEMMA OneIdPerChunk ==
    ASSUME NEW doc \in Doc, NEW i \in BuildChunks(doc), NEW j \in BuildChunks(doc), i.id = j.id
    PROVE  i = j
  BY DEF BuildChunks

LEMMA OneIdPerListedChunk ==
    ASSUME TypeOK, KeysInv,
           NEW i \in UNION { ChunksOf(r.doc) : r \in rows },
           NEW j \in UNION { ChunksOf(r.doc) : r \in rows }, i.id = j.id
    PROVE  i = j
<1>1. PICK r \in rows, s \in rows : i \in ChunksOf(r.doc) /\ j \in ChunksOf(s.doc)
  OBVIOUS
<1>2. r.doc \in Doc /\ s.doc \in Doc
  BY DEF TypeOK, Row
<1>3. i \in BuildChunks(r.doc) /\ j \in BuildChunks(s.doc)
  BY <1>1, <1>2, ItemsOfDoc
<1>4. r = s
  BY <1>2, <1>3, ItemsOfDoc DEF KeysInv
<1> QED
  BY <1>2, <1>3, <1>4, OneIdPerChunk

LEMMA HoldsOwnStep ==
    ASSUME TypeOK, KeysInv, CourseInv, NEW a \in Admins, NEW b \in Admins, HoldsOwn(b),
           BeginSome(a) \/ OperationStep(a)
    PROVE  HoldsOwn(b)'
<1>1. CASE a # b
  BY <1>1, OthersKeepTheirWork DEF HoldsOwn
<1>2. CASE a = b /\ BeginSome(a)
  BY <1>2, BegunKind DEF HoldsOwn
<1>3. CASE a = b /\ OperationStep(a)
  <2>1. pc \in [Admins -> Stages] /\ op \in [Admins -> Operation] /\ op[a] \in Operation
        /\ op[a].doc \in Doc
    BY DEF TypeOK, Operation
  <2>2. CASE pc'[a] = "idle"
    <3>1. op'[a] = NoOperation
      BY <1>3, <2>2, EndedOperation
    <3> QED
      BY <1>3, <3>1 DEF NoOperation, HoldsOwn
  <2>3. CASE pc'[a] # "idle"
    <3>1. op'[a].kind = op[a].kind /\ (~Read(a) => op'[a].doc.kid = op[a].doc.kid)
      BY <1>3, <2>3, OwnCourse
    <3>2. CASE Read(a)
      <4>1. ~Abandon(a) /\ pc[a] = "read"
        BY <2>1, <2>3, <3>2 DEF Abandon, Read
      <4>2. op'[a].items = op[a].items /\ op'[a].todo = op[a].todo /\ op'[a].listed = op[a].listed
        BY <3>2, <4>1, ReadOperation
      <4>3. op[a].items = {} /\ op[a].todo = {} /\ op[a].listed = {}
        BY <1>3, <4>1 DEF HoldsOwn, Indexing
      <4> QED
        BY <1>3, <4>2, <4>3 DEF HoldsOwn
    <3>3. CASE ListVersions(a) \/ WriteRow(a)
      <4>1. op'[a].items = op[a].items /\ op'[a].todo = op[a].todo /\ op'[a].listed = op[a].listed
            /\ pc[a] \in {"list_versions", "write_row"}
        <5>1. op' = op \/ \E v : op' = [op EXCEPT ![a].doc = v]
          BY <3>3, <2>1, <2>3 DEF ListVersions, WriteRow, Abandon
        <5> QED
          BY <5>1, <3>3, <2>1 DEF Operation, ListVersions, WriteRow
      <4>2. op[a].items = {} /\ op[a].todo = {} /\ op[a].listed = {}
        BY <1>3, <4>1 DEF HoldsOwn, Indexing
      <4> QED
        BY <1>3, <4>1, <4>2 DEF HoldsOwn
    <3>4. CASE WriteVersion(a)
      <4>1. /\ op' = [op EXCEPT ![a].items = ChunksOf(op[a].doc)] /\ pc'[a] = "replace_chunks"
            /\ pc[a] = "write_version"
        BY <3>4, <2>1, <2>3 DEF WriteVersion, Abandon, Continue
      <4>2. /\ op'[a].items = ChunksOf(op[a].doc) /\ op'[a].todo = op[a].todo
            /\ op'[a].listed = op[a].listed
        BY <4>1, <2>1 DEF Operation
      <4>3. op[a].todo = {} /\ op[a].listed = {}
        BY <1>3, <4>1 DEF HoldsOwn, Indexing
      <4>4. \A i, j \in ChunksOf(op[a].doc) : i.id = j.id => i = j
        BY <2>1, ItemsOfDoc, OneIdPerChunk
      <4>5. \A i \in ChunksOf(op[a].doc) : i.id.kid = op[a].doc.kid
        BY <2>1, ItemsOfDoc
      <4>6. op'[a].doc.kid = op[a].doc.kid
        BY <3>1, <4>1 DEF Read
      <4> QED
        BY <1>3, <4>1, <4>2, <4>3, <4>4, <4>5, <4>6 DEF HoldsOwn, Indexing
    <3>5. CASE ListKnowledge(a)
      <4>1. /\ op' = [op EXCEPT ![a].items = UNION { ChunksOf(r.doc) : r \in rows }]
            /\ pc'[a] = "replace_chunks" /\ pc[a] = "list_knowledge"
        BY <3>5, <2>1, <2>3 DEF ListKnowledge, Abandon, Continue
      <4>2. /\ op'[a].items = UNION { ChunksOf(r.doc) : r \in rows } /\ op'[a].todo = op[a].todo
            /\ op'[a].listed = op[a].listed
        BY <4>1, <2>1 DEF Operation
      <4>3. op[a].todo = {} /\ op[a].listed = {} /\ op[a].kind = "sync"
        BY <1>3, <4>1 DEF HoldsOwn, Indexing, CourseInv
      <4>4. \A i, j \in op'[a].items : i.id = j.id => i = j
        BY <4>2, OneIdPerListedChunk
      <4> QED
        BY <1>3, <3>1, <4>1, <4>2, <4>3, <4>4 DEF HoldsOwn, Indexing
    <3>6. CASE ReplaceChunks(a) \/ UpsertVectors(a) \/ Backfill(a) \/ UpsertKeywords(a)
      <4>1. ~Abandon(a)
        BY <2>1, <2>3 DEF Abandon
      <4>2. /\ op'[a].doc = op[a].doc /\ op'[a].items = op[a].items
            /\ op'[a].todo \subseteq op[a].items /\ op'[a].listed \subseteq op[a].items
            /\ pc'[a] \in Indexing
        BY <1>3, <3>6, <4>1, IndexingKeeps
      <4> QED
        BY <1>3, <3>1, <4>2 DEF HoldsOwn
    <3>7. CASE ClearCache(a)
      BY <2>1, <2>3, <3>7 DEF ClearCache, Finish
    <3> QED
      BY <1>3, <3>2, <3>3, <3>4, <3>5, <3>6, <3>7 DEF OperationStep
  <2> QED
    BY <2>2, <2>3
<1> QED
  BY <1>1, <1>2, <1>3

\* Filling in vector ids changes nothing else.
LEMMA BackfillKeeps ==
    ASSUME TypeOK, NEW a \in Admins, Backfill(a), NEW kid
    PROVE  /\ ItemsFor(kid)' = ItemsFor(kid)
           /\ \A x \in ChunksFor(kid)' : \E c \in ChunksFor(kid) :
                ItemOf(x) = ItemOf(c) /\ (x = c \/ \E i \in op[a].listed : i.id = x.id)
           /\ (\A i \in op[a].listed : i.id.kid # kid) => ChunksFor(kid)' = ChunksFor(kid)
<1> DEFINE Filled(c) == [c EXCEPT !.vector = c.vector \/ \E i \in op[a].listed : i.id = c.id]
<1>1. CASE chunks' = chunks
  BY <1>1 DEF ItemsFor, ChunksFor, ItemOf
<1>2. CASE chunks' # chunks
  <2>1. chunks' = { Filled(c) : c \in chunks }
    BY <1>2 DEF Backfill
  <2>2. ASSUME NEW c \in chunks
        PROVE  /\ Filled(c).id = c.id /\ Filled(c).text = c.text
               /\ Filled(c) = c \/ \E i \in op[a].listed : i.id = Filled(c).id
               /\ (\A i \in op[a].listed : i.id # c.id) => Filled(c) = c
    <3>1. c \in Chunk
      BY DEF TypeOK
    <3>2. c = [id |-> c.id, text |-> c.text, vector |-> c.vector] /\ c.vector \in BOOLEAN
      BY <3>1 DEF Chunk
    <3>3. Filled(c).id = c.id /\ Filled(c).text = c.text
      BY <3>2
    <3>4. CASE \E i \in op[a].listed : i.id = c.id
      BY <3>2, <3>3, <3>4
    <3>5. CASE ~ \E i \in op[a].listed : i.id = c.id
      BY <3>2, <3>3, <3>5
    <3> QED
      BY <3>3, <3>4, <3>5
  <2>3. \A c \in chunks : Filled(c).id = c.id /\ Filled(c).text = c.text
    BY <2>2
  <2>4. \A c \in chunks : (\A i \in op[a].listed : i.id # c.id) => Filled(c) = c
    BY <2>2
  <2>5. \A x \in chunks' : \E c \in chunks : x = Filled(c)
    BY <2>1
  <2>6. \A c \in chunks : Filled(c) \in chunks'
    BY <2>1
  <2> HIDE DEF Filled
  <2>7. ItemsFor(kid)' = ItemsFor(kid)
    BY <2>3, <2>5, <2>6 DEF ItemsFor, ChunksFor, ItemOf
  <2>8. ASSUME NEW x \in ChunksFor(kid)'
        PROVE  \E c \in ChunksFor(kid) : ItemOf(x) = ItemOf(c) /\ (x = c \/ \E i \in op[a].listed : i.id = x.id)
    <3>1. x \in chunks' /\ x.id.kid = kid
      BY DEF ChunksFor
    <3>2. PICK c \in chunks : x = Filled(c)
      BY <2>5, <3>1
    <3>3. x.id = c.id /\ x.text = c.text /\ (x = c \/ \E i \in op[a].listed : i.id = x.id)
      BY <2>2, <3>2
    <3>4. c \in ChunksFor(kid) /\ ItemOf(x) = ItemOf(c)
      BY <3>1, <3>3 DEF ChunksFor, ItemOf
    <3> QED
      BY <3>3, <3>4
  <2>9. ASSUME \A i \in op[a].listed : i.id.kid # kid PROVE ChunksFor(kid)' = ChunksFor(kid)
    <3>1. \A c \in ChunksFor(kid) : Filled(c) = c
      BY <2>4, <2>9 DEF ChunksFor
    <3>2. \A c \in chunks : Filled(c).id.kid = kid => c \in ChunksFor(kid)
      BY <2>3 DEF ChunksFor
    <3>3. ChunksFor(kid) \subseteq chunks' /\ \A c \in ChunksFor(kid) : c.id.kid = kid
      BY <2>6, <3>1 DEF ChunksFor
    <3>4. \A x \in chunks' : x.id.kid = kid => x \in ChunksFor(kid)
      BY <2>5, <3>1, <3>2
    <3> QED
      BY <3>3, <3>4 DEF ChunksFor
  <2> QED
    BY <2>7, <2>8, <2>9
<1> QED
  BY <1>1, <1>2

\* An operation that does not synchronise leaves the chunks of the other knowledge ids as
\* they are, in the table and in the indexes.
LEMMA OtherKids ==
    ASSUME TypeOK, NEW a \in Admins, OperationStep(a), op[a].kind # "sync", HoldsOwn(a),
           NEW kid, kid # op[a].doc.kid
    PROVE  /\ ChunksFor(kid)' = ChunksFor(kid)
           /\ \A i \in vectors : i.id.kid = kid => i \in vectors'
           /\ \A i \in keywords : i.id.kid = kid => i \in keywords'
<1>1. op[a].items \subseteq Item /\ op[a].todo \subseteq op[a].items
      /\ op[a].listed \subseteq op[a].items /\ \A i \in op[a].items : i.id.kid # kid
  BY DEF HoldsOwn, TypeOK, Operation
<1>2. CASE ReplaceChunks(a)
  <2>1. chunks' = chunks \/ chunks' = (chunks \ ChunksFor(op[a].doc.kid)) \cup Fresh(op[a].items)
    BY <1>2 DEF ReplaceChunks, Replaced
  <2>2. \A c \in Fresh(op[a].items) : c.id.kid # kid
    BY <1>1 DEF Fresh
  <2> QED
    BY <1>2, <2>1, <2>2 DEF ChunksFor, ReplaceChunks
<1>3. CASE UpsertVectors(a)
  <2>1. PICK taken \in SUBSET op[a].todo : vectors' = Upsert(vectors, taken)
    BY <1>3, VectorsStep
  <2>2. \A i \in taken : i.id.kid # kid
    BY <1>1
  <2> QED
    BY <1>3, <2>1, <2>2 DEF UpsertVectors, Upsert, ChunksFor
<1>4. CASE Backfill(a)
  <2>1. \A i \in op[a].listed : i.id.kid # kid
    BY <1>1
  <2> QED
    BY <1>4, <2>1, BackfillKeeps DEF Backfill
<1>5. CASE UpsertKeywords(a)
  <2>1. PICK taken \in SUBSET op[a].todo : keywords' = Upsert(keywords, taken)
    BY <1>5, KeywordsStep
  <2>2. \A i \in taken : i.id.kid # kid
    BY <1>1
  <2> QED
    BY <1>5, <2>1, <2>2 DEF UpsertKeywords, Upsert, ChunksFor
<1>6. CASE ~(ReplaceChunks(a) \/ UpsertVectors(a) \/ Backfill(a) \/ UpsertKeywords(a))
  BY <1>6 DEF OperationStep, Read, ListVersions, WriteRow, WriteVersion, ListKnowledge, ClearCache,
              indexVars, ChunksFor
<1> QED
  BY <1>2, <1>3, <1>4, <1>5, <1>6

\* The account of an operation that was alone outlives the steps of the others.
LEMMA OthersAccount ==
    ASSUME TypeOK, CourseInv, AloneInv, NEW a \in Admins, NEW b \in Admins, a # b,
           HoldsOwn(a), HoldsOwn(b), Account(b), BeginSome(a) \/ OperationStep(a)
    PROVE  Account(b)'
<1>1. /\ pc'[b] = pc[b] /\ op'[b].kind = op[b].kind /\ op'[b].doc = op[b].doc
      /\ op'[b].items = op[b].items /\ op'[b].todo = op[b].todo
      /\ op'[b].listed = op[b].listed /\ op'[b].covered = op[b].covered
      /\ op'[b].id = op[b].id /\ (op'[b].alone => op[b].alone)
  BY OthersKeepTheirWork
<1>2. SUFFICES ASSUME op[b].alone, pc[b] \in Indexing
               PROVE  /\ \A r \in rows' : r.id \in Touched(op[b]) => RowAccount(b, r)'
                      /\ IndexAccount(b)'
  BY <1>1 DEF Account, Touched
<1>3. (\A r \in rows : r.id \in Touched(op[b]) => RowAccount(b, r)) /\ IndexAccount(b)
  BY <1>2 DEF Account
<1>4. CASE BeginSome(a)
  <2>1. rows' = rows /\ chunks' = chunks /\ vectors' = vectors /\ keywords' = keywords
    BY <1>4 DEF BeginSome, Create, Update, Publish, Rollback, Sync, Begin, indexVars
  <2> QED
    BY <1>1, <1>3, <2>1 DEF RowAccount, IndexAccount, CoveredAccount, ItemsIn, ItemsFor, ChunksFor, ItemOf
<1>5. CASE OperationStep(a)
  <2>1. pc[a] # "idle" /\ pc[b] # "idle"
    BY <1>2, <1>5 DEF OperationStep, Read, ListVersions, WriteRow, WriteVersion, ListKnowledge,
          ReplaceChunks, UpsertVectors, Backfill, UpsertKeywords, ClearCache, Indexing
  <2>2. /\ op[b].id # op[a].id /\ op[b].doc.kid # op[a].doc.kid
        /\ op[a].kind # "sync" /\ op[b].kind # "sync"
    BY <1>2, <2>1 DEF AloneInv, Active
  <2>3. /\ ChunksFor(op[b].doc.kid)' = ChunksFor(op[b].doc.kid)
        /\ \A i \in vectors : i.id.kid = op[b].doc.kid => i \in vectors'
        /\ \A i \in keywords : i.id.kid = op[b].doc.kid => i \in keywords'
    <3> DEFINE kid == op[b].doc.kid
    <3>1. kid # op[a].doc.kid
      BY <2>2
    <3> HIDE DEF kid
    <3>2. /\ { c \in chunks' : c.id.kid = kid } = ChunksFor(kid)
          /\ \A i \in vectors : i.id.kid = kid => i \in vectors'
          /\ \A i \in keywords : i.id.kid = kid => i \in keywords'
      BY <1>5, <2>2, <3>1, OtherKids DEF ChunksFor
    <3> QED
      BY <1>1, <3>2 DEF ChunksFor, kid
  <2>4. IndexAccount(b)'
    <3>1. /\ \A i \in op[b].items : i.id.kid = op[b].doc.kid
          /\ op[b].listed \subseteq op[b].items
      BY <2>2 DEF HoldsOwn
    <3>2. op[b].listed \subseteq vectors'
      BY <1>3, <2>3, <3>1 DEF IndexAccount
    <3>3. \A i \in op[b].items : i \in keywords => i \in keywords'
      BY <2>3, <3>1
    <3>4. op[b].covered => CoveredAccount(b)'
      BY <1>1, <1>3, <3>3 DEF IndexAccount, CoveredAccount
    <3> QED
      BY <1>1, <3>2, <3>4 DEF IndexAccount
  <2>5. ASSUME NEW r \in rows', r.id \in Touched(op[b]) PROVE RowAccount(b, r)'
    <3>1. r.id = op[b].id
      BY <2>2, <2>5 DEF Touched
    <3>2. r \in rows
      BY <1>5, <2>2, <3>1, RowsFrame
    <3>3. RowAccount(b, r) /\ r.doc = op[b].doc
      BY <1>3, <2>2, <2>5, <3>2 DEF RowAccount
    <3>4. ChunksFor(r.doc.kid)' = ChunksFor(r.doc.kid)
      BY <1>1, <2>3, <3>3 DEF ChunksFor
    <3>5. ItemsFor(r.doc.kid)' = ItemsFor(r.doc.kid) /\ ItemsIn(b, r.doc.kid)' = ItemsIn(b, r.doc.kid)
      BY <1>1, <3>4 DEF ItemsFor, ItemsIn, ItemOf
    <3>6. \A c \in ChunksFor(r.doc.kid) : ItemOf(c) \in vectors => ItemOf(c) \in vectors'
      BY <2>3, <3>3 DEF ChunksFor, ItemOf
    <3> QED
      BY <1>1, <3>3, <3>4, <3>5, <3>6 DEF RowAccount, ChunksOf, BuildChunks, ItemOf
  <2> QED
    BY <2>4, <2>5
<1> QED
  BY <1>4, <1>5

\* The table after the chunks of a knowledge id have been replaced.
LEMMA ReplacedItems ==
    ASSUME TypeOK, NEW a \in Admins, HoldsOwn(a), chunks' = Replaced(a),
           NEW kid, op[a].kind # "sync" => kid = op[a].doc.kid
    PROVE  ItemsFor(kid)' = ItemsIn(a, kid)
<1> DEFINE items == op[a].items
<1>1. \A i \in items : i = [id |-> i.id, text |-> i.text]
  BY DEF TypeOK, Operation, Item
<1>2. \A i \in items : i = ItemOf([id |-> i.id, text |-> i.text, vector |-> FALSE])
  BY <1>1 DEF ItemOf
<1>3. \A i \in items : [id |-> i.id, text |-> i.text, vector |-> FALSE] \in Fresh(items)
  BY DEF Fresh
<1>4. ASSUME NEW c \in Fresh(items) PROVE ItemOf(c) \in items /\ ItemOf(c).id = c.id
  <2>1. PICK i \in items : c = [id |-> i.id, text |-> i.text, vector |-> FALSE]
    BY DEF Fresh
  <2> QED
    BY <1>2, <2>1 DEF ItemOf
<1>5. Fresh(items) \subseteq chunks' /\ \A c \in chunks' : c.id.kid = kid => c \in Fresh(items)
  BY DEF Replaced, ChunksFor
<1> HIDE DEF items
<1>6. ASSUME NEW c \in chunks', c.id.kid = kid PROVE ItemOf(c) \in items /\ ItemOf(c).id.kid = kid
  BY <1>4, <1>5, <1>6
<1>7. ASSUME NEW i \in items, i.id.kid = kid
      PROVE  \E c \in chunks' : c.id.kid = kid /\ i = ItemOf(c)
  <2>1. [id |-> i.id, text |-> i.text, vector |-> FALSE] \in chunks'
    BY <1>3, <1>5
  <2> QED
    BY <1>2, <1>7, <2>1
<1>8. ItemsFor(kid)' = { i \in items : i.id.kid = kid }
  BY <1>6, <1>7 DEF ItemsFor, ChunksFor, ItemOf
<1> QED
  BY <1>8 DEF ItemsIn, items

\* A batch that arrives displaces nothing else of what the operation holds.
LEMMA BatchArrives ==
    ASSUME NEW items, \A i, j \in items : i.id = j.id => i = j,
           NEW taken \in SUBSET items, NEW index
    PROVE  /\ \A i \in items : i \in index => i \in Upsert(index, taken)
           /\ taken \subseteq Upsert(index, taken)
  BY DEF Upsert

\* The account of a row after a call that writes chunks or indexes.
LEMMA RowAccountAfter ==
    ASSUME TypeOK, NEW a \in Admins, HoldsOwn(a), ~Abandon(a), op'[a].kind = op[a].kind,
           ReplaceChunks(a) \/ UpsertVectors(a) \/ Backfill(a) \/ UpsertKeywords(a),
           NEW r \in rows, RowAccount(a, r),
           ItemsFor(r.doc.kid)' = ChunksOf(r.doc),
           \A c \in ChunksFor(r.doc.kid)' : c.vector => ItemOf(c) \in vectors',
           op'[a].covered /\ pc'[a] \in {"upsert_keywords", "clear_cache"} =>
             \A c \in ChunksFor(r.doc.kid)' : c.vector
    PROVE  RowAccount(a, r)'
<1>1. op'[a].doc = op[a].doc /\ op'[a].items = op[a].items
  BY IndexingKeeps
<1>2. ItemsIn(a, r.doc.kid)' = ItemsIn(a, r.doc.kid)
  BY <1>1 DEF ItemsIn
<1>3. ChunksOf(r.doc)' = ChunksOf(r.doc)
  BY DEF ChunksOf, BuildChunks
<1>4. /\ op[a].kind # "sync" => r.doc = op[a].doc
      /\ ItemsIn(a, r.doc.kid) = ChunksOf(r.doc)
  BY DEF RowAccount
<1> QED
  BY <1>1, <1>2, <1>3, <1>4 DEF RowAccount, ItemOf

LEMMA ReplaceAccount ==
    ASSUME TypeOK, NEW a \in Admins, HoldsOwn(a), IndexAccount(a), op'[a].kind = op[a].kind,
           \A r \in rows : r.id \in Touched(op[a]) => RowAccount(a, r),
           ReplaceChunks(a), ~Abandon(a)
    PROVE  /\ \A r \in rows : r.id \in Touched(op[a]) => RowAccount(a, r)'
           /\ IndexAccount(a)'
<1>1. pc \in [Admins -> Stages] /\ op \in [Admins -> Operation] /\ op[a] \in Operation
  BY DEF TypeOK
<1>2. /\ chunks' = Replaced(a) /\ op' = [op EXCEPT ![a].todo = op[a].items] /\ vectors' = vectors
      /\ pc'[a] = IF op[a].items = {} THEN "clear_cache" ELSE "upsert_vectors"
  BY <1>1 DEF ReplaceChunks, Continue
<1>3. /\ op'[a].todo = op[a].items /\ op'[a].items = op[a].items /\ op'[a].listed = op[a].listed
      /\ op'[a].covered = op[a].covered
  BY <1>1, <1>2 DEF Operation
<1>4. IndexAccount(a)'
  BY <1>2, <1>3 DEF IndexAccount, CoveredAccount
<1>5. ASSUME NEW r \in rows, r.id \in Touched(op[a]) PROVE RowAccount(a, r)'
  <2>1. /\ RowAccount(a, r) /\ ItemsIn(a, r.doc.kid) = ChunksOf(r.doc)
        /\ op[a].kind # "sync" => r.doc = op[a].doc
    BY <1>5 DEF RowAccount
  <2>2. ItemsFor(r.doc.kid)' = ChunksOf(r.doc)
    BY <1>2, <2>1, ReplacedItems
  <2>3. ASSUME NEW c \in ChunksFor(r.doc.kid)' PROVE ~c.vector
    <3>1. c \in chunks' /\ c.id.kid = r.doc.kid
      BY DEF ChunksFor
    <3>2. c \in Fresh(op[a].items)
      BY <1>2, <2>1, <3>1 DEF Replaced, ChunksFor
    <3> QED
      BY <3>2 DEF Fresh
  <2>4. ASSUME op[a].items = {}, NEW c \in ChunksFor(r.doc.kid)' PROVE FALSE
    <3>1. ItemOf(c) \in ChunksOf(r.doc)
      BY <2>2 DEF ItemsFor
    <3> QED
      BY <2>1, <2>4, <3>1 DEF ItemsIn
  <2>5. \A c \in ChunksFor(r.doc.kid)' : c.vector => ItemOf(c) \in vectors'
    BY <2>3
  <2>6. pc'[a] \in {"upsert_keywords", "clear_cache"} => \A c \in ChunksFor(r.doc.kid)' : c.vector
    BY <1>2, <2>4
  <2> QED
    BY <2>1, <2>2, <2>5, <2>6, RowAccountAfter
<1> QED
  BY <1>4, <1>5

LEMMA VectorsAccount ==
    ASSUME TypeOK, NEW a \in Admins, HoldsOwn(a), IndexAccount(a), op'[a].kind = op[a].kind,
           \A r \in rows : r.id \in Touched(op[a]) => RowAccount(a, r),
           UpsertVectors(a), ~Abandon(a)
    PROVE  /\ \A r \in rows : r.id \in Touched(op[a]) => RowAccount(a, r)'
           /\ IndexAccount(a)'
<1>1. /\ pc \in [Admins -> Stages] /\ op[a].todo \subseteq op[a].items
      /\ op[a].listed \subseteq op[a].items /\ \A i, j \in op[a].items : i.id = j.id => i = j
  BY DEF TypeOK, HoldsOwn
<1>2. PICK batch \in SUBSET op[a].todo : \E taken \in SUBSET batch, listed \in SUBSET batch :
        /\ listed \subseteq taken /\ vectors' = Upsert(vectors, taken)
        /\ op' = [op EXCEPT ![a] = VectorsAnswered(op[a], batch, listed)]
        /\ pc' = [pc EXCEPT ![a] = IF op[a].todo = batch THEN "backfill" ELSE "upsert_vectors"]
  BY VectorsSent
<1>3. PICK listed \in SUBSET batch :
        /\ op' = [op EXCEPT ![a] = VectorsAnswered(op[a], batch, listed)]
        /\ pc' = [pc EXCEPT ![a] = IF op[a].todo = batch THEN "backfill" ELSE "upsert_vectors"]
        /\ \E taken \in SUBSET batch : listed \subseteq taken /\ vectors' = Upsert(vectors, taken)
  BY <1>2
<1>4. /\ op'[a].items = op[a].items /\ op'[a].todo = op[a].todo \ batch
      /\ op'[a].listed = op[a].listed \cup listed
      /\ (op'[a].covered => op[a].covered /\ listed = batch)
  <2>1. op[a] \in Operation /\ op'[a] = VectorsAnswered(op[a], batch, listed)
    BY <1>3, AfterVectors DEF TypeOK
  <2> QED
    BY <2>1 DEF Operation, VectorsAnswered
<1>5. /\ pc[a] = "upsert_vectors" /\ chunks' = chunks
      /\ pc'[a] = IF op[a].todo = batch THEN "backfill" ELSE "upsert_vectors"
  BY <1>1, <1>3 DEF UpsertVectors
<1>6. PICK taken \in SUBSET batch : listed \subseteq taken /\ vectors' = Upsert(vectors, taken)
  BY <1>3
<1>7. (\A i \in op[a].items : i \in vectors => i \in vectors') /\ taken \subseteq vectors'
  <2>1. taken \in SUBSET op[a].items
    BY <1>1
  <2> QED
    BY <1>1, <1>6, <2>1, BatchArrives
<1>8. op'[a].listed \subseteq vectors'
  BY <1>1, <1>4, <1>6, <1>7 DEF IndexAccount
<1>9. op'[a].covered => op[a].items \ op'[a].todo \subseteq op'[a].listed
  BY <1>4, <1>5 DEF IndexAccount, CoveredAccount
<1>10. IndexAccount(a)'
  BY <1>4, <1>5, <1>8, <1>9 DEF IndexAccount, CoveredAccount
<1>11. ASSUME NEW r \in rows, r.id \in Touched(op[a]) PROVE RowAccount(a, r)'
  <2>1. /\ RowAccount(a, r) /\ ItemsFor(r.doc.kid) = ChunksOf(r.doc)
        /\ ItemsIn(a, r.doc.kid) = ChunksOf(r.doc)
        /\ \A c \in ChunksFor(r.doc.kid) : c.vector => ItemOf(c) \in vectors
    BY <1>5, <1>11 DEF RowAccount
  <2>2. ChunksFor(r.doc.kid)' = ChunksFor(r.doc.kid)
    BY <1>5 DEF ChunksFor
  <2>3. ItemsFor(r.doc.kid)' = ChunksOf(r.doc)
    BY <2>1, <2>2 DEF ItemsFor, ItemOf
  <2>4. \A c \in ChunksFor(r.doc.kid) : ItemOf(c) \in op[a].items
    BY <2>1 DEF ItemsFor, ItemsIn
  <2>5. \A c \in ChunksFor(r.doc.kid)' : c.vector => ItemOf(c) \in vectors'
    BY <1>7, <2>1, <2>2, <2>4
  <2> QED
    BY <1>5, <2>1, <2>3, <2>5, RowAccountAfter
<1> QED
  BY <1>10, <1>11

LEMMA BackfillAccount ==
    ASSUME TypeOK, NEW a \in Admins, HoldsOwn(a), IndexAccount(a), op'[a].kind = op[a].kind,
           \A r \in rows : r.id \in Touched(op[a]) => RowAccount(a, r),
           Backfill(a), ~Abandon(a)
    PROVE  /\ \A r \in rows : r.id \in Touched(op[a]) => RowAccount(a, r)'
           /\ IndexAccount(a)'
<1>1. /\ pc \in [Admins -> Stages] /\ op \in [Admins -> Operation] /\ op[a] \in Operation
      /\ chunks \subseteq Chunk /\ op[a].listed \subseteq op[a].items
      /\ \A i, j \in op[a].items : i.id = j.id => i = j
  BY DEF TypeOK, HoldsOwn
<1>2. /\ op' = [op EXCEPT ![a].todo = op[a].items] /\ pc'[a] = "upsert_keywords"
      /\ pc[a] = "backfill" /\ vectors' = vectors
  BY <1>1 DEF Backfill, Continue
<1>3. chunks' = { [c EXCEPT !.vector = c.vector \/ \E i \in op[a].listed : i.id = c.id] : c \in chunks }
  BY DEF Backfill
<1>4. /\ op'[a].todo = op[a].items /\ op'[a].items = op[a].items /\ op'[a].listed = op[a].listed
      /\ op'[a].covered = op[a].covered
  BY <1>1, <1>2 DEF Operation
<1>5. IndexAccount(a)'
  BY <1>2, <1>4 DEF IndexAccount, CoveredAccount
<1>6. ASSUME NEW r \in rows, r.id \in Touched(op[a]) PROVE RowAccount(a, r)'
  <2>1. /\ RowAccount(a, r) /\ ItemsFor(r.doc.kid) = ChunksOf(r.doc)
        /\ ItemsIn(a, r.doc.kid) = ChunksOf(r.doc)
        /\ \A c \in ChunksFor(r.doc.kid) : c.vector => ItemOf(c) \in vectors
    BY <1>2, <1>6 DEF RowAccount
  <2>2. ItemsFor(r.doc.kid)' = ChunksOf(r.doc)
    BY <2>1, BackfillKeeps
  <2>3. \A x \in ChunksFor(r.doc.kid)' : ItemOf(x) \in op[a].items /\ ItemOf(x).id = x.id
    BY <2>1, <2>2 DEF ItemsFor, ItemsIn, ItemOf
  <2>4. ASSUME NEW x \in ChunksFor(r.doc.kid)', x.vector PROVE ItemOf(x) \in vectors'
    <3>1. PICK c \in ChunksFor(r.doc.kid) :
            ItemOf(x) = ItemOf(c) /\ (x = c \/ \E i \in op[a].listed : i.id = x.id)
      BY BackfillKeeps
    <3>2. CASE x = c
      BY <1>2, <2>1, <2>4, <3>1, <3>2
    <3>3. CASE \E i \in op[a].listed : i.id = x.id
      <4>1. PICK i \in op[a].listed : i.id = x.id
        BY <3>3
      <4>2. i = ItemOf(x)
        BY <1>1, <2>3, <4>1
      <4> QED
        BY <1>2, <4>2 DEF IndexAccount
    <3> QED
      BY <3>1, <3>2, <3>3
  <2>5. ASSUME op[a].covered, NEW x \in ChunksFor(r.doc.kid)' PROVE x.vector
    <3>1. ItemOf(x) \in op[a].listed /\ ItemOf(x).id = x.id
      BY <1>2, <2>3, <2>5 DEF IndexAccount, CoveredAccount
    <3>2. PICK c \in chunks : x = [c EXCEPT !.vector = c.vector \/ \E i \in op[a].listed : i.id = c.id]
      BY <1>3 DEF ChunksFor
    <3>3. x.id = c.id
      BY <1>1, <3>2 DEF Chunk
    <3> QED
      BY <1>1, <3>1, <3>2, <3>3 DEF Chunk
  <2> QED
    BY <1>4, <2>1, <2>2, <2>4, <2>5, RowAccountAfter
<1> QED
  BY <1>5, <1>6

LEMMA KeywordsAccount ==
    ASSUME TypeOK, NEW a \in Admins, HoldsOwn(a), IndexAccount(a), op'[a].kind = op[a].kind,
           \A r \in rows : r.id \in Touched(op[a]) => RowAccount(a, r),
           UpsertKeywords(a), ~Abandon(a)
    PROVE  /\ \A r \in rows : r.id \in Touched(op[a]) => RowAccount(a, r)'
           /\ IndexAccount(a)'
<1>1. /\ pc \in [Admins -> Stages] /\ op[a].todo \subseteq op[a].items
      /\ \A i, j \in op[a].items : i.id = j.id => i = j
  BY DEF TypeOK, HoldsOwn
<1>2. PICK batch \in SUBSET op[a].todo : \E taken \in SUBSET batch :
        /\ keywords' = Upsert(keywords, taken)
        /\ op' = [op EXCEPT ![a] = KeywordsAnswered(op[a], batch, taken)]
        /\ pc' = [pc EXCEPT ![a] = IF op[a].todo = batch THEN "clear_cache" ELSE "upsert_keywords"]
  BY KeywordsSent
<1>3. PICK taken \in SUBSET batch :
        /\ op' = [op EXCEPT ![a] = KeywordsAnswered(op[a], batch, taken)]
        /\ keywords' = Upsert(keywords, taken)
        /\ pc' = [pc EXCEPT ![a] = IF op[a].todo = batch THEN "clear_cache" ELSE "upsert_keywords"]
  BY <1>2
<1>4. /\ pc[a] = "upsert_keywords" /\ chunks' = chunks /\ vectors' = vectors
      /\ pc'[a] = IF op[a].todo = batch THEN "clear_cache" ELSE "upsert_keywords"
  BY <1>1, <1>3 DEF UpsertKeywords
<1>5. /\ op'[a].items = op[a].items /\ op'[a].todo = op[a].todo \ batch
      /\ op'[a].listed = op[a].listed /\ (op'[a].covered => op[a].covered /\ taken = batch)
  <2>1. op[a] \in Operation /\ op'[a] = KeywordsAnswered(op[a], batch, taken)
    BY <1>3, AfterKeywords DEF TypeOK
  <2> QED
    BY <2>1 DEF Operation, KeywordsAnswered
<1>6. (\A i \in op[a].items : i \in keywords => i \in keywords') /\ taken \subseteq keywords'
  <2>1. taken \in SUBSET op[a].items
    BY <1>1
  <2> QED
    BY <1>1, <1>3, <2>1, BatchArrives
<1>7. op'[a].covered => op[a].items \ op'[a].todo \subseteq keywords'
  BY <1>4, <1>5, <1>6 DEF IndexAccount, CoveredAccount
<1>8. IndexAccount(a)'
  BY <1>4, <1>5, <1>7 DEF IndexAccount, CoveredAccount
<1>9. ASSUME NEW r \in rows, r.id \in Touched(op[a]) PROVE RowAccount(a, r)'
  <2>1. /\ RowAccount(a, r) /\ ItemsFor(r.doc.kid) = ChunksOf(r.doc)
        /\ \A c \in ChunksFor(r.doc.kid) : c.vector => ItemOf(c) \in vectors
        /\ op[a].covered => \A c \in ChunksFor(r.doc.kid) : c.vector
    BY <1>4, <1>9 DEF RowAccount
  <2>2. ChunksFor(r.doc.kid)' = ChunksFor(r.doc.kid)
    BY <1>4 DEF ChunksFor
  <2>3. ItemsFor(r.doc.kid)' = ChunksOf(r.doc)
    BY <2>1, <2>2 DEF ItemsFor, ItemOf
  <2> QED
    BY <1>4, <1>5, <2>1, <2>2, <2>3, RowAccountAfter
<1> QED
  BY <1>8, <1>9

\* The account of an operation after a call that writes chunks or indexes.
LEMMA IndexingAccount ==
    ASSUME TypeOK, NEW a \in Admins, HoldsOwn(a), Account(a), op[a].alone,
           Touched(op'[a]) = Touched(op[a]), op'[a].kind = op[a].kind,
           ReplaceChunks(a) \/ UpsertVectors(a) \/ Backfill(a) \/ UpsertKeywords(a), ~Abandon(a)
    PROVE  /\ \A r \in rows' : r.id \in Touched(op'[a]) => RowAccount(a, r)'
           /\ IndexAccount(a)'
<1>1. rows' = rows /\ pc[a] \in Indexing
  BY IndexingKeeps
<1>2. IndexAccount(a) /\ \A r \in rows : r.id \in Touched(op[a]) => RowAccount(a, r)
  BY <1>1 DEF Account
<1>3. /\ \A r \in rows : r.id \in Touched(op[a]) => RowAccount(a, r)'
      /\ IndexAccount(a)'
  BY <1>2, ReplaceAccount, VectorsAccount, BackfillAccount, KeywordsAccount
<1> QED
  BY <1>1, <1>3

\* Its account after a call of its own.
LEMMA OwnAccount ==
    ASSUME TypeOK, KeysInv, CourseInv, NEW a \in Admins, WriterRow(a), HoldsOwn(a), Account(a),
           BeginSome(a) \/ OperationStep(a)
    PROVE  Account(a)'
<1> SUFFICES ASSUME op'[a].alone, pc'[a] \in Indexing
             PROVE  /\ \A r \in rows' : r.id \in Touched(op'[a]) => RowAccount(a, r)'
                    /\ IndexAccount(a)'
  BY DEF Account
<1>1. pc \in [Admins -> Stages] /\ op \in [Admins -> Operation] /\ op[a] \in Operation
      /\ op[a].doc \in Doc /\ op[a].items \subseteq Item /\ chunks \subseteq Chunk
      /\ \A r \in rows : r.doc \in Doc
  BY DEF TypeOK, Operation, Row
<1>2. OperationStep(a) /\ ~Abandon(a) /\ pc'[a] # "idle"
  BY <1>1, BegunKind DEF Indexing, Abandon
<1>3. op'[a].kind = op[a].kind /\ op'[a].id = op[a].id /\ op[a].alone
      /\ Touched(op'[a]) = Touched(op[a])
  BY <1>2, OwnCourse DEF Touched
<1>4. CASE WriteVersion(a)
  <2>1. /\ op' = [op EXCEPT ![a].items = ChunksOf(op[a].doc)] /\ pc'[a] = "replace_chunks"
        /\ pc[a] = "write_version" /\ rows' = rows /\ UNCHANGED indexVars
    BY <1>1, <1>2, <1>4 DEF WriteVersion, Continue
  <2>2. op'[a].items = ChunksOf(op[a].doc) /\ op'[a].doc = op[a].doc /\ op[a].kind # "sync"
    BY <1>1, <2>1 DEF Operation, CourseInv
  <2>3. ASSUME NEW r \in rows, r.id = op[a].id PROVE RowAccount(a, r)'
    <3>1. r.doc = op[a].doc
      BY <1>3, <2>1, <2>2, <2>3 DEF WriterRow, Writer
    <3>2. ItemsIn(a, r.doc.kid)' = ChunksOf(r.doc)
      BY <1>1, <2>2, <3>1, ItemsOfDoc DEF ItemsIn
    <3> QED
      BY <2>1, <2>2, <3>1, <3>2 DEF RowAccount, ChunksOf, BuildChunks
  <2>4. IndexAccount(a)'
    <3>1. op'[a].listed = {}
      BY <1>1, <2>1 DEF HoldsOwn, Indexing, Operation
    <3> QED
      BY <2>1, <3>1 DEF IndexAccount, CoveredAccount
  <2> QED
    BY <1>3, <2>1, <2>2, <2>3, <2>4 DEF Touched
<1>5. CASE ListKnowledge(a)
  <2>1. /\ op' = [op EXCEPT ![a].items = UNION { ChunksOf(r.doc) : r \in rows }]
        /\ pc'[a] = "replace_chunks" /\ pc[a] = "list_knowledge" /\ rows' = rows
    BY <1>1, <1>2, <1>5 DEF ListKnowledge, Continue
  <2>2. op'[a].items = UNION { ChunksOf(r.doc) : r \in rows } /\ op'[a].kind = "sync"
    BY <1>1, <2>1 DEF Operation, CourseInv
  <2>3. ASSUME NEW r \in rows PROVE RowAccount(a, r)'
    <3>1. ASSUME NEW i \in op'[a].items, i.id.kid = r.doc.kid PROVE i \in ChunksOf(r.doc)
      <4>1. PICK q \in rows : i \in ChunksOf(q.doc)
        BY <2>2
      <4>2. q = r
        BY <1>1, <3>1, <4>1, ItemsOfDoc DEF KeysInv
      <4> QED
        BY <4>1, <4>2
    <3>2. \A i \in ChunksOf(r.doc) : i \in op'[a].items /\ i.id.kid = r.doc.kid
      BY <1>1, <2>2, ItemsOfDoc
    <3>3. ItemsIn(a, r.doc.kid)' = ChunksOf(r.doc)
      BY <3>1, <3>2 DEF ItemsIn
    <3> QED
      BY <2>1, <2>2, <3>3 DEF RowAccount, ChunksOf, BuildChunks
  <2>4. IndexAccount(a)'
    <3>1. op'[a].listed = {}
      BY <1>1, <2>1 DEF HoldsOwn, Indexing, Operation
    <3> QED
      BY <2>1, <3>1 DEF IndexAccount, CoveredAccount
  <2> QED
    BY <2>1, <2>3, <2>4
<1>6. CASE ReplaceChunks(a) \/ UpsertVectors(a) \/ Backfill(a) \/ UpsertKeywords(a)
  BY <1>2, <1>3, <1>6, IndexingAccount
<1>7. ~ (Read(a) \/ ListVersions(a) \/ WriteRow(a) \/ ClearCache(a))
  BY <1>1, <1>2 DEF Read, ListVersions, WriteRow, ClearCache, Finish, Continue, Indexing
<1> QED
  BY <1>2, <1>4, <1>5, <1>6, <1>7 DEF OperationStep

\* Ending an operation settles the rows it answers for if it was alone, and nothing else does.
LEMMA SettledFrame ==
    ASSUME TypeOK, NEW a \in Admins, OperationStep(a)
    PROVE  /\ ~ClearCache(a) => settled' = settled /\ covered' = covered
           /\ ClearCache(a) =>
                /\ pc[a] = "clear_cache" /\ pc'[a] = "idle" /\ rows' = rows /\ UNCHANGED indexVars
                /\ \A id \in settled' : id \in settled \/ (op[a].alone /\ id \in Touched(op[a]))
                /\ \A id \in covered' :
                     id \in covered \/ (op[a].alone /\ op[a].covered /\ id \in Touched(op[a]))
           /\ covered \subseteq settled => covered' \subseteq settled'
<1>1. ~ClearCache(a) => settled' = settled /\ covered' = covered
  BY DEF OperationStep, Read, ListVersions, WriteRow, WriteVersion, ListKnowledge, ReplaceChunks,
         UpsertVectors, Backfill, UpsertKeywords, Continue, ContinueShort, Abandon
<1>2. ASSUME ClearCache(a)
      PROVE  /\ pc[a] = "clear_cache" /\ pc'[a] = "idle" /\ rows' = rows /\ UNCHANGED indexVars
             /\ \A id \in settled' : id \in settled \/ (op[a].alone /\ id \in Touched(op[a]))
             /\ \A id \in covered' :
                  id \in covered \/ (op[a].alone /\ op[a].covered /\ id \in Touched(op[a]))
             /\ covered \subseteq settled => covered' \subseteq settled'
  <2>1. pc[a] = "clear_cache" /\ pc'[a] = "idle" /\ rows' = rows /\ UNCHANGED indexVars
    BY <1>2 DEF ClearCache, Finish, TypeOK
  <2>2. \A id \in RowsTouched(op[a]) : id \in Touched(op[a])
    BY DEF RowsTouched
  <2>3. /\ settled' = IF op[a].alone THEN settled \cup RowsTouched(op[a]) ELSE settled
        /\ covered' = IF op[a].alone /\ op[a].covered THEN covered \cup RowsTouched(op[a]) ELSE covered
    BY <1>2 DEF ClearCache, Finish
  <2> QED
    BY <2>1, <2>2, <2>3
<1> QED
  BY <1>1, <1>2

\* A row that stays settled stays as it is.
LEMMA SettledRows ==
    ASSUME TypeOK, CourseInv, UndisturbedInv, NEW a \in Admins, OperationStep(a),
           NEW r \in rows', r.id \in settled
    PROVE  r \in rows /\ op[a].kind # "sync" /\ r.id # op[a].id
<1>1. a \in Active
  BY DEF Active, OperationStep, Read, ListVersions, WriteRow, WriteVersion, ListKnowledge,
         ReplaceChunks, UpsertVectors, Backfill, UpsertKeywords, ClearCache
<1>2. op[a].kind # "sync" /\ r.id # op[a].id
  BY <1>1 DEF UndisturbedInv
<1> QED
  BY <1>2, RowsFrame

LEMMA UndisturbedStep ==
    ASSUME TypeOK, KeysInv, CourseInv, AloneInv, UndisturbedInv, NEW a \in Admins, Account(a),
           BeginSome(a) \/ OperationStep(a)
    PROVE  UndisturbedInv'
<1> SUFFICES ASSUME NEW d \in Admins, pc'[d] # "idle"
             PROVE  /\ op'[d].kind = "sync" => settled' = {}
                    /\ op'[d].kind # "sync" => op'[d].id \notin settled'
                    /\ \A r \in rows' : r.id \in settled' /\ op'[d].doc.kid = r.doc.kid =>
                         pc'[d] = "write_row" /\ op'[d].kind \in {"create", "update"}
  BY DEF UndisturbedInv, Active
<1>1. d # a => /\ pc'[d] = pc[d] /\ op'[d].kind = op[d].kind /\ op'[d].doc = op[d].doc
               /\ op'[d].id = op[d].id
  BY OthersKeepTheirWork
<1>2. d # a => d \in Active
  BY <1>1 DEF Active
<1>3. CASE BeginSome(a)
  <2>1. PICK kind \in Kinds, id \in RowIds, doc \in Doc, stage \in Stages :
          /\ Begin(a, kind, id, doc, stage)
          /\ \/ kind \in {"create", "update"} /\ stage = "write_row"
             \/ /\ kind \in {"publish", "rollback"} /\ stage = "read"
                /\ \E r \in rows : r.id = id /\ r.doc = doc
             \/ kind = "sync" /\ stage = "list_knowledge"
    BY <1>3, BeginShape
  <2>2. /\ op'[a].kind = kind /\ op'[a].id = id /\ op'[a].doc = doc /\ pc' = [pc EXCEPT ![a] = stage]
    BY <2>1, BegunOperation
  <2>3. /\ rows' = rows /\ settled' = settled \ (IF kind = "sync" THEN RowIds ELSE {id})
    BY <2>1 DEF Begin, Touched
  <2>4. settled' \subseteq settled /\ settled \subseteq RowIds
    BY <2>3 DEF TypeOK
  <2>5. CASE d # a
    BY <2>5, <1>1, <1>2, <2>3, <2>4 DEF UndisturbedInv
  <2>6. CASE d = a /\ kind = "sync"
    BY <2>2, <2>3, <2>4, <2>6
  <2>7. CASE d = a /\ kind # "sync"
    <3>1. pc'[a] = stage /\ id \notin settled'
      BY <2>2, <2>3, <2>7 DEF TypeOK
    <3>2. ASSUME NEW r \in rows, r.id \in settled', doc.kid = r.doc.kid
          PROVE  kind \in {"create", "update"} /\ stage = "write_row"
      BY <2>1, <2>7, <3>1, <3>2 DEF KeysInv
    <3> QED
      BY <2>2, <2>3, <2>7, <3>1, <3>2
  <2> QED
    BY <2>5, <2>6, <2>7
<1>4. CASE OperationStep(a) /\ ~ClearCache(a)
  <2>1. settled' = settled
    BY <1>4, SettledFrame
  <2>2. \A r \in rows' : r.id \in settled => r \in rows
    BY <1>4, SettledRows
  <2>3. CASE d # a
    BY <2>1, <2>2, <2>3, <1>1, <1>2 DEF UndisturbedInv
  <2>4. CASE d = a
    <3>1. /\ op'[a].kind = op[a].kind /\ op'[a].id = op[a].id /\ pc[a] # "idle"
          /\ ~Read(a) => op'[a].doc.kid = op[a].doc.kid
      BY <1>4, <2>4, OwnCourse
    <3>2. /\ op[a].kind = "sync" => settled = {}
          /\ op[a].kind # "sync" => op[a].id \notin settled
      BY <3>1 DEF UndisturbedInv, Active
    <3>3. ASSUME NEW r \in rows, r.id \in settled, op'[a].doc.kid = r.doc.kid PROVE FALSE
      <4>1. r.id # op[a].id
        BY <3>2, <3>3
      <4>2. CASE Read(a)
        <5>1. ~Abandon(a)
          BY <2>4 DEF Abandon, TypeOK
        <5>2. PICK q \in rows : q.id = op[a].id /\ op'[a].doc = AsRead(a, q.doc)
          BY <4>2, <5>1, ReadOperation
        <5>3. op'[a].doc.kid = q.doc.kid
          BY <5>2 DEF AsRead, TypeOK, Row, Doc
        <5> QED
          BY <3>3, <4>1, <5>2, <5>3 DEF KeysInv
      <4>3. CASE ~Read(a)
        <5>1. pc[a] = "write_row" /\ op[a].kind \in {"create", "update"} /\ op[a].doc.kid = r.doc.kid
          BY <3>1, <3>3, <4>3 DEF UndisturbedInv, Active
        <5>2. WriteRow(a) /\ ~Abandon(a) /\ pc'[a] # "idle"
          BY <1>4, <2>4, <5>1 DEF OperationStep, Read, ListVersions, WriteVersion, ListKnowledge,
                ReplaceChunks, UpsertVectors, Backfill, UpsertKeywords, ClearCache, Abandon, TypeOK
        <5>3. Available(op[a].doc.kid, op[a].id)
          BY <5>1, <5>2 DEF WriteRow, TypeOK
        <5> QED
          BY <3>3, <4>1, <5>1, <5>3 DEF Available
      <4> QED
        BY <4>2, <4>3
    <3> QED
      BY <2>1, <2>2, <2>4, <3>1, <3>2, <3>3
  <2> QED
    BY <2>3, <2>4
<1>5. CASE ClearCache(a)
  <2>1. OperationStep(a)
    BY <1>5 DEF OperationStep
  <2>2. /\ pc[a] = "clear_cache" /\ pc'[a] = "idle" /\ rows' = rows
        /\ \A id \in settled' : id \in settled \/ (op[a].alone /\ id \in Touched(op[a]))
    BY <1>5, <2>1, SettledFrame
  <2>3. d # a /\ a \in Active
    BY <2>2 DEF Active
  <2>4. op[a].alone =>
          /\ op[a].id # op[d].id /\ op[a].doc.kid # op[d].doc.kid
          /\ op[a].kind # "sync" /\ op[d].kind # "sync"
    BY <1>2, <2>3 DEF AloneInv
  <2>5. op[a].alone /\ op[a].kind # "sync" =>
          Touched(op[a]) = {op[a].id} /\ \A r \in rows : r.id = op[a].id => r.doc = op[a].doc
    BY <2>2 DEF Account, Indexing, RowAccount, Touched
  <2>6. op[d].kind = "sync" => settled' = {}
    BY <1>2, <2>2, <2>3, <2>4 DEF UndisturbedInv
  <2>7. op[d].kind # "sync" => op[d].id \notin settled'
    BY <1>2, <2>2, <2>3, <2>4, <2>5 DEF UndisturbedInv
  <2>8. ASSUME NEW r \in rows, r.id \in settled', op[d].doc.kid = r.doc.kid
        PROVE  pc[d] = "write_row" /\ op[d].kind \in {"create", "update"}
    <3>1. CASE r.id \in settled
      BY <1>2, <2>3, <2>8, <3>1 DEF UndisturbedInv
    <3>2. CASE r.id \notin settled
      BY <2>2, <2>4, <2>5, <2>8, <3>2
    <3> QED
      BY <3>1, <3>2
  <2> QED
    BY <1>1, <2>2, <2>3, <2>6, <2>7, <2>8
<1> QED
  BY <1>3, <1>4, <1>5

\* What is promised of a settled row, and of one for which every answer covered its batch.
Settled(r) ==
    /\ ItemsFor(r.doc.kid) = ChunksOf(r.doc)
    /\ \A c \in ChunksFor(r.doc.kid) : c.vector => ItemOf(c) \in vectors

Covered(r) ==
    /\ \A c \in ChunksFor(r.doc.kid) : c.vector
    /\ ChunksOf(r.doc) \subseteq vectors \cap keywords

\* Where its chunks and the index items of them stay, a row's promise stays.
LEMMA PromiseStays ==
    ASSUME TypeOK, NEW r \in rows, Settled(r),
           ChunksFor(r.doc.kid)' = ChunksFor(r.doc.kid),
           \A i \in vectors : i.id.kid = r.doc.kid => i \in vectors',
           \A i \in keywords : i.id.kid = r.doc.kid => i \in keywords'
    PROVE  Settled(r)' /\ (Covered(r) => Covered(r)')
<1>1. ChunksOf(r.doc)' = ChunksOf(r.doc) /\ ItemsFor(r.doc.kid)' = ItemsFor(r.doc.kid)
  BY DEF ChunksOf, BuildChunks, ItemsFor, ItemOf
<1>2. r.doc \in Doc
  BY DEF TypeOK, Row
<1>3. \A i \in ChunksOf(r.doc) : i.id.kid = r.doc.kid
  BY <1>2, ItemsOfDoc
<1>4. \A c \in ChunksFor(r.doc.kid) : ItemOf(c).id.kid = r.doc.kid
  BY DEF ChunksFor, ItemOf
<1>5. Settled(r)'
  BY <1>1, <1>4 DEF Settled, ItemOf
<1>6. Covered(r) => Covered(r)'
  BY <1>1, <1>3 DEF Covered
<1> QED
  BY <1>5, <1>6

LEMMA CoveredStep ==
    ASSUME TypeOK, covered \subseteq settled, NEW a \in Admins, BeginSome(a) \/ OperationStep(a)
    PROVE  covered' \subseteq settled'
<1>1. CASE BeginSome(a)
  BY <1>1 DEF BeginSome, Create, Update, Publish, Rollback, Sync, Begin
<1>2. CASE OperationStep(a)
  BY <1>2, SettledFrame
<1> QED
  BY <1>1, <1>2

LEMMA CompleteStep ==
    ASSUME TypeOK, KeysInv, CourseInv, AloneInv, UndisturbedInv, SettledIsComplete,
           covered \subseteq settled,
           NEW a \in Admins, HoldsOwn(a), Account(a), BeginSome(a) \/ OperationStep(a)
    PROVE  SettledIsComplete'
<1> SUFFICES ASSUME NEW r \in rows', r.id \in settled'
             PROVE  Settled(r)' /\ (r.id \in covered' => Covered(r)')
  BY DEF SettledIsComplete, Settled, Covered, ItemsFor, ChunksOf, BuildChunks
<1>1. ASSUME r \in rows, r.id \in settled
      PROVE  Settled(r) /\ (r.id \in covered => Covered(r))
  BY <1>1 DEF SettledIsComplete, Settled, Covered, ItemsFor
<1>2. ASSUME UNCHANGED indexVars
      PROVE  (Settled(r) => Settled(r)') /\ (Covered(r) => Covered(r)')
  BY <1>2 DEF Settled, Covered, ItemsFor, ChunksFor, ItemOf, ChunksOf, BuildChunks, indexVars
<1>3. CASE BeginSome(a)
  <2>1. rows' = rows /\ UNCHANGED indexVars /\ settled' \subseteq settled /\ covered' \subseteq covered
    BY <1>3 DEF BeginSome, Create, Update, Publish, Rollback, Sync, Begin
  <2> QED
    BY <1>1, <1>2, <2>1
<1>4. CASE OperationStep(a) /\ ~ClearCache(a)
  <2>1. r \in rows /\ r.id \in settled /\ op[a].kind # "sync" /\ r.id # op[a].id
        /\ covered' = covered
    BY <1>4, SettledFrame, SettledRows
  <2>2. CASE op[a].doc.kid = r.doc.kid
    <3>1. a \in Active
      BY <1>4 DEF Active, OperationStep, Read, ListVersions, WriteRow, WriteVersion, ListKnowledge,
         ReplaceChunks, UpsertVectors, Backfill, UpsertKeywords
    <3>2. pc[a] = "write_row"
      BY <2>1, <2>2, <3>1 DEF UndisturbedInv
    <3>3. UNCHANGED indexVars
      BY <1>4, <3>2 DEF OperationStep, Read, ListVersions, WriteRow, WriteVersion, ListKnowledge,
         ReplaceChunks, UpsertVectors, Backfill, UpsertKeywords, indexVars
    <3> QED
      BY <1>1, <1>2, <2>1, <3>3
  <2>3. CASE op[a].doc.kid # r.doc.kid
    <3>1. /\ ChunksFor(r.doc.kid)' = ChunksFor(r.doc.kid)
          /\ \A i \in vectors : i.id.kid = r.doc.kid => i \in vectors'
          /\ \A i \in keywords : i.id.kid = r.doc.kid => i \in keywords'
      <4> DEFINE kid == r.doc.kid
      <4>1. kid # op[a].doc.kid
        BY <2>3
      <4> HIDE DEF kid
      <4>2. /\ { c \in chunks' : c.id.kid = kid } = ChunksFor(kid)
            /\ \A i \in vectors : i.id.kid = kid => i \in vectors'
            /\ \A i \in keywords : i.id.kid = kid => i \in keywords'
        BY <1>4, <2>1, <4>1, OtherKids DEF ChunksFor
      <4> QED
        BY <4>2 DEF ChunksFor, kid
    <3> QED
      BY <1>1, <2>1, <3>1, PromiseStays
  <2> QED
    BY <2>2, <2>3
<1>5. CASE ClearCache(a)
  <2>1. OperationStep(a)
    BY <1>5 DEF OperationStep
  <2>2. /\ pc[a] = "clear_cache" /\ rows' = rows /\ UNCHANGED indexVars
        /\ r.id \in settled \/ (op[a].alone /\ r.id \in Touched(op[a]))
        /\ r.id \in covered' =>
             r.id \in covered \/ (op[a].alone /\ op[a].covered /\ r.id \in Touched(op[a]))
    BY <1>5, <2>1, SettledFrame
  <2>3. ASSUME op[a].alone, r.id \in Touched(op[a])
        PROVE  Settled(r) /\ (op[a].covered => Covered(r))
    <3>1. RowAccount(a, r) /\ IndexAccount(a)
      BY <2>2, <2>3 DEF Account, Indexing
    <3>2. ItemsIn(a, r.doc.kid) \subseteq op[a].items
      BY DEF ItemsIn
    <3>3. Settled(r)
      BY <2>2, <3>1 DEF RowAccount, Settled
    <3>4. op[a].covered => Covered(r)
      BY <2>2, <3>1, <3>2 DEF RowAccount, IndexAccount, CoveredAccount, Covered
    <3> QED
      BY <3>3, <3>4
  <2> QED
    BY <1>1, <1>2, <2>2, <2>3
<1> QED
  BY <1>3, <1>4, <1>5

LEMMA SettledStep == AdminInv /\ HistoryInv /\ SettledInv /\ [Next]_vars => SettledInv'
<1> SUFFICES ASSUME AdminInv, HistoryInv, SettledInv, [Next]_vars PROVE SettledInv'
  OBVIOUS
<1>1. CASE UNCHANGED vars
  BY <1>1 DEF SettledInv, HoldsOwn, Account, RowAccount, IndexAccount, CoveredAccount, ItemsIn,
              ItemsFor, ChunksFor, ItemOf, UndisturbedInv, SettledIsComplete, Active, vars, indexVars, adminVars
<1>2. ASSUME NEW a \in Admins, BeginSome(a) \/ OperationStep(a) PROVE SettledInv'
  <2>1. /\ TypeOK /\ KeysInv /\ CourseInv /\ AloneInv /\ UndisturbedInv /\ SettledIsComplete
        /\ \A b \in Admins : WriterRow(b) /\ HoldsOwn(b) /\ Account(b)
        /\ covered \subseteq settled
    BY DEF AdminInv, HistoryInv, SettledInv
  <2>2. \A b \in Admins : HoldsOwn(b)'
    BY <1>2, <2>1, HoldsOwnStep
  <2>3. \A b \in Admins : Account(b)'
    BY <1>2, <2>1, OwnAccount, OthersAccount
  <2>4. UndisturbedInv' /\ covered' \subseteq settled' /\ SettledIsComplete'
    BY <1>2, <2>1, UndisturbedStep, CoveredStep, CompleteStep
  <2> QED
    BY <2>2, <2>3, <2>4 DEF SettledInv
<1> QED
  BY <1>1, <1>2 DEF Next

LEMMA SettledInit == Init => SettledInv
  BY DEF Init, SettledInv, HoldsOwn, Account, UndisturbedInv, SettledIsComplete, Active, NoOperation,
         Indexing

\* When an operation returns without an error and nothing interfered, its row's chunks are
\* those of its content, those with a vector id are in the vector store with their text of now,
\* and if every answer covered its batch all have their vector id and are in both indexes; all
\* of it stays so until the next operation on the row, and a synchronisation answers for every
\* row.  An answer for a part of a batch is no error (service.go:671-734).
THEOREM SettledRowsAreComplete == Spec => []SettledIsComplete
<1>1. SettledInv => SettledIsComplete
  BY DEF SettledInv
<1> QED
  BY <1>1, HistoryInit, SettledInit, AdminInvAlways, HistoryStep, SettledStep, PTL DEF Spec
=============================================================================
