------------------------- MODULE RagSearchTheorems -------------------------
(***************************************************************************)
(* The search beside the knowledge administration, for any number of       *)
(* searches, operators, queries, rows, texts and failures: types, survival *)
(* of an index's outage, and passages that are all from the knowledge.     *)
(***************************************************************************)
EXTENDS RagSearch, KnowledgeAdminTheorems

-----------------------------------------------------------------------------
(* Steps. *)

\* A step of a search leaves the knowledge alone.
LEMMA SearchFrame ==
    ASSUME \E s \in Searches : StartSearch(s) \/ SearchStep(s)
    PROVE  UNCHANGED <<vars, said>>
  BY DEF StartSearch, SearchStep, AskVectors, AskKeywords, SearchTable, Lookup, Join

\* The knowledge changes by the administration's steps only.
LEMMA KnowledgeSteps ==
    ASSUME [SearchNext]_allVars
    PROVE  [Next]_vars
  BY SearchFrame DEF SearchNext, Expire, AdminStep, Next, allVars

\* The administration beside the searches is the administration of KnowledgeAdmin: what is
\* proved of it holds here too (service.go:560-734 beside 736-1043).
THEOREM SearchImplementsAdmin == SearchSpec => Spec
<1>1. SearchInit => Init
  BY DEF SearchInit
<1>2. [SearchNext]_allVars => [Next]_vars
  BY KnowledgeSteps
<1> QED
  BY <1>1, <1>2, PTL DEF SearchSpec, Spec

-----------------------------------------------------------------------------
(* Types. *)

Places == {"index", "fallback", "lookup", "done", "error"}
BranchType(I, M) == [at : Places, items : SUBSET I, matches : SUBSET M]

\* The searches and the cache hold items of I and matches of M.
Holds(I, M) ==
    /\ cache \in [Queries -> SUBSET SUBSET M]
    /\ query \in [Searches -> Queries]
    /\ stage \in [Searches -> {"idle", "searching", "answered", "failed"}]
    /\ branch \in [Searches -> [Goroutines -> BranchType(I, M)]]
    /\ result \in [Searches -> SUBSET M]
    /\ outages \in Nat

\* Where items and matches come from: the indexes, the table, the look-up.
Supplied(I, M) ==
    /\ vectors \cup keywords \subseteq I
    /\ LikeMatches \subseteq M
    /\ \A i \in I : MatchOf(i) \in M

\* What a goroutine's reply leaves.
LEMMA ReplyType ==
    ASSUME NEW I, NEW M, Holds(I, M), NEW s \in Searches, NEW g \in Goroutines, NEW at \in Places,
           NEW items \in SUBSET I, NEW matches \in SUBSET M,
           Reply(s, g, at, items, matches)
    PROVE  branch' \in [Searches -> [Goroutines -> BranchType(I, M)]]
<1> DEFINE new == [at |-> at, items |-> items, matches |-> matches]
<1>1. new \in BranchType(I, M)
  BY DEF BranchType
<1>2. branch \in [Searches -> [Goroutines -> BranchType(I, M)]] /\ branch' = [branch EXCEPT ![s][g] = new]
  BY DEF Holds, Reply
<1> HIDE DEF new
<1> QED
  BY <1>1, <1>2

\* A step of a search passes on what it is supplied with (service.go:736-1043).
LEMMA SearchPasses ==
    ASSUME NEW I, NEW M, Holds(I, M), Supplied(I, M), NEW s \in Searches,
           StartSearch(s) \/ SearchStep(s)
    PROVE  Holds(I, M)'
<1> USE DEF Holds
<1>1. /\ {"keyword", "vector"} = Goroutines
      /\ {"index", "fallback", "lookup", "done", "error"} = Places
      /\ {} \in SUBSET I /\ {} \in SUBSET M
  BY DEF Goroutines, Places
<1>2. Outage => outages' \in Nat
  BY DEF Outage
<1>3. branch' = [branch EXCEPT ![s] = NoBranches] => branch' \in [Searches -> [Goroutines -> BranchType(I, M)]]
  BY DEF NoBranches, NoBranch, BranchType, Places
<1>4. CASE AskVectors(s)
  <2>1. ASSUME NEW items \in Answers(vectors),
               Reply(s, "vector", IF items = {} THEN "done" ELSE "lookup", items, {})
        PROVE  branch' \in [Searches -> [Goroutines -> BranchType(I, M)]]
    <3>1. items \in SUBSET I /\ (IF items = {} THEN "done" ELSE "lookup") \in Places
      BY DEF Answers, Supplied, Places
    <3> QED
      BY <2>1, <3>1, <1>1, ReplyType
  <2>2. Reply(s, "vector", "error", {}, {}) => branch' \in [Searches -> [Goroutines -> BranchType(I, M)]]
    BY <1>1, ReplyType
  <2>3. branch' \in [Searches -> [Goroutines -> BranchType(I, M)]]
    BY <1>4, <2>1, <2>2 DEF AskVectors
  <2> QED
    BY <1>4, <2>3, <1>2 DEF AskVectors
<1>5. CASE AskKeywords(s)
  <2>1. ASSUME NEW items \in Answers(keywords),
               Reply(s, "keyword", IF items = {} THEN "done" ELSE "lookup", items, {})
        PROVE  branch' \in [Searches -> [Goroutines -> BranchType(I, M)]]
    <3>1. items \in SUBSET I /\ (IF items = {} THEN "done" ELSE "lookup") \in Places
      BY DEF Answers, Supplied, Places
    <3> QED
      BY <2>1, <3>1, <1>1, ReplyType
  <2>2. Reply(s, "keyword", "fallback", {}, {}) => branch' \in [Searches -> [Goroutines -> BranchType(I, M)]]
    BY <1>1, ReplyType
  <2>3. branch' \in [Searches -> [Goroutines -> BranchType(I, M)]]
    BY <1>5, <2>1, <2>2 DEF AskKeywords
  <2> QED
    BY <1>5, <2>3, <1>2 DEF AskKeywords
<1>6. CASE SearchTable(s)
  <2>1. ASSUME NEW matches \in Answers(LikeMatches), Reply(s, "keyword", "done", {}, matches)
        PROVE  branch' \in [Searches -> [Goroutines -> BranchType(I, M)]]
    <3>1. matches \in SUBSET M
      BY DEF Answers, Supplied
    <3> QED
      BY <2>1, <3>1, <1>1, ReplyType
  <2>2. Reply(s, "keyword", "error", {}, {}) => branch' \in [Searches -> [Goroutines -> BranchType(I, M)]]
    BY <1>1, ReplyType
  <2>3. branch' \in [Searches -> [Goroutines -> BranchType(I, M)]]
    BY <1>6, <2>1, <2>2 DEF SearchTable
  <2> QED
    BY <1>6, <2>3, <1>2 DEF SearchTable
<1>7. CASE \E g \in Goroutines : Lookup(s, g)
  <2>1. PICK g \in Goroutines : Lookup(s, g)
    BY <1>7
  <2>2. branch[s][g].items \in SUBSET I
    BY DEF BranchType
  <2>3. { MatchOf(i) : i \in branch[s][g].items } \in SUBSET M
    BY <2>2 DEF Supplied
  <2>4. Reply(s, g, "done", {}, { MatchOf(i) : i \in branch[s][g].items }) =>
           branch' \in [Searches -> [Goroutines -> BranchType(I, M)]]
    BY <2>3, <1>1, ReplyType
  <2>5. Reply(s, g, "error", {}, {}) => branch' \in [Searches -> [Goroutines -> BranchType(I, M)]]
    BY <1>1, ReplyType
  <2>6. branch' \in [Searches -> [Goroutines -> BranchType(I, M)]]
    BY <2>1, <2>4, <2>5 DEF Lookup
  <2> QED
    BY <2>1, <2>6, <1>2 DEF Lookup
<1>8. CASE StartSearch(s)
  <2>1. PICK q \in Queries :
          /\ query' = [query EXCEPT ![s] = q]
          /\ \/ /\ \E entry \in cache[q] : result' = [result EXCEPT ![s] = entry]
                /\ stage' = [stage EXCEPT ![s] = "answered"]
                /\ UNCHANGED outages
             \/ /\ stage' = [stage EXCEPT ![s] = "searching"]
                /\ result' = [result EXCEPT ![s] = {}]
                /\ UNCHANGED outages \/ Outage
    BY <1>8 DEF StartSearch
  <2>2. result' \in [Searches -> SUBSET M]
    BY <2>1
  <2>3. query' \in [Searches -> Queries] /\ outages' \in Nat
        /\ stage' \in [Searches -> {"idle", "searching", "answered", "failed"}]
    BY <2>1, <1>2
  <2> QED
    BY <1>8, <1>3, <2>2, <2>3 DEF StartSearch
<1>9. CASE Join(s)
  <2>1. UNION { branch[s][g].matches : g \in Goroutines } \in SUBSET M
    BY DEF BranchType
  <2>2. \/ stage' = [stage EXCEPT ![s] = "failed"] /\ UNCHANGED <<cache, result, outages>>
        \/ /\ stage' = [stage EXCEPT ![s] = "answered"]
           /\ \E matches \in SUBSET UNION { branch[s][g].matches : g \in Goroutines } :
               /\ result' = [result EXCEPT ![s] = matches]
               /\ \/ cache' = [cache EXCEPT ![query[s]] = {matches}] /\ UNCHANGED outages
                  \/ UNCHANGED cache /\ Outage
    BY <1>9 DEF Join
  <2>3. CASE stage' = [stage EXCEPT ![s] = "failed"] /\ UNCHANGED <<cache, result, outages>>
    BY <2>3, <1>9, <1>3 DEF Join
  <2>4. ASSUME NEW matches \in SUBSET UNION { branch[s][g].matches : g \in Goroutines },
               stage' = [stage EXCEPT ![s] = "answered"],
               result' = [result EXCEPT ![s] = matches],
               \/ cache' = [cache EXCEPT ![query[s]] = {matches}] /\ UNCHANGED outages
               \/ UNCHANGED cache /\ Outage
        PROVE  Holds(I, M)'
    <3>1. matches \in SUBSET M
      BY <2>1
    <3>2. result' \in [Searches -> SUBSET M]
      BY <2>4, <3>1
    <3>3. cache' \in [Queries -> SUBSET SUBSET M] /\ outages' \in Nat
      BY <2>4, <3>1, <1>2
    <3>4. stage' \in [Searches -> {"idle", "searching", "answered", "failed"}] /\ query' = query
      BY <2>4, <1>9 DEF Join
    <3> QED
      BY <3>2, <3>3, <3>4, <1>9, <1>3 DEF Join
  <2> QED
    BY <2>2, <2>3, <2>4
<1> QED
  BY <1>4, <1>5, <1>6, <1>7, <1>8, <1>9 DEF SearchStep

\* Expiry and clearing only take entries away.
LEMMA CachePasses ==
    ASSUME NEW I, NEW M, Holds(I, M),
           (\E q \in Queries : Expire(q)) \/ (\E a \in Admins : AdminStep(a)) \/ UNCHANGED allVars
    PROVE  Holds(I, M)'
<1> USE DEF Holds
<1>1. CASE \E q \in Queries : Expire(q)
  BY <1>1 DEF Expire
<1>2. CASE \E a \in Admins : AdminStep(a)
  <2>1. cache' \in [Queries -> SUBSET SUBSET M] /\ outages' \in Nat
    BY <1>2 DEF AdminStep, Clear, Outage
  <2> QED
    BY <1>2, <2>1 DEF AdminStep
<1>3. CASE UNCHANGED allVars
  BY <1>3 DEF allVars, searchVars
<1> QED
  BY <1>1, <1>2, <1>3

\* A row the join finds.
LEMMA RowFound ==
    ASSUME TypeOK, NEW kid, \E r \in rows : r.doc.kid = kid
    PROVE  RowOf(kid) \in rows /\ RowOf(kid).doc.kid = kid /\ RowOf(kid).doc \in Doc
<1>1. RowOf(kid) \in rows /\ RowOf(kid).doc.kid = kid
  BY DEF RowOf
<1>2. \A r \in rows : r.doc \in Doc
  BY DEF TypeOK, Row
<1> QED
  BY <1>1, <1>2

\* A passage made of a row, or of an item.
LEMMA MatchType ==
    ASSUME TypeOK
    PROVE  /\ \A i \in Item : MatchOf(i) \in Match
           /\ LikeMatches \subseteq Match
<1>1. \A doc \in Doc : Whole(doc.content) \in Text
  BY DEF Whole, Text, Doc
<1>2. ASSUME NEW i \in Item
      PROVE  MatchOf(i) \in Match
  <2>1. i.id \in ChunkId /\ i.text \in Text
    BY DEF Item
  <2>2. CASE InTable(i.id)
    <3>1. RowOf(i.id.kid).doc \in Doc
      BY <2>2, RowFound DEF InTable
    <3> QED
      BY <2>1, <2>2, <3>1, <1>1 DEF MatchOf, Match
  <2>3. CASE ~InTable(i.id)
    BY <2>1, <2>3 DEF MatchOf, Match
  <2> QED
    BY <2>2, <2>3
<1>3. ASSUME NEW c \in chunks, \E r \in rows : r.doc.kid = c.id.kid
      PROVE  [id |-> c.id, passage |-> Whole(RowOf(c.id.kid).doc.content), found |-> TRUE] \in Match
  <2>1. c.id \in ChunkId
    BY DEF TypeOK, Chunk
  <2>2. RowOf(c.id.kid).doc \in Doc
    BY <1>3, RowFound
  <2> QED
    BY <2>1, <2>2, <1>1 DEF Match
<1>4. LikeMatches \subseteq Match
  <2> SUFFICES ASSUME NEW m \in LikeMatches PROVE m \in Match
    OBVIOUS
  <2>1. PICK c \in chunks :
          /\ \E r \in rows : r.doc.kid = c.id.kid /\ r.doc.status = "published"
          /\ m = [id |-> c.id, passage |-> Whole(RowOf(c.id.kid).doc.content), found |-> TRUE]
    BY DEF LikeMatches
  <2> QED
    BY <2>1, <1>3
<1> QED
  BY <1>2, <1>4

\* The searches' part of a step, whoever takes it.
LEMMA HoldsStep ==
    ASSUME NEW I, NEW M, Holds(I, M), Supplied(I, M), [SearchNext]_allVars
    PROVE  Holds(I, M)'
  BY SearchPasses, CachePasses DEF SearchNext

\* In the beginning nothing is held.
LEMMA HoldsInit ==
    ASSUME NEW I, NEW M, SearchInit
    PROVE  Holds(I, M)
  BY DEF SearchInit, Holds, NoBranches, NoBranch, BranchType, Places, Goroutines

\* Types of the searches, the cache and the counters, whatever the administration does
\* meanwhile (service.go:736-1043, rag_cache.go).
THEOREM SearchTypesHold == SearchSpec => []SearchTypeOK
<1>1. SearchInit => TypeOK /\ Holds(Item, Match)
  BY TypeInit, HoldsInit DEF SearchInit
<1>2. TypeOK /\ Holds(Item, Match) /\ [SearchNext]_allVars => TypeOK' /\ Holds(Item, Match)'
  <2> SUFFICES ASSUME TypeOK, Holds(Item, Match), [SearchNext]_allVars
               PROVE  TypeOK' /\ Holds(Item, Match)'
    OBVIOUS
  <2>1. Supplied(Item, Match)
    BY MatchType DEF Supplied, TypeOK
  <2> QED
    BY <2>1, HoldsStep, KnowledgeSteps, TypeStep
<1>3. Holds(Item, Match) => SearchTypeOK
  BY DEF Holds, SearchTypeOK, BranchType, Places
<1> QED
  BY <1>1, <1>2, <1>3, PTL DEF SearchSpec

-----------------------------------------------------------------------------
(* An index that is down. *)

\* The keyword goroutine gives up only when MySQL has failed it.
SurvivalInv ==
    \A s \in Searches :
        stage[s] = "failed" \/ branch[s]["keyword"].at = "error" => s \in dbFailed

\* What a reply says where.
LEMMA ReplyPlace ==
    ASSUME NEW I, NEW M, Holds(I, M), NEW s \in Searches, NEW g \in Goroutines, NEW at,
           NEW items, NEW matches, Reply(s, g, at, items, matches)
    PROVE  /\ branch'[s][g].at = at
           /\ \A h \in Goroutines : h # g => branch'[s][h] = branch[s][h]
           /\ \A t \in Searches : t # s => branch'[t] = branch[t]
<1> DEFINE new == [at |-> at, items |-> items, matches |-> matches]
<1>1. branch \in [Searches -> [Goroutines -> BranchType(I, M)]] /\ branch' = [branch EXCEPT ![s][g] = new]
  BY DEF Holds, Reply
<1>2. new.at = at
  OBVIOUS
<1> HIDE DEF new
<1>3. /\ branch'[s][g] = new
      /\ \A h \in Goroutines : h # g => branch'[s][h] = branch[s][h]
      /\ \A t \in Searches : t # s => branch'[t] = branch[t]
  <2>1. branch[s] \in [Goroutines -> BranchType(I, M)]
    BY <1>1
  <2>2. branch'[s] = [branch[s] EXCEPT ![g] = new] /\ \A t \in Searches : t # s => branch'[t] = branch[t]
    BY <1>1
  <2> QED
    BY <2>1, <2>2
<1> QED
  BY <1>2, <1>3

\* Every step keeps it (service.go:736-790, 915-940).
LEMMA SurvivalStep ==
    ASSUME NEW I, NEW M, Holds(I, M), SurvivalInv, [SearchNext]_allVars
    PROVE  SurvivalInv'
<1>1. "keyword" \in Goroutines /\ "vector" \in Goroutines /\ "keyword" # "vector"
  BY DEF Goroutines
<1>2. CASE \E s \in Searches : StartSearch(s) \/ SearchStep(s)
  <2>1. PICK s \in Searches : StartSearch(s) \/ SearchStep(s)
    BY <1>2
  <2> DEFINE Fine(t) == stage[t] = "failed" \/ branch[t]["keyword"].at = "error" => t \in dbFailed
  <2> SUFFICES \A t \in Searches : Fine(t)'
    BY DEF SurvivalInv
  <2>2. \A t \in Searches : Fine(t)
    BY DEF SurvivalInv
  <2>3. ASSUME NEW g \in Goroutines, NEW at, NEW items, NEW matches, Reply(s, g, at, items, matches),
               stage' = stage, dbFailed \subseteq dbFailed',
               g = "vector" \/ at # "error" \/ s \in dbFailed'
        PROVE  \A t \in Searches : Fine(t)'
    <3>1. /\ branch'[s][g].at = at
          /\ \A h \in Goroutines : h # g => branch'[s][h] = branch[s][h]
          /\ \A t \in Searches : t # s => branch'[t] = branch[t]
      BY <2>3, ReplyPlace
    <3>2. branch'[s]["keyword"].at = "error" => branch[s]["keyword"].at = "error" \/ s \in dbFailed'
      BY <2>3, <3>1, <1>1 DEF Goroutines
    <3> QED
      BY <2>2, <2>3, <3>1, <3>2
  <2>4. ASSUME branch' = [branch EXCEPT ![s] = NoBranches]
        PROVE  /\ branch'[s]["keyword"].at = "index"
               /\ \A t \in Searches : t # s => branch'[t] = branch[t]
    BY <2>4, <1>1 DEF Holds, NoBranches, NoBranch
  <2>5. CASE AskVectors(s)
    BY <2>5, <2>3, <1>1 DEF AskVectors
  <2>6. CASE AskKeywords(s)
    <3>1. \A items : (IF items = {} THEN "done" ELSE "lookup") # "error"
      OBVIOUS
    <3> QED
      BY <2>6, <3>1, <2>3, <1>1 DEF AskKeywords
  <2>7. CASE SearchTable(s)
    BY <2>7, <2>3, <1>1 DEF SearchTable
  <2>8. CASE \E g \in Goroutines : Lookup(s, g)
    BY <2>8, <2>3 DEF Lookup
  <2>9. CASE StartSearch(s)
    <3>1. stage'[s] # "failed" /\ \A t \in Searches \ {s} : stage'[t] = stage[t] /\ (t \in dbFailed => t \in dbFailed')
      BY <2>9 DEF StartSearch, Holds
    <3> QED
      BY <2>9, <3>1, <2>2, <2>4 DEF StartSearch
  <2>10. CASE Join(s)
    <3>1. /\ dbFailed' = dbFailed /\ \A t \in Searches \ {s} : stage'[t] = stage[t]
          /\ stage'[s] = "failed" => branch[s]["keyword"].at = "error"
      BY <2>10, <1>1 DEF Join, Holds, At
    <3> QED
      BY <2>10, <3>1, <2>2, <2>4 DEF Join
  <2> QED
    BY <2>1, <2>5, <2>6, <2>7, <2>8, <2>9, <2>10 DEF SearchStep
<1>3. CASE (\E q \in Queries : Expire(q)) \/ (\E a \in Admins : AdminStep(a)) \/ UNCHANGED allVars
  <2>1. UNCHANGED <<stage, branch, dbFailed>>
    BY <1>3 DEF Expire, AdminStep, allVars, searchVars
  <2> QED
    BY <2>1 DEF SurvivalInv
<1> QED
  BY <1>2, <1>3 DEF SearchNext

\* A search fails only if MySQL failed it, whatever index is down (service.go:919).
THEOREM SearchesSurviveIndexes == SearchSpec => []SearchSurvivesIndexes
<1>1. SearchInit => TypeOK /\ Holds(Item, Match) /\ SurvivalInv
  BY TypeInit, HoldsInit DEF SearchInit, SurvivalInv, NoBranches, NoBranch, Goroutines
<1>2. TypeOK /\ Holds(Item, Match) /\ SurvivalInv /\ [SearchNext]_allVars
        => TypeOK' /\ Holds(Item, Match)' /\ SurvivalInv'
  <2> SUFFICES ASSUME TypeOK, Holds(Item, Match), SurvivalInv, [SearchNext]_allVars
               PROVE  TypeOK' /\ Holds(Item, Match)' /\ SurvivalInv'
    OBVIOUS
  <2>1. Supplied(Item, Match)
    BY MatchType DEF Supplied, TypeOK
  <2> QED
    BY <2>1, HoldsStep, KnowledgeSteps, TypeStep, SurvivalStep
<1>3. SurvivalInv => SearchSurvivesIndexes
  BY DEF SurvivalInv, SearchSurvivesIndexes
<1> QED
  BY <1>1, <1>2, <1>3, PTL DEF SearchSpec

-----------------------------------------------------------------------------
(* Passages of the knowledge. *)

\* A text under the knowledge id that has had it.
SaidOf(kid, content) == \E d \in said : d.kid = kid /\ d.content = content
SaidItems == { i \in Item : SaidOf(i.id.kid, i.text.content) }
SaidMatches == { m \in Match : SaidOf(m.id.kid, m.passage.content) }

\* What is said is in the rows, in the texts of the operations and in the indexes.
SaidWork(a) ==
    /\ pc[a] = "write_version" \/ (op[a].kind = "publish" /\ pc[a] = "write_row") =>
         SaidOf(op[a].doc.kid, op[a].doc.content)
    /\ pc[a] = "list_versions" => op[a].kind # "publish"
    /\ op[a].items \subseteq SaidItems /\ op[a].todo \subseteq SaidItems

SaidInv ==
    /\ \A r \in rows : r.doc \in said
    /\ \A a \in Admins : SaidWork(a)
    /\ vectors \subseteq SaidItems /\ keywords \subseteq SaidItems

\* The chunks of a text that was said are items that were.
LEMMA SaidChunks ==
    ASSUME NEW doc \in Doc, SaidOf(doc.kid, doc.content)
    PROVE  ChunksOf(doc) \subseteq SaidItems
<1>1. ChunksOf(doc) \subseteq Item /\ ChunksOf(doc) \subseteq BuildChunks(doc)
  BY ItemsOfDoc
<1>2. \A i \in BuildChunks(doc) : i.id.kid = doc.kid /\ i.text.content = doc.content
  BY DEF BuildChunks
<1> QED
  BY <1>1, <1>2 DEF SaidItems

\* What has been said stays said.
LEMMA SaidStays ==
    ASSUME said \subseteq said'
    PROVE  /\ \A kid, content : SaidOf(kid, content) => SaidOf(kid, content)'
           /\ SaidItems \subseteq SaidItems' /\ SaidMatches \subseteq SaidMatches'
  BY DEF SaidOf, SaidItems, SaidMatches

\* A look-up and the table supply what was said.
LEMMA SaidSupplied ==
    ASSUME TypeOK, SaidInv
    PROVE  Supplied(SaidItems, SaidMatches)
<1>1. \A content : Whole(content).content = content
  BY DEF Whole
<1>2. ASSUME NEW kid, \E r \in rows : r.doc.kid = kid
      PROVE  SaidOf(kid, RowOf(kid).doc.content)
  BY <1>2, RowFound DEF SaidInv, SaidOf
<1>3. ASSUME NEW i \in SaidItems
      PROVE  MatchOf(i) \in SaidMatches
  <2>1. i \in Item /\ MatchOf(i) \in Match /\ SaidOf(i.id.kid, i.text.content)
    BY MatchType DEF SaidItems
  <2>2. CASE InTable(i.id)
    <3>1. SaidOf(i.id.kid, RowOf(i.id.kid).doc.content)
      BY <2>2, <1>2 DEF InTable
    <3>2. /\ MatchOf(i).id = i.id
          /\ MatchOf(i).passage.content = RowOf(i.id.kid).doc.content
      BY <2>2, <1>1 DEF MatchOf
    <3> QED
      BY <2>1, <3>1, <3>2 DEF SaidMatches
  <2>3. CASE ~InTable(i.id)
    BY <2>1, <2>3 DEF MatchOf, SaidMatches
  <2> QED
    BY <2>2, <2>3
<1>4. ASSUME NEW m \in LikeMatches
      PROVE  m \in SaidMatches
  <2>1. PICK c \in chunks :
          /\ \E r \in rows : r.doc.kid = c.id.kid /\ r.doc.status = "published"
          /\ m = [id |-> c.id, passage |-> Whole(RowOf(c.id.kid).doc.content), found |-> TRUE]
    BY DEF LikeMatches
  <2>2. m \in Match
    BY MatchType
  <2>3. m.id.kid = c.id.kid /\ m.passage.content = RowOf(c.id.kid).doc.content
    BY <2>1, <1>1
  <2>4. SaidOf(m.id.kid, m.passage.content)
    BY <2>1, <2>3, <1>2
  <2> QED
    BY <2>2, <2>4 DEF SaidMatches
<1> QED
  BY <1>3, <1>4 DEF Supplied, SaidInv

\* The administration's step records its rows.
LEMMA SaidRows ==
    ASSUME NEW a \in Admins, AdminStep(a)
    PROVE  said \subseteq said' /\ \A r \in rows' : r.doc \in said'
  BY DEF AdminStep

\* An operation that is over, or begins, holds nothing.
LEMMA SaidEmpty ==
    ASSUME TypeOK, NEW a \in Admins,
           \/ BeginSome(a)
           \/ Abandon(a) \/ Finish(a)
           \/ pc' = [pc EXCEPT ![a] = "idle"] /\ op' = [op EXCEPT ![a] = NoOperation]
    PROVE  SaidWork(a)'
<1>1. pc \in [Admins -> Stages] /\ op \in [Admins -> Operation]
  BY DEF TypeOK
<1>2. CASE BeginSome(a)
  BY <1>2, BegunKind DEF SaidWork
<1>3. CASE pc' = [pc EXCEPT ![a] = "idle"] /\ op' = [op EXCEPT ![a] = NoOperation]
  <2>1. pc'[a] = "idle" /\ op'[a].items = {} /\ op'[a].todo = {}
    BY <1>1, <1>3 DEF NoOperation
  <2> QED
    BY <2>1 DEF SaidWork
<1> QED
  BY <1>2, <1>3 DEF Abandon, Finish

\* An operation works with what was said.
LEMMA OwnSaid ==
    ASSUME TypeOK, SaidInv, NEW a \in Admins, AdminStep(a)
    PROVE  SaidWork(a)'
<1>1. /\ pc \in [Admins -> Stages] /\ op \in [Admins -> Operation] /\ op[a] \in Operation
      /\ op[a].doc \in Doc /\ \A r \in rows : r.doc \in Doc
  BY DEF TypeOK, Operation, Row
<1>2. SaidWork(a) /\ \A r \in rows : r.doc \in said
  BY DEF SaidInv
<1>3. /\ \A kid, content : SaidOf(kid, content) => SaidOf(kid, content)'
      /\ SaidItems \subseteq SaidItems'
      /\ \A r \in rows' : r.doc \in said'
  BY SaidRows, SaidStays
<1>4. ASSUME op'[a].items \subseteq SaidItems, op'[a].todo \subseteq SaidItems,
             pc'[a] \notin {"write_version", "write_row", "list_versions"}
      PROVE  SaidWork(a)'
  BY <1>3, <1>4 DEF SaidWork
<1>5. op[a].items \subseteq SaidItems /\ op[a].todo \subseteq SaidItems
  BY <1>2 DEF SaidWork
<1>6. CASE BeginSome(a) \/ Abandon(a) \/ Finish(a)
           \/ (pc' = [pc EXCEPT ![a] = "idle"] /\ op' = [op EXCEPT ![a] = NoOperation])
  BY <1>6, SaidEmpty
<1>7. CASE Read(a) /\ ~Abandon(a)
  <2>1. PICK r \in rows : op'[a].doc = AsRead(a, r.doc)
    BY <1>7, ReadOperation
  <2>2. /\ op'[a].items = op[a].items /\ op'[a].todo = op[a].todo /\ op'[a].kind = op[a].kind
        /\ op'[a].doc.kid = r.doc.kid /\ op'[a].doc.content = r.doc.content
        /\ pc'[a] # "write_version" /\ (pc'[a] = "list_versions" => op'[a].kind # "publish")
    BY <1>7, <2>1, <1>1, ReadOperation DEF AsRead, Doc
  <2>3. r.doc \in said'
    BY <1>2, SaidRows
  <2>4. SaidOf(op[a].doc.kid, op[a].doc.content)'
    BY <2>2, <2>3 DEF SaidOf
  <2> QED
    BY <2>2, <2>4, <1>5, <1>3 DEF SaidWork
<1>8. CASE ListVersions(a) /\ ~Abandon(a)
  <2>1. PICK v \in versions : op' = [op EXCEPT ![a].doc = v] /\ pc' = [pc EXCEPT ![a] = "write_row"]
    BY <1>8 DEF ListVersions, Continue
  <2>2. /\ op'[a].items = op[a].items /\ op'[a].todo = op[a].todo /\ op'[a].kind = op[a].kind
        /\ op[a].kind # "publish" /\ pc'[a] = "write_row"
    BY <2>1, <1>1, <1>2, <1>8 DEF Operation, SaidWork, ListVersions
  <2> QED
    BY <2>2, <1>5, <1>3 DEF SaidWork
<1>9. CASE WriteRow(a) /\ pc'[a] = "write_version"
  <2>1. /\ rows' = Written(a) /\ op' = op /\ pc[a] = "write_row"
    BY <1>9, <1>1 DEF WriteRow, Continue, Abandon
  <2>2. CASE op[a].kind = "publish"
    <3>1. SaidOf(op[a].doc.kid, op[a].doc.content)
      BY <2>1, <2>2, <1>2 DEF SaidWork
    <3>2. SaidOf(op[a].doc.kid, op[a].doc.content)'
      BY <3>1, <2>1, SaidRows DEF SaidOf
    <3> QED
      BY <3>2, <2>1, <1>9, <1>5, <1>3 DEF SaidWork
  <2>3. CASE op[a].kind # "publish"
    <3>1. [id |-> op[a].id, doc |-> op[a].doc] \in rows'
      BY <2>1, <2>3 DEF Written, RowsWith
    <3>2. op[a].doc \in said'
      BY <3>1, <1>3
    <3>3. SaidOf(op[a].doc.kid, op[a].doc.content)'
      BY <3>2, <2>1 DEF SaidOf
    <3> QED
      BY <3>3, <2>1, <1>9, <1>5, <1>3 DEF SaidWork
  <2> QED
    BY <2>2, <2>3
<1>10. CASE WriteVersion(a) /\ ~Abandon(a)
  <2>1. /\ op' = [op EXCEPT ![a].items = ChunksOf(op[a].doc)]
        /\ pc' = [pc EXCEPT ![a] = "replace_chunks"] /\ pc[a] = "write_version"
    BY <1>10 DEF WriteVersion, Continue
  <2>2. op'[a].items = ChunksOf(op[a].doc) /\ op'[a].todo = op[a].todo /\ pc'[a] = "replace_chunks"
    BY <2>1, <1>1 DEF Operation
  <2>3. ChunksOf(op[a].doc) \subseteq SaidItems
    BY <2>1, <1>1, <1>2, SaidChunks DEF SaidWork
  <2> QED
    BY <2>2, <2>3, <1>4, <1>5
<1>11. CASE ListKnowledge(a) /\ ~Abandon(a)
  <2>1. /\ op' = [op EXCEPT ![a].items = UNION { ChunksOf(r.doc) : r \in rows }]
        /\ pc' = [pc EXCEPT ![a] = "replace_chunks"]
    BY <1>11 DEF ListKnowledge, Continue
  <2>2. op'[a].items = UNION { ChunksOf(r.doc) : r \in rows } /\ op'[a].todo = op[a].todo
        /\ pc'[a] = "replace_chunks"
    BY <2>1, <1>1 DEF Operation
  <2>3. ASSUME NEW r \in rows PROVE ChunksOf(r.doc) \subseteq SaidItems
    BY <1>1, <1>2, SaidChunks DEF SaidOf
  <2> QED
    BY <2>2, <2>3, <1>4, <1>5
<1>12. CASE (ReplaceChunks(a) \/ Backfill(a)) /\ ~Abandon(a)
  <2>1. /\ op' = [op EXCEPT ![a].todo = op[a].items]
        /\ pc' = [pc EXCEPT ![a] = pc'[a]] /\ pc'[a] \in {"clear_cache", "upsert_vectors", "upsert_keywords"}
    BY <1>12, <1>1 DEF ReplaceChunks, Backfill, Continue
  <2>2. op'[a].items = op[a].items /\ op'[a].todo = op[a].items
    BY <2>1, <1>1 DEF Operation
  <2> QED
    BY <2>1, <2>2, <1>4, <1>5
<1>13. CASE UpsertVectors(a) /\ ~Abandon(a)
  <2>1. PICK batch \in SUBSET op[a].todo : \E taken \in SUBSET batch, listed \in SUBSET batch :
          /\ listed \subseteq taken /\ vectors' = Upsert(vectors, taken)
          /\ op' = [op EXCEPT ![a] = VectorsAnswered(op[a], batch, listed)]
          /\ pc' = [pc EXCEPT ![a] = IF op[a].todo = batch THEN "backfill" ELSE "upsert_vectors"]
    BY <1>13, VectorsSent
  <2>2. PICK listed \in SUBSET batch :
          op'[a] = VectorsAnswered(op[a], batch, listed) /\ pc'[a] \in {"backfill", "upsert_vectors"}
    BY <1>1, <2>1
  <2>3. op'[a].items = op[a].items /\ op'[a].todo = op[a].todo \ batch
    BY <1>1, <2>2 DEF Operation, VectorsAnswered
  <2> QED
    BY <2>2, <2>3, <1>4, <1>5
<1>14. CASE UpsertKeywords(a) /\ ~Abandon(a)
  <2>1. PICK batch \in SUBSET op[a].todo : \E taken \in SUBSET batch :
          /\ keywords' = Upsert(keywords, taken)
          /\ op' = [op EXCEPT ![a] = KeywordsAnswered(op[a], batch, taken)]
          /\ pc' = [pc EXCEPT ![a] = IF op[a].todo = batch THEN "clear_cache" ELSE "upsert_keywords"]
    BY <1>14, KeywordsSent
  <2>2. PICK taken \in SUBSET batch :
          op'[a] = KeywordsAnswered(op[a], batch, taken) /\ pc'[a] \in {"clear_cache", "upsert_keywords"}
    BY <1>1, <2>1
  <2>3. op'[a].items = op[a].items /\ op'[a].todo = op[a].todo \ batch
    BY <1>1, <2>2 DEF Operation, KeywordsAnswered
  <2> QED
    BY <2>2, <2>3, <1>4, <1>5
<1>15. CASE ClearCache(a)
  BY <1>6, <1>15 DEF ClearCache
<1>16. CASE WriteRow(a) /\ pc'[a] # "write_version"
  BY <1>6, <1>16, <1>1 DEF WriteRow, Continue, Stages
<1>17. CASE OperationStep(a)
  BY <1>6, <1>7, <1>8, <1>9, <1>10, <1>11, <1>12, <1>13, <1>14, <1>15, <1>16, <1>17 DEF OperationStep
<1> QED
  BY <1>6, <1>17 DEF AdminStep

\* The indexes are given items of the operations only.
LEMMA SaidIndexes ==
    ASSUME TypeOK, SaidInv, NEW a \in Admins, AdminStep(a)
    PROVE  vectors' \cup keywords' \subseteq SaidItems'
<1>1. vectors \cup keywords \cup op[a].todo \subseteq SaidItems
  BY DEF SaidInv, SaidWork
<1>2. CASE UNCHANGED <<vectors, keywords>>
  BY <1>1, <1>2, SaidRows, SaidStays
<1>3. CASE UpsertVectors(a) \/ UpsertKeywords(a)
  <2>1. PICK taken \in SUBSET op[a].todo :
          /\ vectors' \in {vectors, Upsert(vectors, taken)}
          /\ keywords' \in {keywords, Upsert(keywords, taken)}
    BY <1>3 DEF UpsertVectors, UpsertKeywords
  <2>2. vectors' \cup keywords' \subseteq SaidItems
    BY <2>1, <1>1 DEF Upsert
  <2> QED
    BY <2>2, SaidRows, SaidStays
<1>4. AdminStep(a) => UNCHANGED <<vectors, keywords>> \/ UpsertVectors(a) \/ UpsertKeywords(a)
  <2>1. BeginSome(a) => UNCHANGED indexVars
    BY DEF BeginSome, Create, Update, Publish, Rollback, Sync, Begin
  <2>2. OperationStep(a) => UNCHANGED <<vectors, keywords>> \/ UpsertVectors(a) \/ UpsertKeywords(a)
    BY DEF OperationStep, Read, ListVersions, WriteRow, WriteVersion, ListKnowledge, ReplaceChunks,
           Backfill, ClearCache, indexVars
  <2> QED
    BY <2>1, <2>2 DEF AdminStep, indexVars
<1> QED
  BY <1>2, <1>3, <1>4

LEMMA SaidStep == TypeOK /\ SaidInv /\ [SearchNext]_allVars => SaidInv' /\ said \subseteq said'
<1> SUFFICES ASSUME TypeOK, SaidInv, [SearchNext]_allVars
             PROVE  SaidInv' /\ said \subseteq said'
  OBVIOUS
<1>1. CASE UNCHANGED <<vars, said>>
  BY <1>1 DEF SaidInv, SaidWork, SaidItems, SaidOf, vars, indexVars, adminVars
<1>2. ASSUME NEW a \in Admins, AdminStep(a)
      PROVE  SaidInv' /\ said \subseteq said'
  <2>1. ASSUME NEW b \in Admins, b # a
        PROVE  SaidWork(b)'
    <3>1. /\ pc'[b] = pc[b] /\ op'[b].kind = op[b].kind /\ op'[b].doc = op[b].doc
          /\ op'[b].items = op[b].items /\ op'[b].todo = op[b].todo
      BY <1>2, <2>1, OthersKeepTheirWork DEF AdminStep
    <3>2. SaidWork(b)
      BY DEF SaidInv
    <3>3. said \subseteq said' /\ SaidItems \subseteq SaidItems'
      BY <1>2, SaidRows, SaidStays
    <3>4. SaidOf(op[b].doc.kid, op[b].doc.content) => SaidOf(op[b].doc.kid, op[b].doc.content)'
      BY <3>1, <3>3 DEF SaidOf
    <3> QED
      BY <3>1, <3>2, <3>3, <3>4 DEF SaidWork
  <2>2. SaidWork(a)'
    BY <1>2, OwnSaid
  <2>3. vectors' \cup keywords' \subseteq SaidItems'
    BY <1>2, SaidIndexes
  <2>4. said \subseteq said' /\ \A r \in rows' : r.doc \in said'
    BY <1>2, SaidRows
  <2> QED
    BY <2>1, <2>2, <2>3, <2>4 DEF SaidInv
<1>3. [SearchNext]_allVars => UNCHANGED <<vars, said>> \/ \E a \in Admins : AdminStep(a)
  BY SearchFrame DEF SearchNext, Expire, allVars, searchVars
<1> QED
  BY <1>1, <1>2, <1>3

\* Whatever a search passes on was said (service.go:736-1043).
LEMMA PassagesStep ==
    TypeOK /\ SaidInv /\ Holds(SaidItems, SaidMatches) /\ [SearchNext]_allVars
        => Holds(SaidItems, SaidMatches)'
<1> SUFFICES ASSUME TypeOK, SaidInv, Holds(SaidItems, SaidMatches), [SearchNext]_allVars
             PROVE  Holds(SaidItems, SaidMatches)'
  OBVIOUS
<1>1. PICK I, M : I = SaidItems /\ M = SaidMatches
  OBVIOUS
<1>2. Holds(I, M) /\ Supplied(I, M)
  BY <1>1, SaidSupplied
<1>3. Holds(I, M)'
  BY <1>2, HoldsStep
<1>4. I \subseteq SaidItems' /\ M \subseteq SaidMatches'
  BY <1>1, SaidStep, SaidStays
<1>5. PICK J, N : J = SaidItems' /\ N = SaidMatches'
  OBVIOUS
<1>6. SUBSET M \subseteq SUBSET N /\ SUBSET SUBSET M \subseteq SUBSET SUBSET N
      /\ BranchType(I, M) \subseteq BranchType(J, N)
  BY <1>4, <1>5 DEF BranchType
<1>7. /\ cache' \in [Queries -> SUBSET SUBSET N] /\ result' \in [Searches -> SUBSET N]
      /\ branch' \in [Searches -> [Goroutines -> BranchType(J, N)]]
  BY <1>3, <1>6 DEF Holds
<1> QED
  BY <1>3, <1>5, <1>7 DEF Holds

\* Every passage of an answer or of the cache is a text that its knowledge id has had
\* (service.go:746-790, rag_cache.go:63).
THEOREM PassagesAreFromKnowledge == SearchSpec => []PassagesAreKnowledge
<1> DEFINE Inv == TypeOK /\ SaidInv /\ Holds(SaidItems, SaidMatches)
<1>1. SearchInit => Inv
  <2>1. SearchInit => SaidInv
    BY DEF SearchInit, Init, SaidInv, SaidWork, NoOperation
  <2> QED
    BY <2>1, TypeInit, HoldsInit DEF SearchInit
<1>2. Inv /\ [SearchNext]_allVars => Inv'
  BY TypeStep, KnowledgeSteps, SaidStep, PassagesStep
<1>3. Inv => PassagesAreKnowledge
  <2> SUFFICES ASSUME Holds(SaidItems, SaidMatches),
                      NEW m \in (UNION { result[s] : s \in Searches })
                                 \cup (UNION UNION { cache[q] : q \in Queries })
               PROVE  SaidOf(m.id.kid, m.passage.content)
    BY DEF PassagesAreKnowledge, SaidOf
  <2>1. /\ \A s \in Searches : result[s] \subseteq SaidMatches
        /\ \A q \in Queries : UNION cache[q] \subseteq SaidMatches
    BY DEF Holds
  <2>2. CASE m \in UNION { result[s] : s \in Searches }
    <3>1. PICK s \in Searches : m \in result[s]
      BY <2>2
    <3> QED
      BY <2>1, <3>1 DEF SaidMatches
  <2>3. CASE m \in UNION UNION { cache[q] : q \in Queries }
    <3>1. PICK e \in UNION { cache[q] : q \in Queries } : m \in e
      BY <2>3
    <3>2. PICK q \in Queries : e \in cache[q]
      BY <3>1
    <3> QED
      BY <2>1, <3>1, <3>2 DEF SaidMatches
  <2> QED
    BY <2>2, <2>3
<1> QED
  BY <1>1, <1>2, <1>3, PTL DEF SearchSpec
=============================================================================
