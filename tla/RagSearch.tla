----------------------------- MODULE RagSearch -----------------------------
(***************************************************************************)
(* Service.searchRAG (internal/chat/service.go) over the knowledge that    *)
(* KnowledgeAdmin maintains: the Redis result cache (rag_cache.go), then a *)
(* keyword and a vector goroutine side by side, each an index query        *)
(* followed by a look-up in MySQL, then the merge and the cache fill.      *)
(*                                                                         *)
(* Searches and administration overlap freely.  Scores and ranking are     *)
(* left out: the index returns any of its items, and which of the merged   *)
(* matches survive the ranking is a choice.                                *)
(***************************************************************************)
EXTENDS KnowledgeAdmin

CONSTANTS
    Searches,     \* requests that search, one at a time each
    Queries,      \* normalised query texts
    TopK,         \* 3: items asked of an index and kept after ranking
    MaxOutages    \* bound on the failures at which a call of a search fails too

ASSUME SearchAssumption == TopK \in Nat \ {0} /\ MaxOutages \in Nat

VARIABLES
    cache,    \* per query: the entry Redis holds, if any: none or one set of matches
    query,    \* per search: the query
    stage,    \* per search: where searchRAG is
    branch,   \* per search and goroutine: its stage, index items and matches
    result,   \* per search: the matches returned
    outages,  \* calls of searches that failed
    quiet,    \* ghost: searches during which, and since which, no operation was active
    dbFailed, \* ghost: searches that saw MySQL fail
    said      \* ghost: records that a row has been, in the history or not

searchVars == <<cache, query, stage, branch, result, outages, quiet, dbFailed, said>>
allVars == <<vars, searchVars>>

\* A passage as ragPassageText gives it: the content of the row, or a piece from the index.
\* What index 0 stands for is the whole content.
Match == [id : ChunkId, passage : Text, found : BOOLEAN]

Whole(content) == [content |-> content, index |-> 0]
Goroutines == {"keyword", "vector"}
NoBranch == [at |-> "index", items |-> {}, matches |-> {}]
NoBranches == [g \in Goroutines |-> NoBranch]

-----------------------------------------------------------------------------
(* The two goroutines. *)

Reply(s, g, at, items, matches) ==
    branch' = [branch EXCEPT ![s][g] = [at |-> at, items |-> items, matches |-> matches]]

Outage == outages + failures < MaxOutages /\ outages' = outages + 1

\* GetKnowledgeByChunkIDs: the chunk joined with its row, whatever the row's status.
InTable(id) == \E c \in chunks, r \in rows : c.id = id /\ r.doc.kid = id.kid

\* Mutant: whichever row the query returned first.
RowOf_First(kid) == CHOOSE r \in rows : TRUE

RowOf(kid) == CHOOSE r \in rows : r.doc.kid = kid

\* A match: the row's content when MySQL knows the chunk, the index's own text otherwise.
MatchOf(item) ==
    IF InTable(item.id)
    THEN [id |-> item.id, passage |-> Whole(RowOf(item.id.kid).doc.content), found |-> TRUE]
    ELSE [id |-> item.id, passage |-> item.text, found |-> FALSE]

\* SearchKnowledgeByKeyword: the LIKE query over the published rows' chunks.
LikeMatches ==
    { [id |-> c.id, passage |-> Whole(RowOf(c.id.kid).doc.content), found |-> TRUE] :
      c \in { d \in chunks : \E r \in rows : r.doc.kid = d.id.kid /\ r.doc.status = "published" } }

Answers(index) == { items \in SUBSET index : Cardinality(items) <= TopK }

\* Mutant: the index items are returned as matches without the look-up.
AskVectors_NoLookup(s) ==
    /\ stage[s] = "searching"
    /\ branch[s]["vector"].at = "index"
    /\ \/ \E items \in Answers(vectors) : Reply(s, "vector", "done", {}, items) /\ UNCHANGED outages
       \/ Reply(s, "vector", "error", {}, {}) /\ Outage
    /\ UNCHANGED <<vars, said, cache, query, stage, result, quiet, dbFailed>>

\* SearchVectors
AskVectors(s) ==
    /\ stage[s] = "searching"
    /\ branch[s]["vector"].at = "index"
    /\ \/ \E items \in Answers(vectors) :
            Reply(s, "vector", IF items = {} THEN "done" ELSE "lookup", items, {})
          /\ UNCHANGED outages
       \/ Reply(s, "vector", "error", {}, {}) /\ Outage
    /\ UNCHANGED <<vars, said, cache, query, stage, result, quiet, dbFailed>>

\* Mutant: an outage of the keyword index is an error of its goroutine.
AskKeywords_NoFallback(s) ==
    /\ stage[s] = "searching"
    /\ branch[s]["keyword"].at = "index"
    /\ \/ \E items \in Answers(keywords) :
            Reply(s, "keyword", IF items = {} THEN "done" ELSE "lookup", items, {})
          /\ UNCHANGED outages
       \/ Reply(s, "keyword", "error", {}, {}) /\ Outage
    /\ UNCHANGED <<vars, said, cache, query, stage, result, quiet, dbFailed>>

\* SearchKeywords; when it fails, MySQL searches.
AskKeywords(s) ==
    /\ stage[s] = "searching"
    /\ branch[s]["keyword"].at = "index"
    /\ \/ \E items \in Answers(keywords) :
            Reply(s, "keyword", IF items = {} THEN "done" ELSE "lookup", items, {})
          /\ UNCHANGED outages
       \/ Reply(s, "keyword", "fallback", {}, {}) /\ Outage
    /\ UNCHANGED <<vars, said, cache, query, stage, result, quiet, dbFailed>>

\* SearchKnowledgeByKeyword
SearchTable(s) ==
    /\ stage[s] = "searching"
    /\ branch[s]["keyword"].at = "fallback"
    /\ \/ /\ \E matches \in Answers(LikeMatches) : Reply(s, "keyword", "done", {}, matches)
          /\ UNCHANGED <<outages, dbFailed>>
       \/ Reply(s, "keyword", "error", {}, {}) /\ Outage /\ dbFailed' = dbFailed \cup {s}
    /\ UNCHANGED <<vars, said, cache, query, stage, result, quiet>>

\* GetKnowledgeByChunkIDs and the matches made of its rows.
Lookup(s, g) ==
    /\ stage[s] = "searching"
    /\ branch[s][g].at = "lookup"
    /\ \/ /\ Reply(s, g, "done", {}, { MatchOf(i) : i \in branch[s][g].items })
          /\ UNCHANGED <<outages, dbFailed>>
       \/ Reply(s, g, "error", {}, {}) /\ Outage /\ dbFailed' = dbFailed \cup {s}
    /\ UNCHANGED <<vars, said, cache, query, stage, result, quiet>>

-----------------------------------------------------------------------------
(* searchRAG. *)

\* A cache entry is returned; a miss or an error starts the goroutines.
StartSearch(s) ==
    /\ stage[s] \in {"idle", "answered", "failed"}
    /\ \E q \in Queries :
        /\ query' = [query EXCEPT ![s] = q]
        /\ \/ /\ \E entry \in cache[q] : result' = [result EXCEPT ![s] = entry]
              /\ stage' = [stage EXCEPT ![s] = "answered"]
              /\ UNCHANGED outages
           \/ /\ cache[q] = {}
              /\ stage' = [stage EXCEPT ![s] = "searching"]
              /\ result' = [result EXCEPT ![s] = {}]
              /\ UNCHANGED outages
           \/ /\ Outage
              /\ stage' = [stage EXCEPT ![s] = "searching"]
              /\ result' = [result EXCEPT ![s] = {}]
    /\ branch' = [branch EXCEPT ![s] = NoBranches]
    /\ quiet' = IF Active = {} THEN quiet \cup {s} ELSE quiet \ {s}
    /\ dbFailed' = dbFailed \ {s}
    /\ UNCHANGED <<vars, said, cache>>

At(s, g, where) == branch[s][g].at \in where

\* mergeRAGMatches keys by chunk id - of two matches for a chunk one is kept - and rerankRAGMatches
\* reorders: the TopK best remain, which ones is a choice.
Merged(s, matches) ==
    LET all == branch[s]["keyword"].matches \cup branch[s]["vector"].matches
        ids == { m.id : m \in all }
    IN  /\ matches \subseteq all
        /\ \A m, n \in matches : m.id = n.id => m = n
        /\ Cardinality(matches) = IF Cardinality(ids) <= TopK THEN Cardinality(ids) ELSE TopK

\* Mutant: one failed goroutine fails the search.
Join_EitherFails(s) ==
    /\ stage[s] = "searching"
    /\ \A g \in Goroutines : At(s, g, {"done", "error"})
    /\ IF \E g \in Goroutines : At(s, g, {"error"})
       THEN /\ stage' = [stage EXCEPT ![s] = "failed"]
            /\ UNCHANGED <<cache, result, outages>>
       ELSE /\ stage' = [stage EXCEPT ![s] = "answered"]
            /\ \E matches \in SUBSET UNION { branch[s][g].matches : g \in Goroutines } :
                /\ Merged(s, matches)
                /\ result' = [result EXCEPT ![s] = matches]
                /\ cache' = [cache EXCEPT ![query[s]] = {matches}]
            /\ UNCHANGED outages
    /\ branch' = [branch EXCEPT ![s] = NoBranches]
    /\ UNCHANGED <<vars, said, query, quiet, dbFailed>>

\* Both goroutines have answered: merge, rerank, fill the cache - whose errors are ignored.
Join(s) ==
    /\ stage[s] = "searching"
    /\ \A g \in Goroutines : At(s, g, {"done", "error"})
    /\ IF \A g \in Goroutines : At(s, g, {"error"})
       THEN /\ stage' = [stage EXCEPT ![s] = "failed"]
            /\ UNCHANGED <<cache, result, outages>>
       ELSE /\ stage' = [stage EXCEPT ![s] = "answered"]
            /\ \E matches \in SUBSET UNION { branch[s][g].matches : g \in Goroutines } :
                /\ Merged(s, matches)
                /\ result' = [result EXCEPT ![s] = matches]
                /\ \/ cache' = [cache EXCEPT ![query[s]] = {matches}] /\ UNCHANGED outages
                   \/ UNCHANGED cache /\ Outage
    /\ branch' = [branch EXCEPT ![s] = NoBranches]
    /\ UNCHANGED <<vars, said, query, quiet, dbFailed>>

SearchStep(s) ==
    \/ AskVectors(s) \/ AskKeywords(s) \/ SearchTable(s) \/ Join(s)
    \/ \E g \in Goroutines : Lookup(s, g)

-----------------------------------------------------------------------------
(* The cache and the administration. *)

\* Mutant: the entry is set without a time to live.
Expire_NoTTL(q) == FALSE

\* The five minutes of an entry are over.
Expire(q) ==
    /\ cache[q] # {}
    /\ cache' = [cache EXCEPT ![q] = {}]
    /\ UNCHANGED <<vars, said, query, stage, branch, result, outages, quiet, dbFailed>>

\* Clear: SCAN and DEL, an error of which leaves entries behind and is ignored.
Clear ==
    \/ cache' = [q \in Queries |-> {}] /\ UNCHANGED outages
    \/ /\ \E left \in SUBSET Queries :
            cache' = [q \in Queries |-> IF q \in left THEN cache[q] ELSE {}]
       /\ Outage

\* An operation of KnowledgeAdmin; the last step of a successful one clears the cache.
AdminStep(a) ==
    /\ BeginSome(a) \/ OperationStep(a)
    /\ IF pc[a] = "clear_cache"
       THEN Clear
       ELSE UNCHANGED <<cache, outages>>
    /\ quiet' = IF pc[a] = "idle" THEN {} ELSE quiet
    /\ said' = said \cup { r.doc : r \in rows' }
    /\ UNCHANGED <<query, stage, branch, result, dbFailed>>

SearchInit ==
    /\ Init
    /\ cache = [q \in Queries |-> {}]
    /\ query \in [Searches -> Queries]
    /\ stage = [s \in Searches |-> "idle"]
    /\ branch = [s \in Searches |-> NoBranches]
    /\ result = [s \in Searches |-> {}]
    /\ outages = 0
    /\ quiet = {}
    /\ dbFailed = {}
    /\ said = {}

SearchNext ==
    \/ \E s \in Searches : StartSearch(s) \/ SearchStep(s)
    \/ \E q \in Queries : Expire(q)
    \/ \E a \in Admins : AdminStep(a)

\* Calls return or fail, and Redis expires entries.
SearchSpec ==
    /\ SearchInit /\ [][SearchNext]_allVars
    /\ \A s \in Searches : WF_allVars(SearchStep(s))
    /\ \A q \in Queries : WF_allVars(Expire(q))
    /\ \A a \in Admins : WF_allVars(AdminStep(a) /\ pc[a] # "idle")

-----------------------------------------------------------------------------
(* Properties. *)

\* Types of the variables of the searches.
SearchTypeOK ==
    /\ \A q \in Queries : cache[q] \in SUBSET SUBSET Match
    /\ query \in [Searches -> Queries]
    /\ stage \in [Searches -> {"idle", "searching", "answered", "failed"}]
    /\ \A s \in Searches, g \in Goroutines :
         /\ branch[s][g].at \in {"index", "fallback", "lookup", "done", "error"}
         /\ branch[s][g].items \in SUBSET Item
         /\ branch[s][g].matches \in SUBSET Match
    /\ result \in [Searches -> SUBSET Match]
    /\ outages \in Nat

\* "OpenSearch is the main keyword recall, but its being unavailable must not block the main
\* flow of the service" (service.go:919): with a MySQL that answers, a search never fails,
\* whatever index is down.
SearchSurvivesIndexes == \A s \in Searches : stage[s] = "failed" => s \in dbFailed

\* Nobody is told what the knowledge never said: every passage of an answer or of the cache
\* is the text of a content that its knowledge id has had - not of another row's, whatever
\* overlaps or fails.  (The history does not do to say so: an operation that failed between
\* the row and the version leaves a content that a synchronisation makes searchable.)
PassagesAreKnowledge ==
    \A m \in (UNION { result[s] : s \in Searches }) \cup (UNION UNION { cache[q] : q \in Queries }) :
        \E d \in said : d.kid = m.id.kid /\ d.content = m.passage.content

\* An entry whose passages found in MySQL are what MySQL has now.
IsCurrent(q) ==
    \A m \in UNION cache[q] : m.found =>
        \E r \in rows : r.doc.kid = m.id.kid /\ m.passage = Whole(r.doc.content)

\* A stale entry - a search in flight refilled the cache after the operation had cleared it,
\* the operation failed before clearing, or clearing failed - does not outlive its five
\* minutes (rag_cache.go:63): a hit does not renew it.  Operations are bounded, so they stop.
CacheBecomesFresh == <>[](\A q \in Queries : IsCurrent(q))

\* "Drafts do not take part in the retrieval" (service.go:643): a search while no operation
\* is under way finds no knowledge whose row is a draft, if nothing ever failed or was answered
\* in part.
DraftsNotFound ==
    (failures = 0 /\ outages = 0) =>
        \A s \in quiet : stage[s] = "answered" =>
            \A m \in result[s], r \in rows :
                r.doc.kid = m.id.kid => r.doc.status = "published"

\* "Delete before insert, so that no old chunk is left to be recalled when the content of a
\* knowledge gets shorter" (mysql_store.go:901): a search while no operation is under way
\* finds only what the rows say, if nothing ever failed or was answered in part.
OldTextNotFound ==
    (failures = 0 /\ outages = 0) =>
        \A s \in quiet : stage[s] = "answered" =>
            \A m \in result[s], r \in rows :
                r.doc.kid = m.id.kid => m.passage.content = r.doc.content
=============================================================================
