----------------------------- MODULE RagRanking -----------------------------
(***************************************************************************)
(* What Service.searchRAG does with what its two goroutines found, and     *)
(* what Send makes of it (internal/chat/service.go): the matches of both   *)
(* are merged by chunk, weighed by the words they share with the query,    *)
(* sorted and cut; the AI service reranks them; then Send answers with the *)
(* best passage itself, asks the model, or falls back.                     *)
(*                                                                         *)
(* Scores are in thousandths.  What a chunk's text and its row's question  *)
(* say is abstracted to what the ranking asks of them (Found).             *)
(***************************************************************************)
EXTENDS Routing, Integers, FiniteSets, SequencesExt

CONSTANTS
    Found,          \* per chunk a search may find: what the ranking asks of it, see FoundAssumption
    Strays,         \* ids the reranker may make up
    TopK,           \* 3: matches asked of each goroutine, and kept
    MaxDocuments,   \* 5: matches sent to the reranker
    MaxRanking,     \* bound on the items of the reranker's answer
    VectorScores,   \* scores of the vector index
    KeywordScores,  \* scores of the keyword index, before they are normalised
    RerankScores,   \* scores of the reranker, before they are normalised
    Messages        \* messages, of which only the risky words matter here

Chunks == DOMAIN Found

\* row, question: the look-up finds a row, and that has a question.  passage: the text of the
\* row or of the index, "short" when it has less than ragDirectMinContentRunes.  inQuestion,
\* inContent, inRow: how many words of the query are in the question, how many of the others in
\* the chunk's text, and of the rest in the content of the row.  exact: the query contains the
\* question.
Aspects == [row : BOOLEAN, question : BOOLEAN, passage : {"none", "short", "long"},
            inQuestion : 0..5, inContent : 0..5, inRow : 0..5, exact : BOOLEAN]

ASSUME FoundAssumption ==
    /\ Found \in [Chunks -> Aspects]
    /\ \A id \in Chunks :
         /\ Found[id].inQuestion > 0 \/ Found[id].exact => Found[id].question
         /\ Found[id].inRow > 0 \/ Found[id].question => Found[id].row
ASSUME RankBoundsAssumption ==
    TopK \in Nat \ {0} /\ MaxDocuments \in Nat \ {0} /\ MaxRanking \in Nat /\ Strays \cap Chunks = {}
ASSUME ScoresAssumption == VectorScores \cup KeywordScores \cup RerankScores \subseteq Int

VARIABLES
    vectorMatches,   \* what searchVectorKnowledge returned
    keywordMatches,  \* what searchKeywordKnowledge returned
    terms,           \* the query has keyword terms (words of two runes or more)
    matches,         \* the merged, then the reranked matches
    orderly,         \* ghost: the reranker's answer, if any, descends on one scale (OnOneScale)
    step,            \* where the search is
    reply            \* what Send does: "none" yet, "fallback", "direct" or "model"

rankVars == <<vectorMatches, keywordMatches, terms, matches, orderly, step, reply>>

Match == [id : Chunks, score : Int, source : {"vector", "keyword", "hybrid"}, reranked : BOOLEAN]

Ids(ms) == { ms[i].id : i \in DOMAIN ms }

AtMost(bound, n) == IF n > bound THEN bound ELSE n

FirstOf(n, s) == SubSeq(s, 1, AtMost(n, Len(s)))

\* The items of s at the places where f is defined, each at the place that f gives it.
Arranged(s, f) == [k \in 1..Cardinality(DOMAIN f) |-> s[CHOOSE j \in DOMAIN f : f[j] = k]]

\* What is left of s when only some places are kept: a loop with a condition and an append.
Only(s, places) == Arranged(s, [j \in places |-> Cardinality({ i \in places : i <= j })])

-----------------------------------------------------------------------------
(* The goroutines' scores. *)

\* normalizeOpenSearchScore
NormalizeOpenSearchScore(score) ==
    IF score <= 0 THEN 0 ELSE AtMost(950, 700 + (score * 250) \div (score + 8000))

\* keywordScore, of the LIKE query that stands in for the keyword index
TableScore(id) ==
    LET about == Found[id]
    IN  AtMost(960, 800 + 80 * about.inQuestion + 50 * about.inContent + 30 * about.inRow)

FoundBy(source, id, score) == [id |-> id, score |-> score, source |-> source, reranked |-> FALSE]

\* searchVectorKnowledge: an answer may repeat a chunk; the last of its scores is taken for all.
VectorResults ==
    UNION { { [i \in DOMAIN list |-> FoundBy("vector", list[i], scores[list[i]])] :
              scores \in [Range(list) -> VectorScores] } : list \in SeqOf(Chunks, TopK) }

\* searchKeywordKnowledge: the index, or the table
IndexResults ==
    UNION { { [i \in DOMAIN list |-> FoundBy("keyword", list[i], NormalizeOpenSearchScore(scores[list[i]]))] :
              scores \in [Range(list) -> KeywordScores] } : list \in SeqOf(Chunks, TopK) }

\* SearchKnowledgeByKeyword: chunks of a row with a word in its question, content or chunk text
HasWord(id) == Found[id].row /\ Found[id].inQuestion + Found[id].inContent + Found[id].inRow > 0

TableResults ==
    { [i \in DOMAIN list |-> FoundBy("keyword", list[i], TableScore(list[i]))] :
      list \in { s \in SeqOf({ id \in Chunks : HasWord(id) }, TopK) : IsInjective(s) } }

-----------------------------------------------------------------------------
(* mergeRAGMatches *)

\* The better match of a chunk, marked as found by both.
Combined(old, new) ==
    LET better == IF new.score > old.score THEN new ELSE old
    IN  IF old.source # new.source THEN [better EXCEPT !.source = "hybrid"] ELSE better

Add(merged, match) ==
    IF match.id \in Ids(merged)
    THEN [i \in DOMAIN merged |->
            IF merged[i].id = match.id THEN Combined(merged[i], match) ELSE merged[i]]
    ELSE Append(merged, match)

\* rerankRAGMatch: every word of the query that is in the question, or else in the text, counts.
Weighed(match) ==
    LET about == Found[match.id]
        bonus == 45 * about.inQuestion + 25 * about.inContent
                 + (IF about.exact THEN 60 ELSE 0)
                 + (IF about.inQuestion >= 2 THEN 40 ELSE 0)
                 + (IF about.inQuestion > 0 /\ about.inContent > 0 THEN 25 ELSE 0)
                 + (IF match.source = "hybrid" THEN 35 ELSE 0)
    IN  IF terms THEN [match EXCEPT !.score = AtMost(990, match.score + bonus)] ELSE match

\* Mutant: in the order of discovery.
BestFirst_Unsorted(ms) == ms

\* sort.SliceStable, higher scores first
BestFirst(ms) ==
    LET Before(i, j) == ms[i].score > ms[j].score \/ (ms[i].score = ms[j].score /\ i <= j)
    IN  Arranged(ms, [j \in DOMAIN ms |-> Cardinality({ i \in DOMAIN ms : Before(i, j) })])

\* The loop over the matches of both goroutines: what is merged of the first n of them.
MergedUpTo(found) ==
    LET merged[n \in 0..Len(found)] == IF n = 0 THEN <<>> ELSE Add(merged[n - 1], found[n])
    IN  merged

Merged ==
    LET found == vectorMatches \o keywordMatches
        merged == MergedUpTo(found)[Len(found)]
    IN  FirstOf(TopK, BestFirst([i \in DOMAIN merged |-> Weighed(merged[i])]))

-----------------------------------------------------------------------------
(* rerankRAGMatches *)

HasText(id) == Found[id].passage # "none" \/ Found[id].question

Documents == { m.id : m \in { n \in Range(FirstOf(MaxDocuments, matches)) : HasText(n.id) } }

NormalizeRerankScore(score, fallback) ==
    IF score <= 0 THEN fallback
    ELSE IF score <= 1000 THEN 740 + (score * 230) \div 1000
    ELSE AtMost(970, 740 + (score * 230) \div (score + 8000))

\* The reranker answers with any documents, and ids of its own, in any order, also repeatedly.
Rankings == SeqOf([id : Documents \cup Strays, score : RerankScores], MaxRanking)

\* Every occurrence of a known document, then the matches that do not occur.
Reranked(ranking) ==
    LET known == Only(ranking, { i \in DOMAIN ranking : ranking[i].id \in Documents })
        old(id) == matches[CHOOSE i \in DOMAIN matches : matches[i].id = id]
        first == [i \in DOMAIN known |->
                    [old(known[i].id) EXCEPT
                        !.score = NormalizeRerankScore(known[i].score, @),
                        !.reranked = TRUE]]
        rest == Only(matches, { i \in DOMAIN matches : matches[i].id \notin Ids(first) })
    IN  FirstOf(TopK, first \o rest)

\* The documents are ranked best first, all their scores being fractions or all being raw.
OnOneScale(ranking) ==
    LET known == { i \in DOMAIN ranking : ranking[i].id \in Documents }
    IN  \A i, j \in known :
          /\ i <= j => ranking[i].score >= ranking[j].score
          /\ ranking[i].score > 0
          /\ (ranking[i].score <= 1000) = (ranking[j].score <= 1000)

-----------------------------------------------------------------------------
(* What is usable. *)

\* hasStrongTextEvidence; a reranked match's source is "keyword_rerank" or "hybrid_rerank"
HasStrongTextEvidence(m) ==
    (m.source \in {"keyword", "hybrid"} /\ ~m.reranked) \/ Found[m.id].question

\* ragMinScore and ragStrongTextMinScore
GoodEnough(m) == m.score >= 780 \/ (m.score >= 740 /\ HasStrongTextEvidence(m))

\* ragHasUsableKnowledge looks at the best match only
RagHasUsableKnowledge(ms) ==
    ms # <<>> /\ Found[Head(ms).id].passage # "none" /\ GoodEnough(Head(ms))

\* Mutant: the filter has only the higher of the two thresholds.
UsableRAGMatches_OneThreshold(ms) ==
    Only(ms, { i \in DOMAIN ms : Found[ms[i].id].passage # "none" /\ ms[i].score >= 780 })

UsableRAGMatches(ms) ==
    Only(ms, { i \in DOMAIN ms : Found[ms[i].id].passage # "none" /\ GoodEnough(ms[i]) })

\* shouldDirectReplyRAG: ragDirectMinScore, ragDirectMinContentRunes, ragDirectStrongScore, ragDirectMinGap
ShouldDirectReplyRAG(message, ms) ==
    /\ ms # <<>>
    /\ Head(ms).score >= 900
    /\ Found[Head(ms).id].passage = "long"
    /\ Head(ms).score >= 930 \/ Len(ms) = 1 \/ Head(ms).score - ms[2].score >= 80
    /\ ~IsRiskyDirectReplyQuery(message)

-----------------------------------------------------------------------------
(* The steps of one search. *)

RankInit ==
    /\ vectorMatches \in VectorResults
    /\ terms \in BOOLEAN
    /\ keywordMatches \in IndexResults \cup (IF terms THEN TableResults ELSE {})
    /\ matches = <<>>
    /\ orderly = TRUE
    /\ step = "found"
    /\ reply = "none"

Merge ==
    /\ step = "found"
    /\ matches' = Merged
    /\ step' = "merged"
    /\ vectorMatches' = <<>>
    /\ keywordMatches' = <<>>
    /\ UNCHANGED <<terms, orderly, reply>>

\* Mutant: what the reranker left out is dropped.
Rerank_RankedOnly ==
    /\ step = "merged"
    /\ step' = "ranked"
    /\ \E ranking \in Rankings :
        /\ matches' = SelectSeq(Reranked(ranking), LAMBDA m : m.reranked)
        /\ orderly' = OnOneScale(ranking)
    /\ UNCHANGED <<vectorMatches, keywordMatches, terms, reply>>

\* One match or one document is left as it is, and so are the matches when the reranker fails.
Rerank ==
    /\ step = "merged"
    /\ step' = "ranked"
    /\ \/ UNCHANGED <<matches, orderly>>
       \/ /\ Len(matches) > 1
          /\ Cardinality(Documents) > 1
          /\ \E ranking \in Rankings :
                /\ ranking # <<>>
                /\ matches' = Reranked(ranking)
                /\ orderly' = OnOneScale(ranking)
    /\ UNCHANGED <<vectorMatches, keywordMatches, terms, reply>>

\* Send, for a message that no rule handled
Decide ==
    /\ step = "ranked"
    /\ step' = "decided"
    /\ \E message \in Messages :
        LET usable == UsableRAGMatches(matches)
        IN  reply' = IF ~RagHasUsableKnowledge(matches) THEN "fallback"
                     ELSE IF ShouldDirectReplyRAG(message, usable) THEN "direct" ELSE "model"
    /\ UNCHANGED <<vectorMatches, keywordMatches, terms, matches, orderly>>

RankNext == Merge \/ Rerank \/ Decide

RankSpec == RankInit /\ [][RankNext]_rankVars

-----------------------------------------------------------------------------
(* Properties. *)

\* A hit of the cache serves what the miss that filled it served: the hit takes the first of
\* the usable matches (service.go:750), the miss the first match (789), and Send the first of
\* the usable ones without looking whether there is one (298, 303).
HitEqualsMiss ==
    step = "ranked" /\ RagHasUsableKnowledge(matches) =>
        /\ UsableRAGMatches(matches) # <<>>
        /\ Head(UsableRAGMatches(matches)) = Head(matches)

\* What the merge promises, in terms of sets: of the chunks that either goroutine found, each
\* once with the better of its scores, the TopK best remain (service.go:1071-1118).  What the
\* reranker answers - unknown ids, some documents only, a document twice - neither adds a chunk
\* nor shortens the list; what it leaves out stays as it was, behind what it ranks.  Nothing
\* tests whether an item was used already (830-843), so a document that it names twice is there
\* twice, and only then can the cut at TopK (851-853) push another chunk out.
RankingSelects ==
    [][ LET found == Range(vectorMatches) \cup Range(keywordMatches)
            Of(id) == { m \in found : m.id = id }
            Best(id) == CHOOSE m \in Of(id) : \A n \in Of(id) : n.score <= m.score
            Weight(id) == Weighed([Best(id) EXCEPT !.source =
                                     IF Cardinality({ m.source : m \in Of(id) }) = 2 THEN "hybrid" ELSE @]).score
            ids == { m.id : m \in found }
        IN  /\ step = "found" =>
                 /\ Ids(matches') \subseteq ids
                 /\ Cardinality(Ids(matches')) = Len(matches')
                 /\ Len(matches') = AtMost(TopK, Cardinality(ids))
                 /\ \A i \in DOMAIN matches' :
                      /\ matches'[i].score = Weight(matches'[i].id)
                      /\ \A id \in ids \ Ids(matches') : Weight(id) <= matches'[i].score
            /\ step = "merged" =>
                 /\ Ids(matches') \subseteq Ids(matches)
                 /\ Len(matches') \in Len(matches)..TopK
                 /\ Ids(matches') # Ids(matches) => \E i, j \in DOMAIN matches' :
                      i # j /\ matches'[i].id = matches'[j].id
                 /\ \A i, j \in DOMAIN matches' :
                      i # j /\ matches'[i].id = matches'[j].id => matches'[i].reranked
                 /\ \A j \in DOMAIN matches' : ~matches'[j].reranked =>
                      /\ matches'[j] \in Range(matches)
                      /\ \A i \in j..Len(matches') : ~matches'[i].reranked ]_rankVars

\* A passage that Send answers with itself is the best of its kind.  The test compares it with
\* the second usable match only, and not at all from 930 on (service.go:1041).  Yet, below 930,
\*   - when the second is not reranked, it is 80 ahead of every other usable match;
\*   - it is 80 ahead of every reranked one if the reranker's answer is in descending order on
\*     one scale, which nothing checks: fractions and raw scores are mapped by two formulas
\*     (906-909), and a score of 0 leaves the old one (903).
\* At any score, it is reranked if any usable match is; else none has a higher score.  Nothing
\* holds for matches that the reranker left out behind two that it ranked.
DirectReplyIsClear ==
    LET usable == UsableRAGMatches(matches)
        top == Head(usable)
        Ahead(m) == top.score >= 930 \/ top.score - m.score >= 80
    IN  reply = "direct" => \A i \in 2..Len(usable) :
          /\ usable[i].reranked => top.reranked
          /\ ~top.reranked => usable[i].score <= top.score
          /\ ~usable[2].reranked => Ahead(usable[i])
          /\ usable[i].reranked /\ orderly => Ahead(usable[i]) /\ usable[i].score <= top.score
=============================================================================
